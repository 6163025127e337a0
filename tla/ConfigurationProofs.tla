------------------------ MODULE ConfigurationProofs ------------------------
(***************************************************************************)
(* Proofs about Configuration, for any clients, tasks, providers and pools *)
(* and any number of operations.                                           *)
(***************************************************************************)
EXTENDS Configuration, FiniteSetTheorems, WellFoundedInduction, TLAPS

-----------------------------------------------------------------------------
(* The providers, the pools and the targets.                               *)

NoTarget == [provider |-> None, pool |-> None]

\* A filing whose target was looked at has seen it configured.
Filings == [pc : {"file"}, task : Tasks, target : Target, seen : {TRUE}]
Forgetting == [pc : {"forget"}, id : ProviderIds]

Stands(c, unchecked, byForce) ==
  /\ \A t \in Tasks : ~Configured(c, c.tasks[t]) => t \in unchecked
  /\ ~c.providers[c.default].on => byForce

\* What a settings form has read held when it read it.
Copies == [pc : {"put"}, cfg : Config, late : SUBSET Tasks, typed : SUBSET Tasks, forced : BOOLEAN]
Putting == {o \in Copies : Holds(o.cfg) /\ Stands(o.cfg, o.late \union o.typed, o.forced)}

ClientOps == {Idle} \union Filings \union Forgetting \union Putting

ClientsInv ==
  section = "providers" => ops \in [Clients -> ClientOps]

ConfigInv == config \in Config /\ Holds(config) /\ Stands(config, late \union typed, forced)

MarksType == late \in SUBSET Tasks /\ typed \in SUBSET Tasks /\ forced \in BOOLEAN

FileInv == ClientsInv /\ ConfigInv /\ MarksType

LEMMA InMaps ==
  ASSUME NEW S, NEW T, NEW f
  PROVE  f \in Maps(S, T) <=> DOMAIN f \subseteq S /\ f \in [DOMAIN f -> T]
  BY DEF Maps

LEMMA ConfigFields ==
  ASSUME NEW c \in Config
  PROVE  /\ Known(c) \subseteq ProviderIds /\ c.providers \in [Known(c) -> Provider]
         /\ Pooled(c) \subseteq ProviderIds /\ c.pools \in [Pooled(c) -> MemberLists]
         /\ c.default \in ProviderIds /\ c.tasks \in [Tasks -> Target]
  BY InMaps DEF Config, Known, Pooled

LEMMA MembersAreLists ==
  ASSUME NEW members \in MemberLists
  PROVE  members \in Seq(ProviderIds)
<1>1. PICK m \in 0..2 : members \in [1..m -> ProviderIds]
  BY DEF MemberLists, BoundedSeq, SeqOf
<1> QED  BY <1>1

LEMMA InitFile == Init => FileInv
<1> SUFFICES ASSUME Init PROVE FileInv
  OBVIOUS
<1>1. config \in InitialConfigs /\ ops = [c \in Clients |-> Idle]
  BY DEF Init, ProvidersInit
<1>2. Stands(config, late \union typed, forced) /\ config \in Config /\ Holds(config)
  BY <1>1, InitialConfigsAssumption DEF Stands
<1>3. MarksType
  BY DEF Init, ProvidersInit, MarksType
<1> QED  BY <1>1, <1>2, <1>3 DEF FileInv, ClientsInv, ClientOps, ConfigInv

\* Other providers: what the pools have in them is still there and of its kind,
\* and what the tasks name is still there.
LEMMA OtherProviders ==
  ASSUME ConfigInv, NEW ps \in Maps(ProviderIds, Provider),
         config' = [config EXCEPT !.providers = ps], ProvidersHold(config'),
         UNCHANGED <<late, typed>>, forced' = forced,
         DOMAIN ps \intersect Pooled(config) = {},
         \A p \in Pooled(config) : \A m \in ToSet(config.pools[p]) :
            m \in DOMAIN ps /\ ps[m].kind = config.providers[m].kind,
         \A t \in Tasks : config.tasks[t].provider \in Known(config)
                          => config.tasks[t].provider \in DOMAIN ps,
         ~ps[config.default].on => forced
  PROVE  ConfigInv'
<1>1. config \in Config /\ Holds(config) /\ Stands(config, late \union typed, forced)
  BY DEF ConfigInv
<1>2. /\ config' \in Config /\ config'.providers = ps /\ config'.pools = config.pools
      /\ config'.default = config.default /\ config'.tasks = config.tasks
  BY <1>1 DEF Config
<1>3. Known(config') = DOMAIN ps /\ Pooled(config') = Pooled(config)
  BY <1>2 DEF Known, Pooled
<1>4. ASSUME NEW p \in Pooled(config) PROVE PoolHolds(config', p, config.pools[p])
  <2> DEFINE members == config.pools[p]
  <2>1. PoolHolds(config, p, members)
    BY <1>1 DEF Holds
  <2>2. ToSet(members) \subseteq DOMAIN ps /\ p \notin DOMAIN ps
    BY Zenon
  <2>3. {ps[m].kind : m \in ToSet(members)} = {config.providers[m].kind : m \in ToSet(members)}
    OBVIOUS
  <2> HIDE DEF members
  <2>4. Cardinality({ps[m].kind : m \in ToSet(members)}) = 1
    BY <2>1, <2>3 DEF PoolHolds
  <2>5. Cardinality({config'.providers[m].kind : m \in ToSet(members)}) = 1
    BY <1>2, <2>4
  <2>6. PoolHolds(config', p, members)
    BY <1>3, <2>1, <2>2, <2>5 DEF PoolHolds
  <2> QED  BY <2>6 DEF members
<1>5. Holds(config')
  BY <1>2, <1>3, <1>4 DEF Holds
<1>6. \A t \in Tasks : Configured(config, config.tasks[t]) => Configured(config', config'.tasks[t])
  BY <1>2, <1>3 DEF Configured
<1>7. Stands(config', late \union typed, forced)
  BY <1>1, <1>2, <1>6 DEF Stands
<1> QED  BY <1>2, <1>5, <1>7 DEF ConfigInv

\* Other pools, of the providers there are.
LEMMA OtherPools ==
  ASSUME ConfigInv, NEW pools \in Maps(ProviderIds, MemberLists),
         config' = [config EXCEPT !.pools = pools], ProvidersHold(config'),
         UNCHANGED <<late, typed>>, forced' = forced,
         \A p \in DOMAIN pools : PoolHolds(config, p, pools[p]),
         \A t \in Tasks : config.tasks[t].pool \in Pooled(config)
                          => config.tasks[t].pool \in DOMAIN pools
  PROVE  ConfigInv'
<1>1. config \in Config /\ Holds(config) /\ Stands(config, late \union typed, forced)
  BY DEF ConfigInv
<1>2. /\ config' \in Config /\ config'.providers = config.providers /\ config'.pools = pools
      /\ config'.default = config.default /\ config'.tasks = config.tasks
  BY <1>1 DEF Config
<1>3. Known(config') = Known(config) /\ Pooled(config') = DOMAIN pools
  BY <1>2 DEF Known, Pooled
<1>4. ASSUME NEW p \in DOMAIN pools PROVE PoolHolds(config', p, pools[p])
  <2>1. PoolHolds(config, p, pools[p])
    OBVIOUS
  <2>2. \A members : PoolHolds(config, p, members) => PoolHolds(config', p, members)
    BY <1>2, <1>3 DEF PoolHolds
  <2> QED  BY <2>1, <2>2
<1>5. DOMAIN pools \intersect Known(config) = {}
  <2> SUFFICES ASSUME NEW p \in DOMAIN pools PROVE p \notin Known(config)
    OBVIOUS
  <2>1. PoolHolds(config, p, pools[p])
    OBVIOUS
  <2> QED  BY <2>1 DEF PoolHolds
<1>6. Holds(config')
  BY <1>2, <1>3, <1>4, <1>5 DEF Holds
<1>7. \A t \in Tasks : Configured(config, config.tasks[t]) => Configured(config', config'.tasks[t])
  BY <1>2, <1>3 DEF Configured
<1>8. Stands(config', late \union typed, forced)
  BY <1>1, <1>2, <1>7 DEF Stands
<1> QED  BY <1>2, <1>6, <1>8 DEF ConfigInv

\* Another default.
LEMMA OtherDefault ==
  ASSUME ConfigInv, NEW id \in ProviderIds,
         config' = [config EXCEPT !.default = id], ProvidersHold(config'),
         UNCHANGED <<late, typed>>, config.providers[id].on \/ forced'
  PROVE  ConfigInv'
<1>1. config \in Config /\ Holds(config) /\ Stands(config, late \union typed, forced)
  BY DEF ConfigInv
<1>2. /\ config' \in Config /\ config'.providers = config.providers
      /\ config'.pools = config.pools /\ config'.default = id /\ config'.tasks = config.tasks
  BY <1>1 DEF Config
<1>3. Known(config') = Known(config) /\ Pooled(config') = Pooled(config)
  BY <1>2 DEF Known, Pooled
<1>4. \A p \in Pooled(config) : PoolHolds(config', p, config.pools[p])
  <2>1. \A p, members : PoolHolds(config, p, members) => PoolHolds(config', p, members)
    BY <1>2, <1>3 DEF PoolHolds
  <2>2. \A p \in Pooled(config) : PoolHolds(config, p, config.pools[p])
    BY <1>1 DEF Holds
  <2> QED  BY <2>1, <2>2
<1>5. Holds(config')
  BY <1>1, <1>2, <1>3, <1>4 DEF Holds
<1>6. \A t \in Tasks : Configured(config, config.tasks[t]) => Configured(config', config'.tasks[t])
  BY <1>2, <1>3 DEF Configured
<1>7. Stands(config', late' \union typed', forced')
  BY <1>1, <1>2, <1>6 DEF Stands
<1> QED  BY <1>2, <1>5, <1>7 DEF ConfigInv

\* Another target of a task.
LEMMA OtherTarget ==
  ASSUME ConfigInv, NEW t \in Tasks, NEW target \in Target,
         config' = [config EXCEPT !.tasks[t] = target], ProvidersHold(config'),
         forced' = forced, (late \union typed) \ {t} \subseteq late' \union typed',
         ~Configured(config, target) => t \in late' \union typed'
  PROVE  ConfigInv'
<1>1. config \in Config /\ Holds(config) /\ Stands(config, late \union typed, forced)
  BY DEF ConfigInv
<1>2. /\ config' \in Config /\ config'.providers = config.providers
      /\ config'.pools = config.pools /\ config'.default = config.default
      /\ config'.tasks = [config.tasks EXCEPT ![t] = target]
  BY <1>1 DEF Config
<1>3. Known(config') = Known(config) /\ Pooled(config') = Pooled(config)
  BY <1>2 DEF Known, Pooled
<1>4. \A p \in Pooled(config) : PoolHolds(config', p, config.pools[p])
  <2>1. \A p, members : PoolHolds(config, p, members) => PoolHolds(config', p, members)
    BY <1>2, <1>3 DEF PoolHolds
  <2>2. \A p \in Pooled(config) : PoolHolds(config, p, config.pools[p])
    BY <1>1 DEF Holds
  <2> QED  BY <2>1, <2>2
<1>5. Holds(config')
  BY <1>1, <1>2, <1>3, <1>4 DEF Holds
<1>6. ASSUME NEW u \in Tasks, ~Configured(config', config'.tasks[u])
      PROVE  u \in late' \union typed'
  <2>1. config.tasks \in [Tasks -> Target]
    BY <1>1, ConfigFields
  <2>2. CASE u = t
    BY <2>1, <2>2, <1>2, <1>3, <1>6 DEF Configured
  <2>3. CASE u # t
    <3>1. ~Configured(config, config.tasks[u])
      BY <2>1, <2>3, <1>2, <1>3, <1>6 DEF Configured
    <3> QED  BY <1>1, <2>3, <3>1 DEF Stands
  <2> QED  BY <2>2, <2>3
<1>7. Stands(config', late' \union typed', forced')
  BY <1>1, <1>2, <1>6 DEF Stands
<1> QED  BY <1>2, <1>5, <1>7 DEF ConfigInv

\* Neither the harnesses nor the looks touch the file.
LEMMA SameFile ==
  ASSUME FileInv, UNCHANGED <<section, config, late, typed, forced, ops>>
  PROVE  FileInv'
  BY DEF FileInv, ClientsInv, ConfigInv, MarksType

LEMMA AddProviderStep ==
  ASSUME FileInv, NEW id \in ProviderIds, NEW inst \in Provider, AddProvider(id, inst),
         UNCHANGED <<late, typed>>, forced' = forced
  PROVE  ConfigInv'
<1> DEFINE ps == [i \in Known(config) \union {id} |->
                     IF i = id THEN inst ELSE config.providers[i]]
<1>1. /\ id \notin Known(config) \union Pooled(config)
      /\ config' = [config EXCEPT !.providers = ps] /\ ProvidersHold(config')
  BY DEF AddProvider, Saved
<1>2. config \in Config /\ Holds(config) /\ Stands(config, late \union typed, forced) /\ ConfigInv
  BY DEF FileInv, ConfigInv
<1>3. /\ Known(config) \subseteq ProviderIds /\ config.providers \in [Known(config) -> Provider]
      /\ config.default \in Known(config)
      /\ \A p \in Pooled(config) : ToSet(config.pools[p]) \subseteq Known(config)
  BY <1>2, ConfigFields DEF Holds, ProvidersHold, PoolHolds
<1>4. /\ DOMAIN ps = Known(config) \union {id} /\ ps \in [Known(config) \union {id} -> Provider]
      /\ \A m \in Known(config) : ps[m] = config.providers[m]
  BY <1>1, <1>3
<1> HIDE DEF ps
<1>5. ps \in Maps(ProviderIds, Provider)
  BY <1>3, <1>4, InMaps
<1>6. DOMAIN ps \intersect Pooled(config) = {}
  BY <1>1, <1>2, <1>4 DEF Holds
<1>7. ~ps[config.default].on => forced
  BY <1>2, <1>3, <1>4 DEF Stands
<1> QED  BY <1>1, <1>2, <1>3, <1>4, <1>5, <1>6, <1>7, OtherProviders

\* An instance is edited, its kind kept.
LEMMA EditProviderStep ==
  ASSUME FileInv, NEW id \in Known(config), NEW inst \in Provider,
         config' = [config EXCEPT !.providers[id] = inst], ProvidersHold(config'),
         inst.kind = config.providers[id].kind, DefaultStaysUsable(id, inst.on),
         UNCHANGED <<late, typed>>, forced' = forced
  PROVE  ConfigInv'
<1> DEFINE ps == [config.providers EXCEPT ![id] = inst]
<1>1. config \in Config /\ Holds(config) /\ Stands(config, late \union typed, forced) /\ ConfigInv
  BY DEF FileInv, ConfigInv
<1>2. /\ Known(config) \subseteq ProviderIds /\ config.providers \in [Known(config) -> Provider]
      /\ config.default \in Known(config)
      /\ \A p \in Pooled(config) : ToSet(config.pools[p]) \subseteq Known(config)
  BY <1>1, ConfigFields DEF Holds, ProvidersHold, PoolHolds
<1>3. config' = [config EXCEPT !.providers = ps]
  BY <1>1 DEF Config
<1>4. /\ DOMAIN ps = Known(config) /\ ps \in [Known(config) -> Provider]
      /\ ps[id] = inst /\ \A m \in Known(config) : m # id => ps[m] = config.providers[m]
  BY <1>2
<1> HIDE DEF ps
<1>5. ps \in Maps(ProviderIds, Provider)
  BY <1>2, <1>4, InMaps
<1>6. DOMAIN ps \intersect Pooled(config) = {}
  BY <1>1, <1>4 DEF Holds
<1>7. \A m \in Known(config) : ps[m].kind = config.providers[m].kind
  BY <1>4
<1>8. ~ps[config.default].on => forced
  BY <1>1, <1>2, <1>4 DEF Stands, DefaultStaysUsable
<1> QED  BY <1>1, <1>2, <1>3, <1>4, <1>5, <1>6, <1>7, <1>8, OtherProviders

LEMMA RemoveProviderStep ==
  ASSUME FileInv, NEW c \in Clients, NEW id \in ProviderIds, RemoveProvider(c, id)
  PROVE  ConfigInv'
<1> DEFINE ps == [i \in Known(config) \ {id} |-> config.providers[i]]
<1>1. /\ config' = [config EXCEPT !.providers = ps] /\ ProvidersHold(config')
      /\ ~InUse(config, id) /\ UNCHANGED <<late, typed>> /\ forced' = forced
  BY DEF RemoveProvider, Saved, marks
<1>2. config \in Config /\ Holds(config) /\ Stands(config, late \union typed, forced) /\ ConfigInv
  BY DEF FileInv, ConfigInv
<1>3. /\ Known(config) \subseteq ProviderIds /\ config.providers \in [Known(config) -> Provider]
      /\ config.default \in Known(config)
      /\ \A p \in Pooled(config) : ToSet(config.pools[p]) \subseteq Known(config)
  BY <1>2, ConfigFields DEF Holds, ProvidersHold, PoolHolds
<1>4. /\ DOMAIN ps = Known(config) \ {id} /\ ps \in [Known(config) \ {id} -> Provider]
      /\ \A m \in Known(config) : m # id => ps[m] = config.providers[m]
  BY <1>3
<1>5. /\ config.default # id /\ \A t \in Tasks : config.tasks[t].provider # id
      /\ \A p \in Pooled(config) : ~Contains(config.pools[p], id)
  BY <1>1 DEF InUse
<1>6. \A p \in Pooled(config) : id \notin ToSet(config.pools[p])
  <2> SUFFICES ASSUME NEW p \in Pooled(config), id \in ToSet(config.pools[p])
               PROVE  Contains(config.pools[p], id)
    BY <1>5
  <2>1. config.pools[p] \in MemberLists
    BY <1>2, ConfigFields
  <2>2. config.pools[p] \in Seq(ProviderIds)
    BY <2>1, MembersAreLists
  <2> QED  BY <2>2 DEF ToSet, Contains
<1> HIDE DEF ps
<1>7. ps \in Maps(ProviderIds, Provider)
  <2>1. DOMAIN ps \subseteq ProviderIds
    BY <1>3, <1>4
  <2> QED  BY <1>4, <2>1, InMaps
<1>8. DOMAIN ps \intersect Pooled(config) = {}
  BY <1>2, <1>4 DEF Holds
<1>9. ~ps[config.default].on => forced
  BY <1>2, <1>3, <1>4, <1>5 DEF Stands
<1>10. \A p \in Pooled(config) : \A m \in ToSet(config.pools[p]) :
          m \in DOMAIN ps /\ ps[m].kind = config.providers[m].kind
  BY <1>3, <1>4, <1>6
<1>11. \A t \in Tasks : config.tasks[t].provider \in Known(config)
                        => config.tasks[t].provider \in DOMAIN ps
  BY <1>4, <1>5
<1> QED  BY <1>1, <1>2, <1>7, <1>8, <1>9, <1>10, <1>11, OtherProviders

LEMMA KnownProvider ==
  ASSUME FileInv, NEW id \in Known(config)
  PROVE  config.providers[id] \in Provider
  BY ConfigFields DEF FileInv, ConfigInv

LEMMA EditStep ==
  ASSUME FileInv, NEW id \in ProviderIds,
         \/ EditProviderRequest(id) \/ EditProviderCommand(id) \/ SetProviderEnabled(id)
  PROVE  ConfigInv'
<1>1. UNCHANGED <<late, typed>> /\ forced' = forced
  BY DEF EditProviderRequest, EditProviderCommand, SetProviderEnabled, AtOnce
<1>2. id \in Known(config)
  BY DEF EditProviderRequest, EditProviderCommand, SetProviderEnabled
<1> DEFINE old == config.providers[id]
<1>3. old \in Provider /\ old.on \in BOOLEAN
  BY <1>2, KnownProvider DEF Provider
<1>4. PICK inst \in Provider :
        /\ inst.kind = old.kind /\ DefaultStaysUsable(id, inst.on)
        /\ config' = [config EXCEPT !.providers[id] = inst] /\ ProvidersHold(config')
  <2>1. CASE EditProviderRequest(id)
    <3>1. PICK fallback \in ProviderIds \union {None}, on \in BOOLEAN :
            EditProvider(id, [old EXCEPT !.fallback = fallback, !.on = on])
      BY <2>1 DEF EditProviderRequest
    <3> DEFINE inst == [old EXCEPT !.fallback = fallback, !.on = on]
    <3>2. inst \in Provider /\ inst.kind = old.kind
      BY <1>3 DEF Provider
    <3> HIDE DEF inst
    <3> QED  BY <3>1, <3>2 DEF EditProvider, Saved, inst
  <2>2. CASE EditProviderCommand(id)
    <3>1. PICK fallback \in ProviderIds \union {None} :
            EditProvider(id, [old EXCEPT !.fallback = fallback])
      BY <2>2 DEF EditProviderCommand
    <3> DEFINE inst == [old EXCEPT !.fallback = fallback]
    <3>2. inst \in Provider /\ inst.kind = old.kind
      BY <1>3 DEF Provider
    <3> HIDE DEF inst
    <3> QED  BY <3>1, <3>2 DEF EditProvider, Saved, inst
  <2>3. CASE SetProviderEnabled(id)
    <3>1. PICK on \in BOOLEAN :
            DefaultStaysUsable(id, on) /\ Saved([config EXCEPT !.providers[id].on = on])
      BY <2>3 DEF SetProviderEnabled
    <3> DEFINE inst == [old EXCEPT !.on = on]
    <3>2. inst \in Provider /\ inst.kind = old.kind /\ inst.on = on
      BY <1>3 DEF Provider
    <3>3. Saved([config EXCEPT !.providers[id] = inst])
      BY <3>1
    <3> HIDE DEF inst
    <3> QED  BY <3>1, <3>2, <3>3 DEF Saved
  <2> QED  BY <2>1, <2>2, <2>3
<1> QED  BY <1>1, <1>2, <1>4, EditProviderStep

-----------------------------------------------------------------------------
(* Every operation keeps the file.                                         *)

\* A command that is over at once leaves the clients alone.
LEMMA OpsStay ==
  ASSUME ClientsInv, UNCHANGED <<section, ops>>
  PROVE  ClientsInv'
  BY DEF ClientsInv

LEMMA PoolsStep ==
  ASSUME FileInv, NEW id \in ProviderIds, AddPool(id) \/ EditPool(id) \/ RemovePool(id)
  PROVE  ConfigInv'
<1>1. config \in Config /\ Holds(config) /\ ConfigInv /\ UNCHANGED <<late, typed>> /\ forced' = forced
  BY DEF FileInv, ConfigInv, AddPool, EditPool, RemovePool, AtOnce, alerts
<1>2. /\ Pooled(config) \subseteq ProviderIds /\ config.pools \in [Pooled(config) -> MemberLists]
      /\ \A p \in Pooled(config) : PoolHolds(config, p, config.pools[p])
  BY <1>1, ConfigFields DEF Holds
<1>3. CASE AddPool(id)
  <2>1. PICK members \in MemberLists :
          /\ PoolHolds(config, id, members)
          /\ Saved([config EXCEPT !.pools = [p \in Pooled(config) \union {id} |->
                IF p = id THEN members ELSE config.pools[p]]])
    BY <1>3 DEF AddPool
  <2> DEFINE pools == [p \in Pooled(config) \union {id} |->
                         IF p = id THEN members ELSE config.pools[p]]
  <2>2. config' = [config EXCEPT !.pools = pools] /\ ProvidersHold(config')
    BY <2>1 DEF Saved
  <2>3. DOMAIN pools = Pooled(config) \union {id} /\ pools \in [DOMAIN pools -> MemberLists]
    BY <1>2
  <2>4. \A p \in DOMAIN pools : PoolHolds(config, p, pools[p])
    BY <1>2, <2>1
  <2> HIDE DEF pools
  <2>5. DOMAIN pools \subseteq ProviderIds
    BY <1>2, <2>3
  <2>6. pools \in Maps(ProviderIds, MemberLists)
    BY <2>3, <2>5, InMaps
  <2> QED  BY <1>1, <2>2, <2>3, <2>4, <2>6, OtherPools
<1>4. CASE EditPool(id)
  <2>1. PICK members \in MemberLists :
          PoolHolds(config, id, members) /\ Saved([config EXCEPT !.pools[id] = members])
    BY <1>4 DEF EditPool
  <2> DEFINE pools == [config.pools EXCEPT ![id] = members]
  <2>2. config' = [config EXCEPT !.pools = pools] /\ ProvidersHold(config')
    BY <2>1, <1>1 DEF Saved, Config
  <2>3. DOMAIN pools = Pooled(config) /\ pools \in [DOMAIN pools -> MemberLists]
    BY <1>2
  <2>4. \A p \in DOMAIN pools : PoolHolds(config, p, pools[p])
    BY <1>2, <2>1
  <2> HIDE DEF pools
  <2>5. pools \in Maps(ProviderIds, MemberLists)
    BY <1>2, <2>3, InMaps
  <2> QED  BY <1>1, <2>2, <2>3, <2>4, <2>5, OtherPools
<1>5. CASE RemovePool(id)
  <2> DEFINE pools == [p \in Pooled(config) \ {id} |-> config.pools[p]]
  <2>2. config' = [config EXCEPT !.pools = pools] /\ ProvidersHold(config')
    BY <1>5 DEF RemovePool, Saved
  <2>3. DOMAIN pools = Pooled(config) \ {id} /\ pools \in [DOMAIN pools -> MemberLists]
    BY <1>2
  <2>4. \A p \in DOMAIN pools : PoolHolds(config, p, pools[p])
    BY <1>2
  <2> HIDE DEF pools
  <2>5. DOMAIN pools \subseteq ProviderIds
    BY <1>2, <2>3
  <2>6. pools \in Maps(ProviderIds, MemberLists)
    BY <2>3, <2>5, InMaps
  <2>7. \A t \in Tasks : config.tasks[t].pool # id
    BY <1>5 DEF RemovePool
  <2> QED  BY <1>1, <2>2, <2>3, <2>4, <2>6, <2>7, OtherPools
<1> QED  BY <1>3, <1>4, <1>5

LEMMA DefaultStep ==
  ASSUME FileInv, NEW id \in ProviderIds, SetDefaultProvider(id) \/ SettingsDefault(id)
  PROVE  ConfigInv'
<1>1. /\ ConfigInv /\ config' = [config EXCEPT !.default = id] /\ ProvidersHold(config')
      /\ UNCHANGED <<late, typed>>
  BY DEF FileInv, SetDefaultProvider, SettingsDefault, AtOnce, Saved
<1>2. config.providers[id].on \/ forced'
  BY DEF SetDefaultProvider, SettingsDefault
<1> QED  BY <1>1, <1>2, OtherDefault

LEMMA TaskLeavesStep ==
  ASSUME FileInv, NEW t \in Tasks, TaskLeaves(t)
  PROVE  ConfigInv'
<1>1. /\ ConfigInv /\ config' = [config EXCEPT !.tasks[t] = NoTarget]
      /\ ProvidersHold(config') /\ forced' = forced
      /\ late' = late \ {t} /\ typed' = typed \ {t}
  BY DEF FileInv, TaskLeaves, Saved, NoTarget
<1>2. NoTarget \in Target /\ Configured(config, NoTarget)
  BY DEF NoTarget, Target, Configured
<1> QED  BY <1>1, <1>2, OtherTarget

LEMMA EditorStep ==
  ASSUME FileInv, NEW t \in Tasks, ApplyEditedDoc(t)
  PROVE  ConfigInv'
<1>1. PICK target \in Target :
        /\ Saved([config EXCEPT !.tasks[t] = target])
        /\ typed' = IF Configured(config, target) THEN typed \ {t} ELSE typed \union {t}
  BY DEF ApplyEditedDoc
<1>2. /\ ConfigInv /\ config' = [config EXCEPT !.tasks[t] = target]
      /\ ProvidersHold(config') /\ forced' = forced /\ late' = late \ {t}
  BY <1>1 DEF FileInv, ApplyEditedDoc, Saved
<1>3. /\ (late \union typed) \ {t} \subseteq late' \union typed'
      /\ ~Configured(config, target) => t \in late' \union typed'
  BY <1>1, <1>2
<1> QED  BY <1>2, <1>3, OtherTarget

\* Every operation under way is one of these, told apart by where it is.
LEMMA OpsApart ==
  ASSUME ClientsInv, section = "providers", NEW c \in Clients
  PROVE  /\ ops[c].pc = "file" => ops[c] \in Filings
         /\ ops[c].pc = "forget" => ops[c] \in Forgetting
         /\ ops[c].pc = "put" => ops[c] \in Putting
<1>1. ops[c] \in ClientOps
  BY DEF ClientsInv
<1>2. /\ \A o \in Filings : o.pc = "file"
      /\ \A o \in Forgetting : o.pc = "forget"
      /\ \A o \in Copies : o.pc = "put"
  BY DEF Filings, Forgetting, Copies
<1>3. Idle.pc = "idle" /\ Putting \subseteq Copies
  BY DEF Idle, Putting
<1> QED  BY <1>1, <1>2, <1>3 DEF ClientOps

LEMMA FileTaskStep ==
  ASSUME FileInv, section = "providers", NEW c \in Clients, FileTask(c)
  PROVE  ConfigInv'
<1>1. ops[c] \in Filings
  BY OpsApart DEF FileInv, FileTask
<1> DEFINE t == ops[c].task
           target == ops[c].target
<1>2. t \in Tasks /\ target \in Target /\ ops[c].seen
  BY <1>1 DEF Filings
<1>3. /\ ConfigInv /\ config' = [config EXCEPT !.tasks[t] = target]
      /\ ProvidersHold(config') /\ forced' = forced /\ typed' = typed \ {t}
      /\ late' = IF ~Configured(config, target) THEN late \union {t} ELSE late \ {t}
  BY <1>2 DEF FileInv, FileTask, Saved
<1> HIDE DEF t, target
<1>4. /\ (late \union typed) \ {t} \subseteq late' \union typed'
      /\ ~Configured(config, target) => t \in late' \union typed'
  BY <1>3
<1> QED  BY <1>2, <1>3, <1>4, OtherTarget

\* A filing begins with a target that is there, or with the one the task has.
LEMMA FilingBegins ==
  ASSUME ClientsInv, section = "providers", UNCHANGED section,
         NEW c \in Clients, NEW t \in Tasks, NEW target \in Target,
         ops' = [ops EXCEPT ![c] = Filing(t, target)],
         Configured(config, target) \/ t \in late \union typed
  PROVE  ClientsInv'
<1>1. Filing(t, target) \in Filings
  BY DEF Filing, Filings
<1> HIDE DEF Filing
<1>2. ops' \in [Clients -> ClientOps]
  BY <1>1 DEF ClientsInv, ClientOps
<1> QED  BY <1>2 DEF ClientsInv

LEMMA CheckTargetStep ==
  ASSUME FileInv, section = "providers", UNCHANGED section,
         NEW c \in Clients, NEW t \in Tasks, CheckTarget(c, t)
  PROVE  ClientsInv'
<1>1. PICK target \in Target :
        EnsureTaskTarget(target) /\ ops' = [ops EXCEPT ![c] = Filing(t, target)]
  BY DEF CheckTarget
<1>2. Configured(config, target)
  <2>1. target.pool # None => target.provider = None
    BY ProvidersAssumption DEF Target
  <2> QED  BY <1>1, <2>1 DEF EnsureTaskTarget, RunnablePool, RunnableProvider, Configured
<1> QED  BY <1>1, <1>2, FilingBegins DEF FileInv

LEMMA KeepTargetStep ==
  ASSUME FileInv, section = "providers", UNCHANGED section,
         NEW c \in Clients, NEW t \in Tasks, KeepTarget(c, t)
  PROVE  ClientsInv'
<1>1. ops' = [ops EXCEPT ![c] = Filing(t, config.tasks[t])]
  BY DEF KeepTarget
<1>2. config.tasks[t] \in Target
  BY ConfigFields DEF FileInv, ConfigInv
<1>3. Configured(config, config.tasks[t]) \/ t \in late \union typed
  BY DEF FileInv, ConfigInv, Stands
<1> QED  BY <1>1, <1>2, <1>3, FilingBegins DEF FileInv

LEMMA FormLoadsStep ==
  ASSUME FileInv, section = "providers", UNCHANGED section,
         NEW c \in Clients, SettingsFormLoads(c)
  PROVE  ClientsInv'
<1>1. PICK o : o = [pc |-> "put", cfg |-> config, late |-> late, typed |-> typed, forced |-> forced]
  OBVIOUS
<1>2. ops' = [ops EXCEPT ![c] = o]
  BY <1>1 DEF SettingsFormLoads
<1>3. o \in Copies
  BY <1>1 DEF FileInv, ConfigInv, MarksType, Copies
<1>4. o.cfg = config /\ o.late = late /\ o.typed = typed /\ o.forced = forced
  BY <1>1
<1>5. o \in Putting
  BY <1>3, <1>4 DEF FileInv, ConfigInv, Putting
<1>6. ops' \in [Clients -> ClientOps]
  BY <1>2, <1>5 DEF FileInv, ClientsInv, ClientOps
<1> QED  BY <1>6 DEF ClientsInv

LEMMA FormSavesStep ==
  ASSUME FileInv, section = "providers", NEW c \in Clients, SettingsFormSaves(c)
  PROVE  ConfigInv' /\ MarksType'
<1>1. PICK o : o = ops[c]
  OBVIOUS
<1>2. o \in Putting
  BY <1>1, OpsApart DEF FileInv, SettingsFormSaves
<1>3. config' = o.cfg /\ late' = o.late /\ typed' = o.typed /\ forced' = o.forced
  BY <1>1 DEF SettingsFormSaves, Saved
<1>4. o \in Copies /\ Holds(o.cfg) /\ Stands(o.cfg, o.late \union o.typed, o.forced)
  BY <1>2 DEF Putting
<1>5. /\ o.cfg \in Config /\ o.late \in SUBSET Tasks /\ o.typed \in SUBSET Tasks
      /\ o.forced \in BOOLEAN
  BY <1>4 DEF Copies
<1> QED  BY <1>3, <1>4, <1>5 DEF ConfigInv, MarksType

LEMMA NextFile == FileInv /\ [Next]_configuration => FileInv'
<1> SUFFICES ASSUME FileInv, [Next]_configuration PROVE FileInv'
  OBVIOUS
<1>1. CASE UNCHANGED configuration
  BY <1>1, SameFile DEF configuration, queueVars, providersVars, marks
<1>2. CASE ChangeQueue
  BY <1>2 DEF ChangeQueue, marks, FileInv, ClientsInv, ConfigInv, MarksType
<1>3. CASE ChangeProviders
  <2>1. section = "providers" /\ section' = section /\ ProvidersNext
    BY <1>3 DEF ChangeProviders
  <2>2. ASSUME NEW id \in ProviderIds,
               \/ AddProviderRequest(id) \/ AddProviderCommand(id)
               \/ EditProviderRequest(id) \/ EditProviderCommand(id)
               \/ SetProviderEnabled(id) \/ SetDefaultProvider(id) \/ SettingsDefault(id)
               \/ AddPool(id) \/ EditPool(id) \/ RemovePool(id)
        PROVE  FileInv'
    <3>1. ops' = ops
      BY <2>2 DEF AddProviderRequest, AddProviderCommand, EditProviderRequest,
                  EditProviderCommand, SetProviderEnabled, SetDefaultProvider,
                  SettingsDefault, AddPool, EditPool, RemovePool, AtOnce
    <3>2. MarksType'
      BY <2>2 DEF FileInv, MarksType, AddProviderRequest, AddProviderCommand,
                  EditProviderRequest, EditProviderCommand, SetProviderEnabled,
                  SetDefaultProvider, SettingsDefault, AddPool, EditPool, RemovePool, AtOnce
    <3>3. ConfigInv'
      <4>1. CASE AddProviderRequest(id) \/ AddProviderCommand(id)
        <5>1. PICK inst \in Provider : AddProvider(id, inst)
          BY <4>1 DEF AddProviderRequest, AddProviderCommand, Provider
        <5>2. UNCHANGED <<late, typed>> /\ forced' = forced
          BY <4>1 DEF AddProviderRequest, AddProviderCommand, AtOnce
        <5> QED  BY <5>1, <5>2, AddProviderStep
      <4>2. CASE EditProviderRequest(id) \/ EditProviderCommand(id) \/ SetProviderEnabled(id)
        BY <4>2, EditStep
      <4>3. CASE SetDefaultProvider(id) \/ SettingsDefault(id)
        BY <4>3, DefaultStep
      <4>4. CASE AddPool(id) \/ EditPool(id) \/ RemovePool(id)
        BY <4>4, PoolsStep
      <4> QED  BY <2>2, <4>1, <4>2, <4>3, <4>4
    <3> QED  BY <2>1, <3>1, <3>2, <3>3, OpsStay DEF FileInv
  <2>3. ASSUME NEW id \in ProviderIds, NEW c \in Clients, RemoveProvider(c, id)
        PROVE  FileInv'
    <3>1. [pc |-> "forget", id |-> id] \in Forgetting
      BY DEF Forgetting
    <3>2. ClientsInv' /\ MarksType'
      BY <2>1, <2>3, <3>1 DEF RemoveProvider, FileInv, ClientsInv, ClientOps, MarksType, marks
    <3> QED  BY <2>3, <3>2, RemoveProviderStep DEF FileInv
  <2>4. ASSUME NEW c \in Clients, FileTask(c)
        PROVE  FileInv'
    <3>1. ClientsInv'
      BY <2>1, <2>4 DEF FileTask, FileInv, ClientsInv, ClientOps
    <3>2. ops[c] \in Filings
      BY <2>1, <2>4, OpsApart DEF FileInv, FileTask
    <3>3. MarksType'
      BY <2>4, <3>2 DEF FileTask, FileInv, MarksType, Filings
    <3> QED  BY <2>1, <2>4, <3>1, <3>3, FileTaskStep DEF FileInv
  <2>5. ASSUME NEW c \in Clients, ForgetProvider(c)
        PROVE  FileInv'
    BY <2>1, <2>5 DEF ForgetProvider, marks, FileInv, ClientsInv, ClientOps, ConfigInv, MarksType
  <2>6. ASSUME NEW c \in Clients, NEW t \in Tasks, CheckTarget(c, t) \/ KeepTarget(c, t)
        PROVE  FileInv'
    <3>1. ConfigInv' /\ MarksType'
      BY <2>6 DEF CheckTarget, KeepTarget, marks, FileInv, ConfigInv, MarksType
    <3> QED  BY <2>1, <2>6, <3>1, CheckTargetStep, KeepTargetStep DEF FileInv
  <2>7. ASSUME NEW t \in Tasks, TaskLeaves(t) \/ ApplyEditedDoc(t)
        PROVE  FileInv'
    <3>1. ops' = ops
      BY <2>7 DEF TaskLeaves, ApplyEditedDoc
    <3>2. MarksType'
      BY <2>7 DEF TaskLeaves, ApplyEditedDoc, FileInv, MarksType
    <3> QED  BY <2>1, <2>7, <3>1, <3>2, OpsStay, TaskLeavesStep, EditorStep DEF FileInv
  <2>8. ASSUME NEW c \in Clients, SettingsFormLoads(c)
        PROVE  FileInv'
    <3>1. ConfigInv' /\ MarksType'
      BY <2>8 DEF SettingsFormLoads, marks, FileInv, ConfigInv, MarksType
    <3> QED  BY <2>1, <2>8, <3>1, FormLoadsStep DEF FileInv
  <2>9. ASSUME NEW c \in Clients, SettingsFormSaves(c)
        PROVE  FileInv'
    <3>1. ClientsInv'
      BY <2>1, <2>9 DEF SettingsFormSaves, FileInv, ClientsInv, ClientOps
    <3> QED  BY <2>1, <2>9, <3>1, FormSavesStep DEF FileInv
  <2>10. ASSUME \/ \E id \in ProviderIds : HarnessChanges(id)
                \/ \E t \in Tasks, l \in Lookers : LookBegin(l, t)
                \/ \E l \in Lookers : Note(l) \/ Record(l) \/ Tell(l) \/ LookEnd(l)
                \/ \E id \in Asked : \E i \in 1..Len(sending[id]) : Deliver(id, i) \/ DeliveryFails(id, i)
                \/ Restart
         PROVE  FileInv'
    <3>1. UNCHANGED <<config, late, typed, forced, ops>>
      BY <2>10 DEF HarnessChanges, LookBegin, Note, Record, Tell, LookEnd, Deliver,
                   DeliveryFails, Restart, marks
    <3> QED  BY <2>1, <3>1, SameFile
  <2> QED  BY <2>1, <2>2, <2>3, <2>4, <2>5, <2>6, <2>7, <2>8, <2>9, <2>10 DEF ProvidersNext
<1> QED  BY <1>1, <1>2, <1>3 DEF Next

\* The file as a whole holds after every change, although each command looks
\* only at its own part and nothing looks at the whole (app's provider and pool
\* commands, SaveConfig's validation).
THEOREM FileHolds == Spec => []ConfigHolds
<1>1. FileInv => ConfigHolds
  BY DEF FileInv, ConfigInv, ConfigHolds
<1> QED  BY <1>1, InitFile, NextFile, PTL DEF Spec

\* A task names what is configured unless that went away while it was filed or
\* was typed in the editor, and the default provider is on unless the settings
\* command named it (InUse, DefaultStaysUsable, EnsureTaskTarget), whatever stale
\* copy of the file a settings form writes back.
THEOREM WorkHasAPlace == Spec => []TargetsStand
<1>1. FileInv => TargetsStand
  BY DEF FileInv, ConfigInv, TargetsStand, Stands
<1> QED  BY <1>1, InitFile, NextFile, PTL DEF Spec

-----------------------------------------------------------------------------
(* What the operator is told, while the scheduler alone looks.             *)

Words == {"never", "ready", "unready", "invalid"}
Finding == [id : Asked, state : {"ready", "unready", "invalid"}]
Noting == [pc : {"note"}, cfg : Config, st : [Asked -> Words], target : Target]
Judged == [pc : {"record", "tell", "end"}, cfg : Config, target : Target,
           found : Finding, previous : Words]

LookType ==
  /\ looks \in [{Tick} -> {Idle} \union Noting \union Judged]
  /\ memo \in [Asked -> Words] /\ noted \in [Asked -> Words] /\ said \in [Asked -> Words]

\* The id whose news the look has in its hands, and the one it has recorded.
InHand(look, id) == look.pc \in {"record", "tell"} /\ look.found.id = id
OnPaper(look, id) == look.pc = "tell" /\ look.found.id = id

\* An id the operator has heard of since it was last forgotten, with no word of
\* it swallowed: what is noted and remembered of it is what was said.
Heard(id) == said[id] # "never" /\ id \notin renewed \union unsaid
MemoryInv ==
  \A id \in Asked : Heard(id) =>
    LET look == looks[Tick] IN
    /\ OnPaper(look, id) \/ noted[id] = said[id]
    /\ InHand(look, id) \/ memo[id] \in {"never", said[id]}
    /\ look.pc = "note" => look.st[id] = said[id]

\* What a look judged is in the memory; what it recorded is noted, unless it
\* was forgotten since; and it was not what the operator heard last.
JudgedInv ==
  LET look == looks[Tick]
      f == look.found
  IN /\ look.pc \in {"record", "tell"} =>
          /\ memo[f.id] = f.state /\ look.previous # f.state
          /\ Heard(f.id) => look.previous = said[f.id]
     /\ look.pc = "tell" =>
          \/ noted[f.id] = f.state
          \/ noted[f.id] = "never" /\ f.id \in renewed

\* Wherever an id is held unready, the operator heard it, or a crash swallowed
\* the word.
SaidUnready(id) == said[id] = "unready" \/ id \in unsaid
SilenceInv ==
  \A id \in Asked :
    LET look == looks[Tick] IN
    /\ memo[id] = "unready" => InHand(look, id) \/ SaidUnready(id)
    /\ noted[id] = "unready" => OnPaper(look, id) \/ SaidUnready(id)
    /\ look.pc = "note" /\ look.st[id] = "unready" => SaidUnready(id)

NewsInv == LookType /\ MemoryInv /\ JudgedInv /\ SilenceInv /\ again = {}

LEMMA TickIsNotRunNow == Tick # RunNow
<1> SUFFICES ASSUME Tick = RunNow PROVE FALSE
  OBVIOUS
<1>1. IsFiniteSet({Manual}) /\ Cardinality({Manual}) = 1
  BY FS_Singleton
<1>2. /\ IsFiniteSet({Manual} \union {Tick})
      /\ Cardinality({Manual} \union {Tick}) \in {1, 2}
  BY <1>1, FS_AddElement
<1>3. {Tick, Manual, RunNow} = {Manual} \union {Tick}
  OBVIOUS
<1> QED  BY <1>2, <1>3, ProvidersAssumption

\* What a look finds is filed under an id there may be.
LEMMA FindingsAreFindings ==
  ASSUME NEW cfg \in Config, NEW target \in Target, NEW f \in Findings(cfg, target)
  PROVE  f \in Finding
<1> DEFINE asked == IF target.pool # None THEN target.pool ELSE target.provider
           takes == IF target.pool # None
                    THEN IF target.pool \in Pooled(cfg) THEN ToSet(cfg.pools[target.pool]) ELSE {}
                    ELSE {IF target.provider = None THEN cfg.default ELSE target.provider}
           able  == {id \in takes : RunnableProvider(cfg, id)}
<1>1. f \in IF able = {} THEN {[id |-> asked, state |-> "invalid"]}
            ELSE {Found(id) : id \in able}
  BY DEF Findings
<1>2. asked \in Asked
  BY DEF Target, Asked
<1>3. \A id \in takes : RunnableProvider(cfg, id) => id \in ProviderIds
  BY ConfigFields DEF RunnableProvider
<1>4. \A id \in able : id \in Asked
  BY <1>3 DEF Asked
<1> HIDE DEF asked, able
<1>5. CASE able = {}
  BY <1>1, <1>2, <1>5 DEF Finding
<1>6. CASE able # {}
  <2>1. PICK id \in able : f = Found(id)
    BY <1>1, <1>6
  <2> QED  BY <1>4, <2>1 DEF Finding, Found
<1> QED  BY <1>5, <1>6

LEMMA InitNews ==
  ASSUME Lookers = {Tick}, Init
  PROVE  NewsInv
<1>1. /\ noted = Unheard /\ said = Unheard /\ memo = Unheard /\ again = {}
      /\ looks = [l \in {Tick} |-> Idle]
  BY DEF Init, ProvidersInit
<1>2. Unheard \in [Asked -> Words] /\ \A id \in Asked : Unheard[id] = "never"
  BY DEF Unheard, Words
<1>3. looks[Tick].pc = "idle"
  BY <1>1 DEF Idle
<1>4. LookType
  BY <1>1, <1>2 DEF LookType
<1> QED  BY <1>1, <1>2, <1>3, <1>4
         DEF NewsInv, MemoryInv, JudgedInv, SilenceInv, Heard, Words

\* Nothing of what is heard, noted and remembered changes.
LEMMA SameNews ==
  ASSUME NewsInv, UNCHANGED <<memo, noted, looks, said, renewed, again, unsaid>>
  PROVE  NewsInv'
  BY DEF NewsInv, LookType, MemoryInv, JudgedInv, SilenceInv, Heard, SaidUnready

LEMMA LookBeginNews ==
  ASSUME Lookers = {Tick}, NewsInv, config \in Config, NEW t \in Tasks, LookBegin(Tick, t)
  PROVE  NewsInv'
<1> DEFINE new == [pc |-> "note", cfg |-> config, st |-> noted, target |-> config.tasks[t]]
<1>1. /\ looks[Tick] = Idle /\ looks' = [looks EXCEPT ![Tick] = new]
      /\ UNCHANGED <<memo, noted, said, renewed, again, unsaid>>
  BY DEF LookBegin
<1>2. config.tasks[t] \in Target
  BY ConfigFields
<1>3. new \in Noting
  BY <1>2 DEF NewsInv, LookType, Noting
<1>4. new.pc = "note" /\ new.st = noted /\ looks[Tick].pc = "idle"
  BY <1>1 DEF Idle
<1> HIDE DEF new
<1>5. LookType' /\ looks'[Tick] = new
  BY <1>1, <1>3 DEF NewsInv, LookType
<1>6. MemoryInv'
  BY <1>1, <1>4, <1>5 DEF NewsInv, MemoryInv, Heard, InHand, OnPaper
<1>7. JudgedInv'
  BY <1>4, <1>5 DEF JudgedInv
<1>8. SilenceInv'
  BY <1>1, <1>4, <1>5 DEF NewsInv, SilenceInv, SaidUnready, InHand, OnPaper
<1> QED  BY <1>1, <1>5, <1>6, <1>7, <1>8 DEF NewsInv

LEMMA NoteNews ==
  ASSUME Lookers = {Tick}, NewsInv, Note(Tick)
  PROVE  NewsInv'
<1> DEFINE look == looks[Tick]
<1>1. look \in Noting /\ look.pc = "note"
  BY DEF NewsInv, LookType, Note, Idle, Judged
<1>2. PICK f \in Findings(look.cfg, look.target) :
        /\ memo' = [memo EXCEPT ![f.id] = f.state]
        /\ looks' = [looks EXCEPT ![Tick] =
             [pc |-> IF Previous(Tick, f) = f.state THEN "end" ELSE "record",
              cfg |-> look.cfg, target |-> look.target,
              found |-> f, previous |-> Previous(Tick, f)]]
  BY TickIsNotRunNow DEF Note, NewsInv, LookType
<1>3. UNCHANGED <<noted, said, renewed, again, unsaid>>
  BY DEF Note
<1>4. f \in Finding
  BY <1>1, FindingsAreFindings DEF Noting
<1>5. f.id \in Asked /\ f.state \in {"ready", "unready", "invalid"}
  BY <1>4 DEF Finding
<1> DEFINE previous == Previous(Tick, f)
           new == [pc |-> IF previous = f.state THEN "end" ELSE "record",
                   cfg |-> look.cfg, target |-> look.target,
                   found |-> f, previous |-> previous]
<1>6. previous = IF memo[f.id] # "never" THEN memo[f.id] ELSE look.st[f.id]
  BY TickIsNotRunNow DEF Previous
<1>7. previous \in Words
  BY <1>1, <1>5, <1>6 DEF NewsInv, LookType, Noting
<1>8. looks' = [looks EXCEPT ![Tick] = new]
  BY <1>2
<1> HIDE DEF previous
<1>9. new \in Judged
  BY <1>1, <1>4, <1>7 DEF Judged, Noting
<1>10. /\ new.pc = IF previous = f.state THEN "end" ELSE "record"
       /\ new.found = f /\ new.previous = previous
  OBVIOUS
<1> HIDE DEF new, look
<1>11. LookType' /\ looks'[Tick] = new
  BY <1>2, <1>3, <1>5, <1>8, <1>9 DEF NewsInv, LookType, Words
<1>12. memo'[f.id] = f.state /\ \A id \in Asked : id # f.id => memo'[id] = memo[id]
  BY <1>2, <1>5 DEF NewsInv, LookType
\* An id already heard of was judged before as it was said.
<1>13. Heard(f.id) => previous = said[f.id]
  BY <1>1, <1>5, <1>6 DEF look, NewsInv, MemoryInv, InHand
<1>14. previous = "unready" => SaidUnready(f.id)
  BY <1>1, <1>5, <1>6 DEF look, NewsInv, SilenceInv, InHand
<1>15. MemoryInv'
  <2> SUFFICES ASSUME NEW id \in Asked, Heard(id)'
               PROVE  /\ OnPaper(new, id) \/ noted'[id] = said'[id]
                      /\ InHand(new, id) \/ memo'[id] \in {"never", said'[id]}
                      /\ new.pc = "note" => new.st[id] = said'[id]
    BY <1>11 DEF MemoryInv
  <2>1. Heard(id)
    BY <1>3 DEF Heard
  <2>2. noted[id] = said[id] /\ memo[id] \in {"never", said[id]}
    BY <1>1, <2>1 DEF look, NewsInv, MemoryInv, InHand, OnPaper
  <2>3. InHand(new, id) \/ memo'[id] \in {"never", said[id]}
    BY <1>10, <1>12, <1>13, <2>1, <2>2 DEF InHand
  <2> QED  BY <1>3, <1>10, <2>2, <2>3
<1>16. JudgedInv'
  BY <1>3, <1>10, <1>11, <1>12, <1>13 DEF JudgedInv, Heard
<1>17. SilenceInv'
  <2> SUFFICES ASSUME NEW id \in Asked
               PROVE  /\ memo'[id] = "unready" => InHand(new, id) \/ SaidUnready(id)'
                      /\ noted'[id] = "unready" => OnPaper(new, id) \/ SaidUnready(id)'
                      /\ new.pc = "note" /\ new.st[id] = "unready" => SaidUnready(id)'
    BY <1>11 DEF SilenceInv
  <2>1. SaidUnready(id)' <=> SaidUnready(id)
    BY <1>3 DEF SaidUnready
  <2>2. /\ memo[id] = "unready" => SaidUnready(id)
        /\ noted[id] = "unready" => SaidUnready(id)
    BY <1>1 DEF look, NewsInv, SilenceInv, InHand, OnPaper
  <2>3. memo'[id] = "unready" => InHand(new, id) \/ SaidUnready(id)
    BY <1>10, <1>12, <1>14, <2>2 DEF InHand
  <2> QED  BY <1>3, <1>10, <2>1, <2>2, <2>3
<1> QED  BY <1>3, <1>11, <1>15, <1>16, <1>17 DEF NewsInv

LEMMA RecordNews ==
  ASSUME Lookers = {Tick}, NewsInv, Record(Tick)
  PROVE  NewsInv'
<1> DEFINE look == looks[Tick]
           f == look.found
           new == [look EXCEPT !.pc = "tell"]
<1>1. look \in Judged /\ look.pc = "record"
  BY DEF NewsInv, LookType, Record, Idle, Noting
<1>2. /\ noted' = [noted EXCEPT ![f.id] = f.state]
      /\ looks' = [looks EXCEPT ![Tick] = new]
      /\ UNCHANGED <<memo, said, renewed, again, unsaid>>
  BY DEF Record
<1>3. f \in Finding
  BY <1>1 DEF Judged
<1>4. f.id \in Asked /\ f.state \in Words
  BY <1>3 DEF Finding, Words
<1>5. /\ new \in Judged /\ new.pc = "tell" /\ new.found = f
      /\ new.previous = look.previous
  BY <1>1 DEF Judged
<1> HIDE DEF new, f, look
<1>6. LookType' /\ looks'[Tick] = new
  BY <1>2, <1>4, <1>5 DEF NewsInv, LookType
<1>7. noted'[f.id] = f.state /\ \A id \in Asked : id # f.id => noted'[id] = noted[id]
  BY <1>2, <1>4 DEF NewsInv, LookType
<1>8. MemoryInv'
  <2> SUFFICES ASSUME NEW id \in Asked, Heard(id)'
               PROVE  /\ OnPaper(new, id) \/ noted'[id] = said'[id]
                      /\ InHand(new, id) \/ memo'[id] \in {"never", said'[id]}
                      /\ new.pc = "note" => new.st[id] = said'[id]
    BY <1>6 DEF MemoryInv
  <2>1. Heard(id)
    BY <1>2 DEF Heard
  <2>2. /\ noted[id] = said[id]
        /\ id = f.id \/ memo[id] \in {"never", said[id]}
    BY <1>1, <2>1 DEF look, f, NewsInv, MemoryInv, InHand, OnPaper
  <2> QED  BY <1>2, <1>5, <1>7, <2>2 DEF InHand, OnPaper
<1>9. JudgedInv'
  <2>1. /\ memo[f.id] = f.state /\ look.previous # f.state
        /\ Heard(f.id) => look.previous = said[f.id]
    BY <1>1 DEF look, f, NewsInv, JudgedInv
  <2> QED  BY <1>2, <1>5, <1>6, <1>7, <2>1 DEF JudgedInv, Heard
<1>10. SilenceInv'
  <2> SUFFICES ASSUME NEW id \in Asked
               PROVE  /\ memo'[id] = "unready" => InHand(new, id) \/ SaidUnready(id)'
                      /\ noted'[id] = "unready" => OnPaper(new, id) \/ SaidUnready(id)'
                      /\ new.pc = "note" /\ new.st[id] = "unready" => SaidUnready(id)'
    BY <1>6 DEF SilenceInv
  <2>1. SaidUnready(id)' <=> SaidUnready(id)
    BY <1>2 DEF SaidUnready
  <2>2. /\ memo[id] = "unready" => id = f.id \/ SaidUnready(id)
        /\ noted[id] = "unready" => SaidUnready(id)
    BY <1>1 DEF look, f, NewsInv, SilenceInv, InHand, OnPaper
  <2> QED  BY <1>2, <1>5, <1>7, <2>1, <2>2 DEF InHand, OnPaper
<1> QED  BY <1>2, <1>6, <1>8, <1>9, <1>10 DEF NewsInv

LEMMA TellNews ==
  ASSUME Lookers = {Tick}, NewsInv, Tell(Tick)
  PROVE  NewsInv'
<1>0. PICK look, f : look = looks[Tick] /\ f = look.found
  OBVIOUS
<1> DEFINE new == [look EXCEPT !.pc = "end"]
<1>t. look.pc = "tell"
  BY <1>0 DEF Tell
<1>1. look \in Judged /\ look.pc = "tell"
  BY <1>0, <1>t DEF NewsInv, LookType, Idle, Noting
<1>2. /\ looks' = [looks EXCEPT ![Tick] = new] /\ UNCHANGED <<memo, noted>>
      /\ IF f.state = "ready" /\ look.previous = "never"
         THEN UNCHANGED <<said, renewed, again, unsaid>>
         ELSE /\ said' = [said EXCEPT ![f.id] = f.state]
              /\ renewed' = IF noted[f.id] = "never" THEN renewed ELSE renewed \ {f.id}
              /\ unsaid' = unsaid \ {f.id}
              /\ again' = IF said[f.id] = f.state /\ f.id \notin renewed \union unsaid
                          THEN again \union {f.id} ELSE again
  BY <1>0, TickIsNotRunNow DEF Tell, NoNews
<1>3. f \in Finding
  BY <1>0, <1>1 DEF Judged
<1>4. f.id \in Asked /\ f.state \in Words /\ f.state # "never"
  BY <1>3 DEF Finding, Words
<1>5. new \in Judged /\ new.pc = "end" /\ new.found = f
  BY <1>0, <1>1 DEF Judged
<1>6. /\ memo[f.id] = f.state /\ look.previous # f.state
      /\ Heard(f.id) => look.previous = said[f.id]
      /\ \/ noted[f.id] = f.state
         \/ noted[f.id] = "never" /\ f.id \in renewed
  BY <1>0, <1>1 DEF NewsInv, JudgedInv
<1>7. \A id \in Asked : id # f.id =>
        /\ Heard(id) => noted[id] = said[id] /\ memo[id] \in {"never", said[id]}
        /\ memo[id] = "unready" => SaidUnready(id)
        /\ noted[id] = "unready" => SaidUnready(id)
  BY <1>0, <1>1 DEF NewsInv, MemoryInv, SilenceInv, InHand, OnPaper
<1> HIDE DEF new
<1>8. LookType' /\ looks'[Tick] = new
  BY <1>2, <1>4, <1>5 DEF NewsInv, LookType
<1>9. ASSUME NEW id \in Asked, id # f.id
      PROVE  (Heard(id)' <=> Heard(id)) /\ (SaidUnready(id)' <=> SaidUnready(id)) /\ said'[id] = said[id]
  BY <1>2, <1>4, <1>9 DEF Heard, SaidUnready, NewsInv, LookType
<1>10. /\ again' = again
       /\ Heard(f.id)' => noted[f.id] = said'[f.id] /\ memo[f.id] = said'[f.id]
       /\ f.state = "unready" => SaidUnready(f.id)'
  <2>1. CASE f.state = "ready" /\ look.previous = "never"
    BY <1>2, <1>6, <2>1 DEF Heard
  <2>2. CASE ~(f.state = "ready" /\ look.previous = "never")
    <3>1. said'[f.id] = f.state
      BY <1>2, <1>4, <2>2 DEF NewsInv, LookType
    <3>2. again' = again
      BY <1>2, <1>4, <1>6, <2>2 DEF Heard
    <3>3. Heard(f.id)' => noted[f.id] = f.state
      BY <1>2, <1>6, <2>2 DEF Heard
    <3> QED  BY <1>6, <3>1, <3>2, <3>3 DEF SaidUnready
  <2> QED  BY <2>1, <2>2
<1>11. MemoryInv'
  <2> SUFFICES ASSUME NEW id \in Asked, Heard(id)'
               PROVE  /\ OnPaper(new, id) \/ noted'[id] = said'[id]
                      /\ InHand(new, id) \/ memo'[id] \in {"never", said'[id]}
                      /\ new.pc = "note" => new.st[id] = said'[id]
    BY <1>8 DEF MemoryInv
  <2>1. CASE id = f.id
    BY <1>2, <1>5, <1>10, <2>1
  <2>2. CASE id # f.id
    BY <1>2, <1>5, <1>7, <1>9, <2>2
  <2> QED  BY <2>1, <2>2
<1>12. JudgedInv'
  BY <1>5, <1>8 DEF JudgedInv
<1>13. SilenceInv'
  <2> SUFFICES ASSUME NEW id \in Asked
               PROVE  /\ memo'[id] = "unready" => InHand(new, id) \/ SaidUnready(id)'
                      /\ noted'[id] = "unready" => OnPaper(new, id) \/ SaidUnready(id)'
                      /\ new.pc = "note" /\ new.st[id] = "unready" => SaidUnready(id)'
    BY <1>8 DEF SilenceInv
  <2>1. CASE id = f.id
    BY <1>2, <1>5, <1>6, <1>10, <2>1
  <2>2. CASE id # f.id
    BY <1>2, <1>5, <1>7, <1>9, <2>2
  <2> QED  BY <2>1, <2>2
<1> QED  BY <1>8, <1>10, <1>11, <1>12, <1>13 DEF NewsInv

LEMMA LookEndNews ==
  ASSUME Lookers = {Tick}, NewsInv, LookEnd(Tick)
  PROVE  NewsInv'
<1>1. /\ looks[Tick].pc = "end" /\ looks' = [looks EXCEPT ![Tick] = Idle]
      /\ UNCHANGED <<noted, said, renewed, again, unsaid>>
  BY DEF LookEnd
<1>2. PICK there : memo' = [id \in Asked |-> IF id \in there THEN memo[id] ELSE "never"]
  BY DEF LookEnd
<1>3. /\ memo' \in [Asked -> Words]
      /\ \A id \in Asked : memo'[id] \in {"never", memo[id]}
  BY <1>2 DEF NewsInv, LookType, Words
<1>4. LookType' /\ looks'[Tick].pc = "idle"
  BY <1>1, <1>3 DEF NewsInv, LookType, Idle
<1>5. MemoryInv'
  BY <1>1, <1>3, <1>4 DEF NewsInv, MemoryInv, Heard, InHand, OnPaper
<1>6. JudgedInv'
  BY <1>4 DEF JudgedInv
<1>7. SilenceInv'
  BY <1>1, <1>3, <1>4 DEF NewsInv, SilenceInv, SaidUnready, InHand, OnPaper
<1> QED  BY <1>1, <1>4, <1>5, <1>6, <1>7 DEF NewsInv

LEMMA RestartNews ==
  ASSUME Lookers = {Tick}, NewsInv, Restart
  PROVE  NewsInv'
<1>0. PICK look : look = looks[Tick]
  OBVIOUS
<1>1. /\ memo' = Unheard /\ UNCHANGED <<noted, said, renewed, again>>
      /\ looks' = [l \in {Tick} |-> Idle]
  BY TickIsNotRunNow DEF Restart
<1>2. /\ unsaid \subseteq unsaid'
      /\ look.pc = "tell" => look.found.id \in unsaid'
  BY <1>0, TickIsNotRunNow DEF Restart
<1>3. memo' \in [Asked -> Words] /\ \A id \in Asked : memo'[id] = "never"
  BY <1>1 DEF Unheard, Words
<1>4. LookType' /\ looks'[Tick].pc = "idle"
  BY <1>1, <1>3 DEF NewsInv, LookType, Idle
<1>5. MemoryInv'
  <2> SUFFICES ASSUME NEW id \in Asked, Heard(id)' PROVE noted'[id] = said'[id]
    BY <1>3, <1>4 DEF MemoryInv
  <2>1. Heard(id) /\ ~OnPaper(look, id)
    BY <1>1, <1>2 DEF Heard, OnPaper
  <2> QED  BY <1>0, <1>1, <2>1 DEF NewsInv, MemoryInv
<1>6. JudgedInv'
  BY <1>4 DEF JudgedInv
<1>7. SilenceInv'
  <2> SUFFICES ASSUME NEW id \in Asked, noted'[id] = "unready" PROVE SaidUnready(id)'
    BY <1>3, <1>4 DEF SilenceInv
  <2>1. OnPaper(look, id) \/ SaidUnready(id)
    BY <1>0, <1>1 DEF NewsInv, SilenceInv
  <2> QED  BY <1>1, <1>2, <2>1 DEF SaidUnready, OnPaper
<1> QED  BY <1>1, <1>4, <1>5, <1>6, <1>7 DEF NewsInv

LEMMA ForgetNews ==
  ASSUME NewsInv, FileInv, section = "providers", NEW c \in Clients, ForgetProvider(c)
  PROVE  NewsInv'
<1>1. PICK gone : gone = ops[c].id
  OBVIOUS
<1>2. gone \in Asked
  <2>1. ops[c] \in Forgetting
    BY OpsApart DEF FileInv, ForgetProvider
  <2> QED  BY <1>1, <2>1 DEF Forgetting, Asked
<1>3. /\ noted' = [noted EXCEPT ![gone] = "never"] /\ renewed' = renewed \union {gone}
      /\ UNCHANGED <<memo, looks, said, again, unsaid>>
  BY <1>1 DEF ForgetProvider
<1>4. LookType'
  BY <1>3 DEF NewsInv, LookType, Words
<1>5. noted'[gone] = "never" /\ \A id \in Asked : id # gone => noted'[id] = noted[id]
  BY <1>2, <1>3 DEF NewsInv, LookType
<1>6. \A id \in Asked : Heard(id)' => Heard(id) /\ id # gone
  BY <1>3 DEF Heard
<1>7. MemoryInv'
  BY <1>3, <1>5, <1>6 DEF NewsInv, MemoryInv
<1>8. JudgedInv'
  <2>1. PICK look, f : look = looks[Tick] /\ f = look.found
    OBVIOUS
  <2>2. look.pc \in {"record", "tell"} => f.id \in Asked
    BY <2>1 DEF NewsInv, LookType, Idle, Noting, Judged, Finding
  <2>3. /\ look.pc \in {"record", "tell"} =>
             /\ memo[f.id] = f.state /\ look.previous # f.state
             /\ Heard(f.id) => look.previous = said[f.id]
        /\ look.pc = "tell" =>
             \/ noted[f.id] = f.state
             \/ noted[f.id] = "never" /\ f.id \in renewed
    BY <2>1 DEF NewsInv, JudgedInv
  <2>4. looks'[Tick] = look
    BY <1>3, <2>1
  <2> QED  BY <1>3, <1>5, <1>6, <2>1, <2>2, <2>3, <2>4 DEF JudgedInv
<1>9. SilenceInv'
  BY <1>3, <1>5 DEF NewsInv, SilenceInv, SaidUnready
<1> QED  BY <1>3, <1>4, <1>7, <1>8, <1>9 DEF NewsInv

LEMMA NextNews ==
  ASSUME Lookers = {Tick}, FileInv, NewsInv, [Next]_configuration
  PROVE  NewsInv'
<1>1. CASE UNCHANGED configuration
  BY <1>1, SameNews DEF configuration, providersVars, alerts
<1>2. CASE ChangeQueue
  BY <1>2, SameNews DEF ChangeQueue, alerts
<1>3. CASE ChangeProviders
  <2>1. section = "providers" /\ ProvidersNext
    BY <1>3 DEF ChangeProviders
  <2>2. ASSUME \/ \E id \in ProviderIds :
                    \/ AddProviderRequest(id) \/ AddProviderCommand(id)
                    \/ EditProviderRequest(id) \/ EditProviderCommand(id)
                    \/ SetProviderEnabled(id) \/ SetDefaultProvider(id) \/ SettingsDefault(id)
                    \/ AddPool(id) \/ EditPool(id) \/ RemovePool(id)
                    \/ HarnessChanges(id) \/ \E c \in Clients : RemoveProvider(c, id)
               \/ \E c \in Clients :
                    \/ FileTask(c) \/ SettingsFormLoads(c) \/ SettingsFormSaves(c)
                    \/ \E t \in Tasks : CheckTarget(c, t) \/ KeepTarget(c, t)
               \/ \E t \in Tasks : TaskLeaves(t) \/ ApplyEditedDoc(t)
               \/ \E id \in Asked : \E i \in 1..Len(sending[id]) :
                    Deliver(id, i) \/ DeliveryFails(id, i)
        PROVE  NewsInv'
    <3>1. UNCHANGED <<memo, noted, looks, said, renewed, again, unsaid>>
      BY <2>2 DEF AddProviderRequest, AddProviderCommand, EditProviderRequest,
                  EditProviderCommand, SetProviderEnabled, SetDefaultProvider,
                  SettingsDefault, AddPool, EditPool, RemovePool, HarnessChanges,
                  RemoveProvider, FileTask, CheckTarget, KeepTarget, SettingsFormLoads,
                  SettingsFormSaves, TaskLeaves, ApplyEditedDoc, Deliver, DeliveryFails,
                  AtOnce, alerts
    <3> QED  BY <3>1, SameNews, SMTT(60)
  <2>3. ASSUME NEW c \in Clients, ForgetProvider(c)
        PROVE  NewsInv'
    BY <2>1, <2>3, ForgetNews
  <2>4. ASSUME NEW t \in Tasks, NEW l \in Lookers, LookBegin(l, t)
        PROVE  NewsInv'
    BY <2>4, LookBeginNews DEF FileInv, ConfigInv
  <2>5. ASSUME NEW l \in Lookers, Note(l) \/ Record(l) \/ Tell(l) \/ LookEnd(l)
        PROVE  NewsInv'
    BY <2>5, NoteNews, RecordNews, TellNews, LookEndNews
  <2>6. ASSUME Restart
        PROVE  NewsInv'
    BY <2>6, RestartNews
  <2> QED  BY <2>1, <2>2, <2>3, <2>4, <2>5, <2>6 DEF ProvidersNext
<1> QED  BY <1>1, <1>2, <1>3 DEF Next

\* Of every id, the newest word that is still on its way is the last in line and
\* is what was said; and once it was heard, and not overtaken, it is what the
\* operator knows.
Fates == {"none", "under way", "heard", "overtaken", "lost"}
SentInv ==
  /\ sending \in [Asked -> Seq(Words)] /\ told \in [Asked -> Words]
  /\ fate \in [Asked -> Fates]
  /\ \A id \in Asked :
       /\ fate[id] = "none" => said[id] = "never"
       /\ fate[id] = "under way" => sending[id] # <<>> /\ sending[id][Len(sending[id])] = said[id]
       /\ fate[id] = "heard" => told[id] = said[id]

LEMMA InitSent ==
  ASSUME Init
  PROVE  SentInv
<1>1. /\ sending = [id \in Asked |-> <<>>] /\ told = Unheard /\ said = Unheard
      /\ fate = [id \in Asked |-> "none"]
  BY DEF Init, ProvidersInit
<1>2. <<>> \in Seq(Words)
  OBVIOUS
<1> QED  BY <1>1, <1>2 DEF SentInv, Unheard, Words, Fates

LEMMA SameSent ==
  ASSUME SentInv, UNCHANGED <<said, sending, told, fate>>
  PROVE  SentInv'
  BY DEF SentInv

LEMMA TellSent ==
  ASSUME Lookers = {Tick}, NewsInv, SentInv, Tell(Tick)
  PROVE  SentInv'
<1>1. CASE NoNews(Tick)
  BY <1>1, SameSent DEF Tell
<1>2. CASE ~NoNews(Tick)
  <2>1. PICK f : f = looks[Tick].found
    OBVIOUS
  <2>t. looks[Tick].pc = "tell"
    BY DEF Tell
  <2>2. f \in Finding
    BY <2>1, <2>t DEF NewsInv, LookType, Idle, Noting, Judged
  <2>3. f.id \in Asked /\ f.state \in Words
    BY <2>2 DEF Finding, Words
  <2>4. PICK line : line = Append(sending[f.id], f.state)
    OBVIOUS
  <2>5. /\ said' = [said EXCEPT ![f.id] = f.state] /\ sending' = [sending EXCEPT ![f.id] = line]
        /\ fate' = [fate EXCEPT ![f.id] = "under way"] /\ told' = told
    BY <1>2, <2>1, <2>4 DEF Tell
  <2>6. line \in Seq(Words) /\ line # <<>> /\ line[Len(line)] = f.state
    <3>1. sending[f.id] \in Seq(Words)
      BY <2>3 DEF SentInv
    <3>2. PICK before : before = sending[f.id]
      OBVIOUS
    <3>3. before \in Seq(Words) /\ line = Append(before, f.state)
      BY <2>4, <3>1, <3>2
    <3> QED  BY <2>3, <3>3
  <2> QED  BY <2>3, <2>5, <2>6 DEF SentInv, NewsInv, LookType, Fates
<1> QED  BY <1>1, <1>2

LEMMA LinesJoined ==
  ASSUME NEW s \in Seq(Words), NEW r \in Seq(Words)
  PROVE  /\ s \o r \in Seq(Words) /\ Len(s \o r) = Len(s) + Len(r)
         /\ r # <<>> => (s \o r)[Len(s) + Len(r)] = r[Len(r)]
  OBVIOUS

\* One word less: the last stays the last.
LEMMA WordGone ==
  ASSUME NEW line \in Seq(Words), NEW i \in 1..Len(line)
  PROVE  /\ RemoveAt(line, i) \in Seq(Words)
         /\ i # Len(line) => /\ RemoveAt(line, i) # <<>>
                             /\ RemoveAt(line, i)[Len(RemoveAt(line, i))] = line[Len(line)]
<1>1. /\ SubSeq(line, 1, i - 1) \in Seq(Words) /\ SubSeq(line, i + 1, Len(line)) \in Seq(Words)
      /\ Len(SubSeq(line, 1, i - 1)) = i - 1 /\ Len(SubSeq(line, i + 1, Len(line))) = Len(line) - i
  OBVIOUS
<1>2. RemoveAt(line, i) = SubSeq(line, 1, i - 1) \o SubSeq(line, i + 1, Len(line))
  BY DEF RemoveAt
<1>3. i # Len(line) => SubSeq(line, i + 1, Len(line))[Len(line) - i] = line[Len(line)]
  OBVIOUS
<1>4. PICK s, r : s = SubSeq(line, 1, i - 1) /\ r = SubSeq(line, i + 1, Len(line))
  OBVIOUS
<1>5. /\ s \in Seq(Words) /\ r \in Seq(Words) /\ Len(s) = i - 1 /\ Len(r) = Len(line) - i
      /\ RemoveAt(line, i) = s \o r
      /\ i # Len(line) => r[Len(r)] = line[Len(line)]
  <2>1. s \in Seq(Words) /\ r \in Seq(Words) /\ RemoveAt(line, i) = s \o r
    BY <1>1, <1>2, <1>4, Zenon
  <2>2. Len(s) = i - 1 /\ Len(r) = Len(line) - i
    BY <1>1, <1>4, Zenon
  <2>3. i # Len(line) => r[Len(line) - i] = line[Len(line)]
    BY <1>3, <1>4, Zenon
  <2> QED  BY <2>1, <2>2, <2>3, Zenon
<1>6. s \o r \in Seq(Words) /\ Len(s \o r) = Len(line) - 1
  <2>1. s \o r \in Seq(Words) /\ Len(s \o r) = Len(s) + Len(r)
    BY <1>5, LinesJoined
  <2>2. Len(line) \in Nat /\ i \in Nat
    OBVIOUS
  <2> QED  BY <1>5, <2>1, <2>2
<1>7. ASSUME i # Len(line)
      PROVE  s \o r # <<>> /\ (s \o r)[Len(s \o r)] = line[Len(line)]
  <2>1. r # <<>> /\ r[Len(r)] = line[Len(line)]
    BY <1>5, <1>7
  <2>2. (s \o r)[Len(s) + Len(r)] = r[Len(r)] /\ Len(s \o r) = Len(s) + Len(r)
    BY <1>5, <2>1, LinesJoined
  <2>3. Len(s \o r) > 0
    BY <1>5, <1>7, <2>2
  <2> QED  BY <2>1, <2>2, <2>3
<1> QED  BY <1>5, <1>6, <1>7

LEMMA DeliverySent ==
  ASSUME SentInv, NEW id \in Asked, NEW i \in 1..Len(sending[id]),
         Deliver(id, i) \/ DeliveryFails(id, i)
  PROVE  SentInv'
<1>1. PICK line, rest : line = sending[id] /\ rest = RemoveAt(line, i)
  OBVIOUS
<1>2. line \in Seq(Words) /\ i \in 1..Len(line)
  BY <1>1 DEF SentInv
<1>3. /\ rest \in Seq(Words)
      /\ i # Len(line) => rest # <<>> /\ rest[Len(rest)] = line[Len(line)]
  BY <1>1, <1>2, WordGone
<1>4. sending' = [sending EXCEPT ![id] = rest] /\ said' = said
  BY <1>1 DEF Deliver, DeliveryFails, Gone
<1>5. line[i] \in Words
  BY <1>2
<1>6. CASE Deliver(id, i)
  <2>1. /\ told' = [told EXCEPT ![id] = line[i]]
        /\ fate' = [fate EXCEPT ![id] = IF fate[id] = "under way" /\ i = Len(line) THEN "heard"
                                        ELSE IF fate[id] = "heard" THEN "overtaken" ELSE fate[id]]
    BY <1>1, <1>6 DEF Deliver, Newest, SentInv
  <2> QED  BY <1>1, <1>3, <1>4, <1>5, <2>1 DEF SentInv, Fates
<1>7. CASE DeliveryFails(id, i)
  <2>1. /\ told' = told
        /\ fate' = [fate EXCEPT ![id] = IF fate[id] = "under way" /\ i = Len(line) THEN "lost"
                                        ELSE fate[id]]
    BY <1>1, <1>7 DEF DeliveryFails, Newest, SentInv
  <2> QED  BY <1>1, <1>3, <1>4, <2>1 DEF SentInv, Fates
<1> QED  BY <1>6, <1>7

LEMMA NextSent ==
  ASSUME Lookers = {Tick}, NewsInv, SentInv, [Next]_configuration
  PROVE  SentInv'
<1>1. CASE UNCHANGED configuration
  BY <1>1, SameSent DEF configuration, providersVars, alerts, delivery
<1>2. CASE ChangeQueue
  BY <1>2, SameSent DEF ChangeQueue, alerts, delivery
<1>3. CASE ChangeProviders
  <2>1. ProvidersNext
    BY <1>3 DEF ChangeProviders
  <2>2. CASE \E id \in Asked : \E i \in 1..Len(sending[id]) : Deliver(id, i) \/ DeliveryFails(id, i)
    BY <2>2, DeliverySent
  <2>3. CASE Restart
    <3>1. /\ sending' = [id \in Asked |-> <<>>] /\ said' = said /\ told' = told
          /\ fate' = [id \in Asked |-> IF fate[id] = "under way" THEN "lost" ELSE fate[id]]
      BY <2>3 DEF Restart
    <3>2. <<>> \in Seq(Words)
      OBVIOUS
    <3> QED  BY <3>1, <3>2 DEF SentInv, Fates
  <2>4. CASE \E l \in Lookers : Tell(l)
    BY <2>4, TellSent
  <2>5. ASSUME \/ \E id \in ProviderIds :
                    \/ AddProviderRequest(id) \/ AddProviderCommand(id)
                    \/ EditProviderRequest(id) \/ EditProviderCommand(id)
                    \/ SetProviderEnabled(id) \/ SetDefaultProvider(id) \/ SettingsDefault(id)
                    \/ AddPool(id) \/ EditPool(id) \/ RemovePool(id)
                    \/ HarnessChanges(id) \/ \E c \in Clients : RemoveProvider(c, id)
               \/ \E c \in Clients :
                    \/ FileTask(c) \/ ForgetProvider(c)
                    \/ SettingsFormLoads(c) \/ SettingsFormSaves(c)
                    \/ \E t \in Tasks : CheckTarget(c, t) \/ KeepTarget(c, t)
               \/ \E t \in Tasks : TaskLeaves(t) \/ ApplyEditedDoc(t)
               \/ \E l \in Lookers :
                    \/ Note(l) \/ Record(l) \/ LookEnd(l) \/ \E t \in Tasks : LookBegin(l, t)
        PROVE  SentInv'
    <3>1. UNCHANGED <<said, sending, told, fate>>
      BY <2>5 DEF AddProviderRequest, AddProviderCommand, EditProviderRequest,
                  EditProviderCommand, SetProviderEnabled, SetDefaultProvider,
                  SettingsDefault, AddPool, EditPool, RemovePool, HarnessChanges,
                  RemoveProvider, FileTask, ForgetProvider, CheckTarget, KeepTarget,
                  SettingsFormLoads, SettingsFormSaves, TaskLeaves, ApplyEditedDoc,
                  LookBegin, Note, Record, LookEnd, AtOnce, alerts, delivery
    <3> QED  BY <3>1, SameSent
  <2> QED  BY <2>1, <2>2, <2>3, <2>4, <2>5 DEF ProvidersNext
<1> QED  BY <1>1, <1>2, <1>3 DEF Next

\* While the scheduler alone looks, a condition the operator was told of is not
\* announced again, over crashes at any point and forgotten providers, and what
\* the daemon takes for known was said last, and heard if its delivery neither
\* failed nor came before that of an older word (noteProviderHealth and the send
\* it starts, providerHealth and State.NotifiedProviderHealth).
THEOREM WordIsKept ==
  ASSUME Lookers = {Tick}
  PROVE  Spec => []MemoIsTrue
<1>1. Init => NewsInv /\ SentInv
  BY InitNews, InitSent
<1>2. FileInv /\ NewsInv /\ SentInv /\ [Next]_configuration => NewsInv' /\ SentInv'
  BY NextNews, NextSent
<1>3. NewsInv /\ SentInv => MemoIsTrue
  <2> SUFFICES ASSUME NewsInv, SentInv PROVE MemoIsTrue
    OBVIOUS
  <2>1. \A id \in ProviderIds : InHand(looks[Tick], id) => Telling(id)
    BY DEF InHand, Telling
  <2>2. ASSUME NEW id \in ProviderIds, said[id] = "unready"
        PROVE  fate[id] \in {"under way", "lost", "overtaken"} \/ told[id] = "unready"
    BY <2>2 DEF SentInv, Fates, Asked
  <2>3. SilenceIsKnown
    BY <2>1, <2>2 DEF NewsInv, SilenceInv, SilenceIsKnown, SaidUnready, Asked
  <2> QED  BY <2>3 DEF NewsInv, MemoIsTrue, NotToldTwice
<1> QED  BY <1>1, <1>2, <1>3, InitFile, NextFile, PTL DEF Spec

-----------------------------------------------------------------------------
(* The queue.                                                              *)

LEMMA LeastNumber ==
  ASSUME NEW S \in SUBSET Nat, S # {}
  PROVE  \E n \in S : \A m \in S : n <= m
<1> DEFINE R == OpToRel(<, Nat)
<1>1. IsWellFoundedOn(R, Nat)
  BY NatLessThanWellFounded
<1>2. PICK n \in S : \A m \in S : ~(<<m, n>> \in R)
  <2> HIDE DEF R
  <2> QED  BY <1>1, WFMin
<1>3. \A m \in S : ~(m < n)
  BY <1>2 DEF OpToRel
<1> QED  BY <1>3

\* Sorting by rank gives every position to one task.
Apart(n, rank) ==
  /\ \A i \in 1..n : Place(rank, i) \in 1..n
  /\ \A i, j \in 1..n : i # j /\ NotAfter(rank, i, j) => Place(rank, i) < Place(rank, j)
  /\ \A i, j \in 1..n : NotAfter(rank, i, j) \/ NotAfter(rank, j, i)
  /\ \A i, j \in 1..n : Place(rank, i) = Place(rank, j) => i = j

LEMMA PlacesDiffer ==
  ASSUME NEW n \in Nat, NEW rank \in [1..n -> Int]
  PROVE  Apart(n, rank)
<1> DEFINE Upto(i) == {j \in 1..n : NotAfter(rank, j, i)}
<1>1. IsFiniteSet(1..n) /\ Cardinality(1..n) = n
  BY FS_Interval
<1>2. \A i \in 1..n : /\ Place(rank, i) = Cardinality(Upto(i)) /\ IsFiniteSet(Upto(i))
                      /\ Cardinality(Upto(i)) <= n /\ Cardinality(Upto(i)) \in Nat
  <2> TAKE i \in 1..n
  <2>1. DOMAIN rank = 1..n
    OBVIOUS
  <2>2. Upto(i) \in SUBSET (1..n)
    OBVIOUS
  <2>3. Place(rank, i) = Cardinality(Upto(i))
    BY <2>1 DEF Place
  <2> HIDE DEF Upto
  <2> QED  BY <1>1, <2>2, <2>3, FS_Subset, FS_CardinalityType
<1>3. ASSUME NEW i \in 1..n PROVE Place(rank, i) \in 1..n
  <2>1. i \in Upto(i)
    BY DEF NotAfter
  <2> HIDE DEF Upto
  <2>2. Cardinality(Upto(i)) # 0
    BY <1>2, <2>1, FS_EmptySet
  <2> QED  BY <1>2, <2>2
<1>4. ASSUME NEW i \in 1..n, NEW j \in 1..n, i # j, NotAfter(rank, i, j)
      PROVE  Place(rank, i) < Place(rank, j)
  <2>1. j \in Upto(j) /\ j \notin Upto(i)
    BY <1>4 DEF NotAfter
  <2>2. \A k \in Upto(i) : k \in Upto(j)
    BY <1>4 DEF NotAfter
  <2> HIDE DEF Upto
  <2>3. Upto(i) \in SUBSET Upto(j) /\ Upto(i) # Upto(j)
    BY <2>1, <2>2
  <2>4. Cardinality(Upto(i)) <= Cardinality(Upto(j)) /\ Cardinality(Upto(i)) # Cardinality(Upto(j))
    BY <1>2, <2>3, FS_Subset
  <2> QED  BY <1>2, <2>4
<1>5. \A i, j \in 1..n : NotAfter(rank, i, j) \/ NotAfter(rank, j, i)
  BY DEF NotAfter
<1>6. \A i, j \in 1..n : Place(rank, i) = Place(rank, j) => i = j
  <2> SUFFICES ASSUME NEW i \in 1..n, NEW j \in 1..n, i # j
               PROVE  Place(rank, i) # Place(rank, j)
    OBVIOUS
  <2>1. Place(rank, i) < Place(rank, j) \/ Place(rank, j) < Place(rank, i)
    <3>1. CASE NotAfter(rank, i, j)
      BY <1>4, <3>1
    <3>2. CASE NotAfter(rank, j, i)
      BY <1>4, <3>2
    <3> QED  BY <1>5, <3>1, <3>2
  <2>2. Place(rank, i) \in 1..n /\ Place(rank, j) \in 1..n
    BY <1>3, Zenon
  <2> QED  BY <2>1, <2>2
<1> HIDE DEF Upto
<1> QED  BY <1>3, <1>4, <1>5, <1>6 DEF Apart

LEMMA PlacesAreTaken ==
  ASSUME NEW n \in Nat, NEW rank \in [1..n -> Int]
  PROVE  \A k \in 1..n : \E i \in 1..n : Place(rank, i) = k
<1> DEFINE f == [i \in 1..n |-> Place(rank, i)]
<1>1. /\ \A i \in 1..n : Place(rank, i) \in 1..n
      /\ \A i, j \in 1..n : Place(rank, i) = Place(rank, j) => i = j
  <2>1. Apart(n, rank)
    BY PlacesDiffer
  <2> QED  BY <2>1 DEF Apart
<1>2. f \in [1..n -> 1..n] /\ \A i, j \in 1..n : f[i] = f[j] => i = j
  BY <1>1
<1> HIDE DEF f
<1>3. f \in Injection(1..n, 1..n)
  BY <1>2 DEF Injection, IsInjective
<1>4. f \in Surjection(1..n, 1..n)
  BY <1>3, FS_Interval, FS_Injection
<1>5. \A k \in 1..n : \E i \in 1..n : f[i] = k
  BY <1>4 DEF Surjection
<1> QED  BY <1>5 DEF f

\* What a list sorted by rank is: the same tasks, in order.
Sorts(from, q, rank, r) ==
  /\ from \in [1..Len(q) -> 1..Len(q)]
  /\ r \in Seq(Task) /\ Len(r) = Len(q) /\ \A k \in 1..Len(q) : r[k] = q[from[k]]
  /\ \A i \in 1..Len(q) : \E k \in 1..Len(q) : from[k] = i
  /\ \A k, l \in 1..Len(q) : k < l => from[k] # from[l] /\ NotAfter(rank, from[k], from[l])

LEMMA ByRankSorts ==
  ASSUME NEW n \in Nat, NEW q \in Seq(Task), Len(q) = n, NEW rank \in [1..n -> Int]
  PROVE  \E from : Sorts(from, q, rank, ByRank(q, rank))
<1> DEFINE from == [k \in 1..n |-> CHOOSE i \in 1..n : Place(rank, i) = k]
           r == ByRank(q, rank)
<1>1. DOMAIN q = 1..n /\ \A i \in 1..n : q[i] \in Task
  OBVIOUS
<1>2. /\ \A i \in 1..n : Place(rank, i) \in 1..n
      /\ \A i, j \in 1..n : i # j /\ NotAfter(rank, i, j) => Place(rank, i) < Place(rank, j)
      /\ \A i, j \in 1..n : NotAfter(rank, i, j) \/ NotAfter(rank, j, i)
      /\ \A i, j \in 1..n : Place(rank, i) = Place(rank, j) => i = j
  <2>1. Apart(n, rank)
    BY PlacesDiffer
  <2> HIDE DEF from, r
  <2> QED  BY <2>1 DEF Apart
<1>3. \A k \in 1..n : from[k] \in 1..n /\ Place(rank, from[k]) = k
  <2> TAKE k \in 1..n
  <2>1. from[k] = CHOOSE i \in 1..n : Place(rank, i) = k
    OBVIOUS
  <2> HIDE DEF from
  <2>2. PICK i \in 1..n : Place(rank, i) = k
    BY PlacesAreTaken
  <2> QED  BY <2>1, <2>2, Zenon
<1>4. r = [k \in 1..n |-> q[from[k]]]
  BY <1>1 DEF ByRank
<1>5. from \in [1..n -> 1..n]
  BY <1>3
<1> HIDE DEF r, from
<1>6. r \in Seq(Task) /\ Len(r) = n /\ \A k \in 1..n : r[k] = q[from[k]]
  <2>1. \A k \in 1..n : q[from[k]] \in Task
    BY <1>1, <1>3
  <2> QED  BY <1>4, <2>1
<1>7. \A i \in 1..n : \E k \in 1..n : from[k] = i
  <2> TAKE i \in 1..n
  <2>1. PICK k \in 1..n : k = Place(rank, i)
    BY <1>2
  <2>2. PICK j \in 1..n : j = from[k] /\ Place(rank, j) = k
    BY <1>3
  <2>3. j = i
    BY <1>2, <2>1, <2>2
  <2> QED  BY <2>2, <2>3
<1>8. ASSUME NEW k \in 1..n, NEW l \in 1..n, k < l
      PROVE  from[k] # from[l] /\ NotAfter(rank, from[k], from[l])
  <2>1. PICK i \in 1..n : i = from[k] /\ Place(rank, i) = k
    BY <1>3
  <2>2. PICK j \in 1..n : j = from[l] /\ Place(rank, j) = l
    BY <1>3
  <2>3. i # j
    BY <1>8, <2>1, <2>2
  <2>4. ~NotAfter(rank, j, i)
    <3>1. NotAfter(rank, j, i) => Place(rank, j) < Place(rank, i)
      BY <1>2, <2>3
    <3> QED  BY <1>8, <2>1, <2>2, <3>1
  <2>5. NotAfter(rank, i, j)
    BY <1>2, <2>4
  <2> QED  BY <2>1, <2>2, <2>3, <2>5
<1>9. Sorts(from, q, rank, r)
  BY <1>5, <1>6, <1>7, <1>8 DEF Sorts
<1> QED  BY <1>9 DEF r

\* Nothing is lost and nothing doubled by sorting.
LEMMA SortKeeps ==
  ASSUME NEW q \in Seq(Task), NEW rank \in [1..Len(q) -> Int]
  PROVE  /\ ByRank(q, rank) \in Seq(Task) /\ IdsOf(ByRank(q, rank)) = IdsOf(q)
         /\ Distinct(q) => Distinct(ByRank(q, rank))
<1>1. PICK from, r : r = ByRank(q, rank) /\ Sorts(from, q, rank, r)
  BY ByRankSorts
<1>2. r \in Seq(Task) /\ DOMAIN r = 1..Len(q) /\ DOMAIN q = 1..Len(q) /\ Len(q) \in Nat
  BY <1>1 DEF Sorts
<1>3. \A k \in 1..Len(q) : from[k] \in 1..Len(q) /\ r[k] = q[from[k]]
  BY <1>1 DEF Sorts
<1>4. IdsOf(r) \subseteq IdsOf(q)
  BY <1>2, <1>3 DEF IdsOf
<1>5. IdsOf(q) \subseteq IdsOf(r)
  <2> SUFFICES ASSUME NEW i \in 1..Len(q) PROVE q[i].id \in IdsOf(r)
    BY <1>2 DEF IdsOf
  <2>1. PICK k \in 1..Len(q) : from[k] = i
    BY <1>1 DEF Sorts
  <2> QED  BY <1>2, <1>3, <2>1 DEF IdsOf
<1>6. ASSUME Distinct(q) PROVE Distinct(r)
  <2> SUFFICES ASSUME NEW k \in 1..Len(q), NEW l \in 1..Len(q), r[k].id = r[l].id, k < l
               PROVE  FALSE
    BY <1>2 DEF Distinct
  <2>1. from[k] # from[l]
    BY <1>1 DEF Sorts
  <2> QED  BY <1>2, <1>3, <1>6, <2>1 DEF Distinct
<1> QED  BY <1>1, <1>2, <1>4, <1>5, <1>6

\* The tasks of a group end up together when no other has a rank between theirs.
LEMMA SortGroups ==
  ASSUME NEW q \in Seq(Task), NEW rank \in [1..Len(q) -> Int],
         \A i, j, k \in 1..Len(q) :
            rank[i] <= rank[j] /\ rank[j] <= rank[k] /\ q[i].group = q[k].group
            => q[j].group = q[i].group
  PROVE  Grouped(ByRank(q, rank))
<1>1. PICK from, r : r = ByRank(q, rank) /\ Sorts(from, q, rank, r)
  BY ByRankSorts
<1>2. DOMAIN r = 1..Len(q) /\ Len(q) \in Nat
  BY <1>1 DEF Sorts
<1>3. \A k \in 1..Len(q) : from[k] \in 1..Len(q) /\ r[k] = q[from[k]]
  BY <1>1 DEF Sorts
<1>4. ASSUME NEW k \in 1..Len(q), NEW l \in 1..Len(q), k < l
      PROVE  rank[from[k]] <= rank[from[l]]
  <2>1. NotAfter(rank, from[k], from[l])
    BY <1>1, <1>4 DEF Sorts
  <2>2. rank[from[k]] \in Int /\ rank[from[l]] \in Int
    BY <1>3
  <2> QED  BY <2>1, <2>2 DEF NotAfter
<1>5. Grouped(r)
  <2> SUFFICES ASSUME NEW a \in 1..Len(q), NEW b \in 1..Len(q), NEW c \in 1..Len(q),
                      a < b, b < c, r[a].group = r[c].group
               PROVE  r[b].group = r[a].group
    BY <1>2 DEF Grouped
  <2>1. rank[from[a]] <= rank[from[b]] /\ rank[from[b]] <= rank[from[c]]
    BY <1>4
  <2>2. PICK i \in 1..Len(q), j \in 1..Len(q), k \in 1..Len(q) :
          i = from[a] /\ j = from[b] /\ k = from[c]
    BY <1>3
  <2>3. rank[i] <= rank[j] /\ rank[j] <= rank[k] /\ q[i].group = q[k].group
    BY <1>3, <2>1, <2>2
  <2>4. q[j].group = q[i].group
    BY <2>3
  <2> QED  BY <1>3, <2>2, <2>4
<1> QED  BY <1>1, <1>5
\* Where a section begins.
LEMMA StartFacts ==
  ASSUME NEW q \in Seq(Task), NEW g \in GroupsOf(q)
  PROVE  /\ StartOf(q, g) \in 1..Len(q) /\ q[StartOf(q, g)].group = g
         /\ \A i \in 1..Len(q) : q[i].group = g => StartOf(q, g) <= i
<1> DEFINE S == {i \in 1..Len(q) : q[i].group = g}
           First(i) == i \in 1..Len(q) /\ q[i].group = g /\ \A j \in 1..(i - 1) : q[j].group # g
<1>1. DOMAIN q = 1..Len(q) /\ Len(q) \in Nat
  OBVIOUS
<1>2. S \in SUBSET Nat /\ S # {}
  BY <1>1 DEF GroupsOf
<1>3. PICK n \in S : \A m \in S : n <= m
  <2> HIDE DEF S
  <2> QED  BY <1>2, LeastNumber
<1>4. First(n)
  BY <1>1, <1>3
<1>5. StartOf(q, g) = CHOOSE i : First(i)
  BY <1>1 DEF StartOf
<1> HIDE DEF First
<1>6. First(StartOf(q, g))
  BY <1>4, <1>5
<1>7. PICK s : s = StartOf(q, g)
  OBVIOUS
<1>8. \A i \in 1..Len(q) : q[i].group = g => s <= i
  BY <1>1, <1>6, <1>7 DEF First
<1> QED  BY <1>6, <1>7, <1>8 DEF First

\* Where the tasks of a group stand together, the sections follow one another.
LEMMA StartsInOrder ==
  ASSUME NEW q \in Seq(Task), NEW n \in 0..Len(q),
         \A i, j, k \in 1..n : i < j /\ j < k /\ q[i].group = q[k].group => q[j].group = q[i].group,
         NEW i \in 1..n, NEW j \in 1..n, i < j
  PROVE  StartOf(q, q[i].group) <= StartOf(q, q[j].group)
<1>1. PICK a, b : a = StartOf(q, q[i].group) /\ b = StartOf(q, q[j].group)
  OBVIOUS
<1>2. q[i].group \in GroupsOf(q) /\ q[j].group \in GroupsOf(q)
  BY DEF GroupsOf
<1>3. /\ a \in 1..Len(q) /\ b \in 1..Len(q) /\ q[b].group = q[j].group /\ b <= j /\ a <= i
      /\ \A k \in 1..Len(q) : q[k].group = q[i].group => a <= k
  BY <1>1, <1>2, StartFacts
<1>4. ASSUME b < a PROVE FALSE
  <2>1. b \in 1..n /\ b < i
    BY <1>3, <1>4
  <2>2. q[i].group = q[b].group
    BY <1>3, <2>1
  <2> QED  BY <1>3, <1>4, <2>2
<1> QED  BY <1>1, <1>3, <1>4

\* The index of a task is where it is.
LEMMA IndexFacts ==
  ASSUME NEW q \in Seq(Task), Distinct(q)
  PROVE  /\ \A i \in 1..Len(q) : IndexOf(q, q[i].id) = i
         /\ \A id \in IdsOf(q) : /\ IndexOf(q, id) \in 1..Len(q) /\ q[IndexOf(q, id)].id = id
                                 /\ TaskOf(q, id) \in Task /\ TaskOf(q, id).id = id
<1>1. DOMAIN q = 1..Len(q) /\ \A i \in 1..Len(q) : q[i] \in Task
  OBVIOUS
<1>2. ASSUME NEW id \in IdsOf(q) PROVE IndexOf(q, id) \in 1..Len(q) /\ q[IndexOf(q, id)].id = id
  <2>1. \E i \in 1..Len(q) : q[i].id = id
    BY <1>1 DEF IdsOf
  <2> QED  BY <1>1, <2>1, Zenon DEF IndexOf
<1>3. ASSUME NEW i \in 1..Len(q) PROVE IndexOf(q, q[i].id) = i
  <2>1. q[i].id \in IdsOf(q)
    BY <1>1 DEF IdsOf
  <2>2. PICK j : j = IndexOf(q, q[i].id)
    OBVIOUS
  <2>3. j \in 1..Len(q) /\ q[j].id = q[i].id
    BY <1>2, <2>1, <2>2
  <2> QED  BY <1>1, <2>2, <2>3 DEF Distinct
<1> QED  BY <1>1, <1>2, <1>3 DEF TaskOf

\* Two tasks keep their order when their ranks do not say otherwise.
LEMMA SortKeepsOrder ==
  ASSUME NEW q \in Seq(Task), Distinct(q), NEW rank \in [1..Len(q) -> Int],
         NEW p \in Seq(Task), Distinct(p), Len(p) <= Len(q), NEW stay \in SUBSET IdsOf(p),
         \A i \in 1..Len(p) : p[i].id = q[i].id,
         \A i, j \in 1..Len(p) : p[i].id \in stay /\ p[j].id \in stay /\ i < j => rank[i] <= rank[j]
  PROVE  SameOrder(p, ByRank(q, rank), stay)
<1>1. PICK from, r : r = ByRank(q, rank) /\ Sorts(from, q, rank, r)
  BY ByRankSorts
<1>2. Distinct(r) /\ r \in Seq(Task)
  BY <1>1, SortKeeps
<1>3. Len(q) \in Nat /\ Len(p) \in Nat /\ Len(r) = Len(q)
  BY <1>1 DEF Sorts
<1>4. ASSUME NEW x \in stay, NEW y \in stay, IndexOf(p, x) < IndexOf(p, y)
      PROVE  IndexOf(r, x) < IndexOf(r, y)
  <2>1. PICK i, j : i = IndexOf(p, x) /\ j = IndexOf(p, y)
    OBVIOUS
  <2>2. i \in 1..Len(p) /\ j \in 1..Len(p) /\ p[i].id = x /\ p[j].id = y
    BY <2>1, IndexFacts
  <2>3. i \in 1..Len(q) /\ j \in 1..Len(q) /\ q[i].id = x /\ q[j].id = y /\ i < j
    BY <1>3, <1>4, <2>1, <2>2
  <2>4. rank[i] <= rank[j] /\ rank[i] \in Int /\ rank[j] \in Int
    BY <2>2, <2>3
  <2>5. PICK k \in 1..Len(q) : from[k] = i
    BY <1>1, <2>3 DEF Sorts
  <2>6. PICK l \in 1..Len(q) : from[l] = j
    BY <1>1, <2>3 DEF Sorts
  <2>7. r[k].id = x /\ r[l].id = y
    BY <1>1, <2>3, <2>5, <2>6 DEF Sorts
  <2>8. IndexOf(r, x) = k /\ IndexOf(r, y) = l
    BY <1>2, <1>3, <2>7, IndexFacts
  <2>9. ~(l < k)
    <3>1. l < k => NotAfter(rank, from[l], from[k])
      BY <1>1 DEF Sorts
    <3>2. ~NotAfter(rank, j, i)
      BY <2>3, <2>4 DEF NotAfter
    <3> QED  BY <2>5, <2>6, <3>1, <3>2
  <2>10. k # l
    BY <2>3, <2>5, <2>6
  <2> QED  BY <1>3, <2>8, <2>9, <2>10
<1> QED  BY <1>1, <1>4 DEF SameOrder

\* What the commands leave behind is grouped, and nothing is lost.
LEMMA GroupedOrderGroups ==
  ASSUME NEW q \in Seq(Task), Distinct(q)
  PROVE  /\ GroupedOrder(q) \in Seq(Task) /\ Distinct(GroupedOrder(q)) /\ Grouped(GroupedOrder(q))
         /\ IdsOf(GroupedOrder(q)) = IdsOf(q)
<1> DEFINE rank == [i \in 1..Len(q) |-> StartOf(q, q[i].group)]
<1>1. DOMAIN q = 1..Len(q) /\ \A i \in 1..Len(q) : q[i].group \in GroupsOf(q)
  BY DEF GroupsOf
<1>2. \A i \in 1..Len(q) : rank[i] \in 1..Len(q) /\ q[rank[i]].group = q[i].group
  BY <1>1, StartFacts
<1>3. rank \in [1..Len(q) -> Int]
  BY <1>2
<1>4. GroupedOrder(q) = ByRank(q, rank)
  BY <1>1 DEF GroupedOrder
<1> HIDE DEF rank
<1>5. ASSUME NEW i \in 1..Len(q), NEW j \in 1..Len(q), NEW k \in 1..Len(q),
             rank[i] <= rank[j], rank[j] <= rank[k], q[i].group = q[k].group
      PROVE  q[j].group = q[i].group
  <2>1. rank[i] = rank[k]
    BY <1>5, <1>4 DEF rank
  <2>2. rank[i] = rank[j]
    BY <1>3, <1>5, <2>1
  <2> QED  BY <1>2, <2>2
<1>6. Grouped(ByRank(q, rank))
  BY <1>3, <1>5, SortGroups
<1> QED  BY <1>3, <1>4, <1>6, SortKeeps

IsQueue(q) == q \in Seq(Task) /\ Distinct(q)

\* A list with the tasks of another, each at its place.
LEMMA SameTasks ==
  ASSUME NEW q, IsQueue(q), NEW r \in Seq(Task), Len(r) = Len(q),
         \A i \in 1..Len(q) : r[i].id = q[i].id
  PROVE  IsQueue(r) /\ IdsOf(r) = IdsOf(q)
<1>1. DOMAIN q = 1..Len(q) /\ DOMAIN r = 1..Len(q)
  BY DEF IsQueue
<1> QED  BY <1>1 DEF IsQueue, Distinct, IdsOf

LEMMA Joined ==
  ASSUME NEW s \in Seq(Task), NEW t \in Seq(Task)
  PROVE  s \o t \in Seq(Task) /\ Len(s \o t) = Len(s) + Len(t)
  OBVIOUS

\* A list one task shorter.
LEMMA Removed ==
  ASSUME NEW q, IsQueue(q), NEW id \in IdsOf(q), NEW r, r = RemoveAt(q, IndexOf(q, id))
  PROVE  /\ IsQueue(r) /\ IdsOf(r) = IdsOf(q) \ {id} /\ Len(r) = Len(q) - 1
         /\ Grouped(q) => Grouped(r)
         /\ \A stay \in SUBSET IdsOf(r) : SameOrder(q, r, stay)
<1>1. PICK n, k : n = Len(q) /\ k = IndexOf(q, id)
  OBVIOUS
<1>2. q \in Seq(Task) /\ Distinct(q) /\ n \in Nat /\ DOMAIN q = 1..n /\ \A i \in 1..n : q[i] \in Task
  BY <1>1 DEF IsQueue
<1>3. k \in 1..n /\ q[k].id = id /\ \A i \in 1..n : IndexOf(q, q[i].id) = i
  BY <1>1, <1>2, IndexFacts
<1>4. r = SubSeq(q, 1, k - 1) \o SubSeq(q, k + 1, n)
  BY <1>1 DEF RemoveAt
<1>5. r \in Seq(Task) /\ Len(r) = n - 1 /\ \A i \in 1..n - 1 : r[i] = IF i < k THEN q[i] ELSE q[i + 1]
  <2>1. /\ SubSeq(q, 1, k - 1) \in Seq(Task) /\ Len(SubSeq(q, 1, k - 1)) = k - 1
        /\ SubSeq(q, k + 1, n) \in Seq(Task) /\ Len(SubSeq(q, k + 1, n)) = n - k
    BY <1>1, <1>2, <1>3
  <2>2. /\ \A i \in 1..k - 1 : SubSeq(q, 1, k - 1)[i] = q[i]
        /\ \A i \in 1..n - k : SubSeq(q, k + 1, n)[i] = q[k + i]
    BY <1>1, <1>2, <1>3
  <2>3. PICK s, t : s = SubSeq(q, 1, k - 1) /\ t = SubSeq(q, k + 1, n)
    OBVIOUS
  <2>4. /\ s \in Seq(Task) /\ Len(s) = k - 1 /\ t \in Seq(Task) /\ Len(t) = n - k /\ r = s \o t
        /\ \A i \in 1..k - 1 : s[i] = q[i]
        /\ \A i \in 1..n - k : t[i] = q[k + i]
    BY <1>4, <2>1, <2>2, <2>3
  <2>5. r \in Seq(Task) /\ Len(r) = n - 1
    <3>1. r \in Seq(Task) /\ Len(r) = Len(s) + Len(t)
      BY <2>4, Joined
    <3>2. (k - 1) + (n - k) = n - 1
      BY <1>2, <1>3
    <3> QED  BY <2>4, <3>1, <3>2
  <2>6. ASSUME NEW i \in 1..n - 1 PROVE r[i] = IF i < k THEN q[i] ELSE q[i + 1]
    <3>1. CASE i < k
      <4>1. r[i] = s[i] /\ i \in 1..k - 1
        BY <1>2, <1>3, <2>4, <3>1
      <4> QED  BY <2>4, <3>1, <4>1
    <3>2. CASE ~(i < k)
      <4>1. r[i] = t[i - (k - 1)] /\ i - (k - 1) \in 1..n - k /\ k + (i - (k - 1)) = i + 1
        BY <1>2, <1>3, <2>4, <3>2
      <4> QED  BY <2>4, <3>2, <4>1
    <3> QED  BY <3>1, <3>2
  <2> QED  BY <2>5, <2>6
<1> DEFINE old == [i \in 1..n - 1 |-> IF i < k THEN i ELSE i + 1]
<1>6. /\ \A i \in 1..n - 1 : old[i] \in 1..n /\ old[i] # k /\ r[i] = q[old[i]]
      /\ \A i, j \in 1..n - 1 : i < j => old[i] < old[j]
      /\ \A j \in 1..n : j # k => \E i \in 1..n - 1 : old[i] = j
  <2>1. \A i \in 1..n - 1 : old[i] \in 1..n /\ old[i] # k /\ r[i] = q[old[i]]
    BY <1>2, <1>3, <1>5
  <2>2. \A i, j \in 1..n - 1 : i < j => old[i] < old[j]
    BY <1>2, <1>3
  <2>3. ASSUME NEW j \in 1..n, j # k PROVE \E i \in 1..n - 1 : old[i] = j
    <3>1. CASE j < k
      <4>1. j \in 1..n - 1 /\ old[j] = j
        BY <1>2, <1>3, <3>1
      <4> QED  BY <4>1
    <3>2. CASE k < j
      <4>1. j - 1 \in 1..n - 1 /\ old[j - 1] = j
        BY <1>2, <1>3, <3>2
      <4> QED  BY <4>1
    <3> QED  BY <1>2, <1>3, <2>3, <3>1, <3>2
  <2> QED  BY <2>1, <2>2, <2>3
<1> HIDE DEF old
<1>7. DOMAIN r = 1..n - 1
  BY <1>2, <1>3, <1>5
<1>8. Distinct(r)
  <2> SUFFICES ASSUME NEW i \in 1..n - 1, NEW j \in 1..n - 1, i < j, r[i].id = r[j].id PROVE FALSE
    BY <1>2, <1>7 DEF Distinct
  <2>1. q[old[i]].id = q[old[j]].id /\ old[i] \in 1..n /\ old[j] \in 1..n /\ old[i] < old[j]
    BY <1>6
  <2>2. old[i] = old[j]
    BY <1>2, <2>1 DEF Distinct
  <2> QED  BY <2>1, <2>2
<1>9. IdsOf(r) = IdsOf(q) \ {id}
  <2>1. ASSUME NEW i \in 1..n - 1 PROVE r[i].id \in IdsOf(q) \ {id}
    <3>1. PICK j \in 1..n : j = old[i] /\ j # k /\ r[i] = q[j]
      BY <1>6
    <3>2. q[j].id # id
      BY <1>2, <1>3, <3>1 DEF Distinct
    <3> QED  BY <1>2, <3>1, <3>2 DEF IdsOf
  <2>2. ASSUME NEW j \in 1..n, q[j].id # id PROVE q[j].id \in IdsOf(r)
    <3>1. PICK i \in 1..n - 1 : old[i] = j
      BY <1>3, <1>6, <2>2
    <3> QED  BY <1>6, <1>7, <3>1 DEF IdsOf
  <2>3. IdsOf(r) = {r[i].id : i \in 1..n - 1} /\ IdsOf(q) = {q[j].id : j \in 1..n}
    BY <1>2, <1>7 DEF IdsOf
  <2>4. IdsOf(r) \subseteq IdsOf(q) \ {id}
    BY <2>1, <2>3, Zenon
  <2>5. IdsOf(q) \ {id} \subseteq IdsOf(r)
    <3> SUFFICES ASSUME NEW x \in IdsOf(q), x # id PROVE x \in IdsOf(r)
      OBVIOUS
    <3>1. PICK j \in 1..n : x = q[j].id
      BY <2>3
    <3> QED  BY <2>2, <3>1
  <2> QED  BY <2>4, <2>5
<1>10. ASSUME Grouped(q) PROVE Grouped(r)
  <2> SUFFICES ASSUME NEW a \in 1..n - 1, NEW b \in 1..n - 1, NEW c \in 1..n - 1,
                      a < b, b < c, r[a].group = r[c].group
               PROVE  r[b].group = r[a].group
    BY <1>7 DEF Grouped
  <2>1. PICK i \in 1..n, j \in 1..n, l \in 1..n : i = old[a] /\ j = old[b] /\ l = old[c]
    BY <1>6
  <2>2. i < j /\ j < l /\ r[a] = q[i] /\ r[b] = q[j] /\ r[c] = q[l]
    BY <1>6, <2>1
  <2> QED  BY <1>2, <1>10, <2>2 DEF Grouped
<1>11. ASSUME NEW stay \in SUBSET IdsOf(r) PROVE SameOrder(q, r, stay)
  <2> SUFFICES ASSUME NEW x \in IdsOf(r), NEW y \in IdsOf(r), IndexOf(q, x) < IndexOf(q, y)
               PROVE  IndexOf(r, x) < IndexOf(r, y)
    BY DEF SameOrder
  <2>1. PICK a \in 1..n - 1, b \in 1..n - 1 : a = IndexOf(r, x) /\ b = IndexOf(r, y) /\ r[a].id = x /\ r[b].id = y
    BY <1>5, <1>8, IndexFacts
  <2>2. PICK i \in 1..n, j \in 1..n : i = old[a] /\ j = old[b] /\ r[a] = q[i] /\ r[b] = q[j]
    BY <1>6
  <2>3. i < j
    BY <1>3, <2>1, <2>2
  <2>4. ~(b < a) /\ a # b
    <3>1. b < a => j < i
      BY <1>6, <2>2
    <3> QED  BY <2>2, <2>3, <3>1
  <2> QED  BY <1>2, <2>1, <2>4
<1> QED  BY <1>1, <1>5, <1>8, <1>9, <1>10, <1>11 DEF IsQueue

\* A list one task longer.
LEMMA Inserted ==
  ASSUME NEW q, IsQueue(q), NEW t \in Task, t.id \notin IdsOf(q), NEW k \in 1..Len(q) + 1,
         NEW r, r = InsertAt(q, k, t)
  PROVE  IsQueue(r) /\ IdsOf(r) = IdsOf(q) \union {t.id}
<1>1. PICK n : n = Len(q)
  OBVIOUS
<1>2. q \in Seq(Task) /\ Distinct(q) /\ n \in Nat /\ DOMAIN q = 1..n /\ \A i \in 1..n : q[i] \in Task
  BY <1>1 DEF IsQueue
<1>3. PICK s, u : s = SubSeq(q, 1, k - 1) /\ u = SubSeq(q, k, n)
  OBVIOUS
<1>4. /\ s \in Seq(Task) /\ Len(s) = k - 1 /\ u \in Seq(Task) /\ Len(u) = n - k + 1
      /\ \A i \in 1..k - 1 : s[i] = q[i]
      /\ \A i \in 1..n - k + 1 : u[i] = q[k + i - 1]
  <2>1. k \in 1..n + 1
    BY <1>1
  <2>2. s \in Seq(Task) /\ Len(s) = k - 1 /\ \A i \in 1..k - 1 : s[i] = q[i]
    BY <1>1, <1>2, <1>3, <2>1
  <2>3. u \in Seq(Task) /\ Len(u) = n - k + 1
    BY <1>1, <1>2, <1>3, <2>1
  <2>4. \A i \in 1..n - k + 1 : u[i] = q[k + i - 1]
    BY <1>1, <1>2, <1>3, <2>1
  <2> QED  BY <2>2, <2>3, <2>4
<1>5. r = s \o <<t>> \o u
  BY <1>1, <1>3 DEF InsertAt
<1>6. r \in Seq(Task) /\ Len(r) = n + 1
  <2>1. PICK v : v = s \o <<t>>
    OBVIOUS
  <2>2. v \in Seq(Task) /\ Len(v) = k /\ r = v \o u
    BY <1>1, <1>2, <1>4, <1>5, <2>1
  <2>3. r \in Seq(Task) /\ Len(r) = Len(v) + Len(u)
    BY <1>4, <2>2, Joined
  <2> QED  BY <1>1, <1>2, <1>4, <2>2, <2>3
<1>7. ASSUME NEW i \in 1..n + 1
      PROVE  r[i] = IF i < k THEN q[i] ELSE IF i = k THEN t ELSE q[i - 1]
  <2>1. CASE i < k
    <3>1. r[i] = s[i] /\ i \in 1..k - 1
      BY <1>1, <1>2, <1>4, <1>5, <2>1
    <3> QED  BY <1>4, <2>1, <3>1
  <2>2. CASE i = k
    BY <1>1, <1>2, <1>4, <1>5, <2>2
  <2>3. CASE k < i
    <3>1. r[i] = u[i - k] /\ i - k \in 1..n - k + 1 /\ k + (i - k) - 1 = i - 1
      BY <1>1, <1>2, <1>4, <1>5, <2>3
    <3> QED  BY <1>4, <2>3, <3>1
  <2> QED  BY <1>1, <1>2, <2>1, <2>2, <2>3
<1>8. DOMAIN r = 1..n + 1 /\ k \in 1..n + 1
  BY <1>1, <1>2, <1>6
<1>9. /\ \A i \in 1..n + 1 : i # k => \E j \in 1..n : r[i] = q[j]
      /\ r[k] = t
      /\ \A j \in 1..n : \E i \in 1..n + 1 : r[i] = q[j]
  <2>1. ASSUME NEW i \in 1..n + 1, i # k PROVE \E j \in 1..n : r[i] = q[j]
    <3>1. (i < k => i \in 1..n) /\ (k < i => i - 1 \in 1..n)
      BY <1>2, <1>8
    <3> QED  BY <1>7, <1>8, <2>1, <3>1
  <2>2. ASSUME NEW j \in 1..n PROVE \E i \in 1..n + 1 : r[i] = q[j]
    <3>1. CASE j < k
      <4>1. j \in 1..n + 1 /\ r[j] = q[j]
        BY <1>2, <1>7, <3>1
      <4> QED  BY <4>1
    <3>2. CASE ~(j < k)
      <4>1. j + 1 \in 1..n + 1 /\ (j + 1) - 1 = j /\ k < j + 1
        BY <1>2, <1>8, <3>2
      <4>2. r[j + 1] = q[j]
        BY <1>7, <1>8, <4>1
      <4> QED  BY <4>1, <4>2
    <3> QED  BY <3>1, <3>2
  <2>3. r[k] = t
    BY <1>7, <1>8
  <2> QED  BY <2>1, <2>2, <2>3
<1>10. \A j \in 1..n : q[j].id # t.id
  BY <1>2 DEF IdsOf
<1>11. ASSUME NEW i \in 1..n + 1, NEW j \in 1..n + 1, i < j PROVE r[i].id # r[j].id
  <2>1. CASE i = k \/ j = k
    <3>1. i # j
      BY <1>11
    <3> QED  BY <1>8, <1>9, <1>10, <2>1, <3>1
  <2>2. CASE i # k /\ j # k
    <3>1. PICK a \in 1..n, b \in 1..n : r[i] = q[a] /\ r[j] = q[b] /\ a # b
      <4>1. CASE j < k
        <5>1. i \in 1..n /\ j \in 1..n /\ r[i] = q[i] /\ r[j] = q[j] /\ i # j
          BY <1>2, <1>7, <1>8, <1>11, <4>1
        <5> QED  BY <5>1
      <4>2. CASE i < k /\ k < j
        <5>1. i \in 1..n /\ j - 1 \in 1..n /\ r[i] = q[i] /\ r[j] = q[j - 1] /\ i # j - 1
          BY <1>2, <1>7, <1>8, <1>11, <4>2
        <5> QED  BY <5>1
      <4>3. CASE k < i
        <5>1. i - 1 \in 1..n /\ j - 1 \in 1..n /\ r[i] = q[i - 1] /\ r[j] = q[j - 1] /\ i - 1 # j - 1
          BY <1>2, <1>7, <1>8, <1>11, <4>3
        <5> QED  BY <5>1
      <4> QED  BY <1>8, <1>11, <2>2, <4>1, <4>2, <4>3
    <3> QED  BY <1>2, <3>1 DEF Distinct
  <2> QED  BY <2>1, <2>2
<1>12. Distinct(r)
  <2>1. \A i, j \in 1..n + 1 : i # j => i < j \/ j < i
    OBVIOUS
  <2> QED  BY <1>8, <1>11, <2>1 DEF Distinct
<1>13. IdsOf(r) = IdsOf(q) \union {t.id}
  <2>1. \A i \in 1..n + 1 : r[i].id \in IdsOf(q) \union {t.id}
    BY <1>2, <1>9 DEF IdsOf
  <2>2. \A j \in 1..n : q[j].id \in IdsOf(r)
    <3> TAKE j \in 1..n
    <3>1. PICK i \in 1..n + 1 : r[i] = q[j]
      BY <1>9
    <3> QED  BY <1>8, <3>1 DEF IdsOf
  <2>3. t.id \in IdsOf(r)
    BY <1>8, <1>9 DEF IdsOf
  <2>4. IdsOf(r) = {r[i].id : i \in 1..n + 1} /\ IdsOf(q) = {q[i].id : i \in 1..n}
    BY <1>2, <1>8 DEF IdsOf
  <2>5. IdsOf(r) \subseteq IdsOf(q) \union {t.id} /\ IdsOf(q) \subseteq IdsOf(r)
    BY <2>1, <2>2, <2>4, Zenon
  <2> QED  BY <2>3, <2>5
<1> QED  BY <1>6, <1>12, <1>13 DEF IsQueue

\* A list with one task more at its end: the others keep their order.
LEMMA Appended ==
  ASSUME NEW q, IsQueue(q), NEW t \in Task, t.id \notin IdsOf(q)
  PROVE  /\ IsQueue(Append(q, t)) /\ IdsOf(Append(q, t)) = IdsOf(q) \union {t.id}
         /\ Len(Append(q, t)) = Len(q) + 1 /\ \A i \in 1..Len(q) : Append(q, t)[i] = q[i]
<1>1. PICK n, r : n = Len(q) /\ r = Append(q, t)
  OBVIOUS
<1>2. q \in Seq(Task) /\ Distinct(q) /\ n \in Nat /\ DOMAIN q = 1..n /\ \A i \in 1..n : q[i] \in Task
  BY <1>1 DEF IsQueue
<1>3. r \in Seq(Task) /\ Len(r) = n + 1 /\ DOMAIN r = 1..n + 1 /\ r[n + 1] = t /\ \A i \in 1..n : r[i] = q[i]
  BY <1>1, <1>2
<1>4. \A i \in 1..n + 1 : i = n + 1 \/ i \in 1..n
  BY <1>2
<1>5. \A i \in 1..n : q[i].id # t.id
  BY <1>2 DEF IdsOf
<1>6. Distinct(r)
  BY <1>2, <1>3, <1>4, <1>5 DEF Distinct
<1>7. n + 1 \in 1..n + 1 /\ \A i \in 1..n : i \in 1..n + 1
  BY <1>2
<1>8. IdsOf(r) = IdsOf(q) \union {t.id}
  <2>1. \A i \in 1..n + 1 : r[i].id \in IdsOf(q) \union {t.id}
    BY <1>2, <1>3, <1>4 DEF IdsOf
  <2>2. \A i \in 1..n : q[i].id \in IdsOf(r)
    BY <1>3, <1>7 DEF IdsOf
  <2>3. t.id \in IdsOf(r)
    BY <1>3, <1>7 DEF IdsOf
  <2>4. IdsOf(r) = {r[i].id : i \in 1..n + 1} /\ IdsOf(q) = {q[i].id : i \in 1..n}
    BY <1>2, <1>3 DEF IdsOf
  <2>5. IdsOf(r) \subseteq IdsOf(q) \union {t.id} /\ IdsOf(q) \subseteq IdsOf(r)
    BY <2>1, <2>2, <2>4, Zenon
  <2> QED  BY <2>3, <2>5
<1>9. IsQueue(r)
  BY <1>3, <1>6 DEF IsQueue
<1>10. Len(r) = Len(q) + 1 /\ \A i \in 1..Len(q) : r[i] = q[i]
  BY <1>1, <1>3
<1> QED  BY <1>1, <1>8, <1>9, <1>10

\* The order is restored after every change.
LEMMA OrderRestored ==
  ASSUME NEW q, IsQueue(q)
  PROVE  /\ IsQueue(GroupedOrder(q)) /\ Grouped(GroupedOrder(q))
         /\ IdsOf(GroupedOrder(q)) = IdsOf(q)
  BY GroupedOrderGroups DEF IsQueue

\* A task added behind a list whose groups stand together moves no other.
LEMMA AddingKeepsOrder ==
  ASSUME NEW q, IsQueue(q), Grouped(q), NEW t \in Task, t.id \notin IdsOf(q),
         NEW stay \in SUBSET IdsOf(q)
  PROVE  SameOrder(q, GroupedOrder(Append(q, t)), stay)
<1>1. PICK r : r = Append(q, t)
  OBVIOUS
<1>2. /\ IsQueue(r) /\ r \in Seq(Task) /\ Distinct(r) /\ q \in Seq(Task) /\ Distinct(q)
      /\ Len(q) \in Nat /\ Len(r) = Len(q) + 1 /\ \A i \in 1..Len(q) : r[i] = q[i]
  <2>1. IsQueue(r) /\ Len(r) = Len(q) + 1 /\ \A i \in 1..Len(q) : r[i] = q[i]
    BY <1>1, Appended
  <2>2. q \in Seq(Task) /\ Distinct(q) /\ r \in Seq(Task) /\ Distinct(r)
    BY <2>1 DEF IsQueue
  <2> QED  BY <2>1, <2>2
<1> DEFINE rank == [i \in 1..Len(r) |-> StartOf(r, r[i].group)]
<1>3. rank \in [1..Len(r) -> Int]
  <2>1. \A i \in 1..Len(r) : r[i].group \in GroupsOf(r)
    BY <1>2 DEF GroupsOf
  <2>2. \A i \in 1..Len(r) : StartOf(r, r[i].group) \in 1..Len(r)
    BY <1>2, <2>1, StartFacts
  <2> QED  BY <2>2
<1>4. Len(q) \in 0..Len(r) /\ \A i \in 1..Len(q) : i \in 1..Len(r)
  BY <1>2
<1>5. \A i, j, k \in 1..Len(q) : i < j /\ j < k /\ r[i].group = r[k].group => r[j].group = r[i].group
  BY <1>2 DEF Grouped
<1>6. \A i, j \in 1..Len(q) : i < j => StartOf(r, r[i].group) <= StartOf(r, r[j].group)
  <2>1. PICK m \in 0..Len(r) : m = Len(q)
    BY <1>4
  <2>2. /\ r \in Seq(Task)
        /\ \A i, j, k \in 1..m : i < j /\ j < k /\ r[i].group = r[k].group => r[j].group = r[i].group
    BY <1>2, <1>5, <2>1
  <2>3. \A i, j \in 1..m : i < j => StartOf(r, r[i].group) <= StartOf(r, r[j].group)
    BY <2>2, StartsInOrder
  <2> QED  BY <2>1, <2>3
<1>7. \A i, j \in 1..Len(q) : i < j => rank[i] <= rank[j]
  BY <1>4, <1>6
<1>8. GroupedOrder(r) = ByRank(r, rank)
  BY <1>2 DEF GroupedOrder
<1> HIDE DEF rank
<1>9. Len(q) <= Len(r)
  BY <1>2
<1>10. SameOrder(q, ByRank(r, rank), stay)
  BY <1>2, <1>3, <1>7, <1>9, SortKeepsOrder
<1> QED  BY <1>1, <1>8, <1>10

\* moveTask.
LEMMA Moved ==
  ASSUME NEW q, IsQueue(q), NEW id \in IdsOf(q), NEW group \in AnyGroup, NEW to \in Int
  PROVE  /\ IsQueue(MovedTo(q, id, group, to)) /\ Grouped(MovedTo(q, id, group, to))
         /\ IdsOf(MovedTo(q, id, group, to)) = IdsOf(q)
<1>1. PICK r, t, at : /\ r = RemoveAt(q, IndexOf(q, id)) /\ t = [q[IndexOf(q, id)] EXCEPT !.group = group]
                      /\ at = IF to < 1 THEN 1 ELSE IF to > Len(q) THEN Len(q) ELSE to
  OBVIOUS
<1>2. q \in Seq(Task) /\ Distinct(q) /\ Len(q) \in Nat
  BY DEF IsQueue
<1>3. IndexOf(q, id) \in 1..Len(q) /\ q[IndexOf(q, id)] \in Task /\ q[IndexOf(q, id)].id = id
  BY <1>2, IndexFacts
<1>4. t \in Task /\ t.id = id
  <2>1. PICK u : u = q[IndexOf(q, id)]
    OBVIOUS
  <2>2. u \in Task /\ u.id = id /\ t = [u EXCEPT !.group = group]
    BY <1>1, <1>3, <2>1
  <2> QED  BY <2>2 DEF Task
<1>5. IsQueue(r) /\ IdsOf(r) = IdsOf(q) \ {id} /\ Len(r) = Len(q) - 1
  BY <1>1, Removed
<1>6. at \in 1..Len(r) + 1
  BY <1>1, <1>2, <1>3, <1>5
<1>7. PICK s : s = InsertAt(r, at, t)
  OBVIOUS
<1>8. IsQueue(s) /\ IdsOf(s) = IdsOf(r) \union {t.id}
  BY <1>4, <1>5, <1>6, <1>7, Inserted
<1>9. MovedTo(q, id, group, to) = GroupedOrder(s)
  BY <1>1, <1>7 DEF MovedTo
<1>10. IdsOf(s) = IdsOf(q)
  BY <1>4, <1>5, <1>8
<1> QED  BY <1>8, <1>9, <1>10, OrderRestored

\* replace a task.
LEMMA ReplacedTask ==
  ASSUME NEW q, IsQueue(q), NEW t \in Task, t.id \in IdsOf(q),
         NEW r, r = ReplaceAt(q, IndexOf(q, t.id), t)
  PROVE  IsQueue(r) /\ IdsOf(r) = IdsOf(q)
<1>1. PICK k : k = IndexOf(q, t.id)
  OBVIOUS
<1>2. q \in Seq(Task) /\ Distinct(q) /\ Len(q) \in Nat
  BY DEF IsQueue
<1>3. k \in 1..Len(q) /\ q[k].id = t.id
  BY <1>1, <1>2, IndexFacts
<1>4. r = [q EXCEPT ![k] = t]
  BY <1>1 DEF ReplaceAt
<1>5. r \in Seq(Task) /\ Len(r) = Len(q)
  BY <1>2, <1>3, <1>4
<1>6. \A i \in 1..Len(q) : r[i].id = q[i].id
  BY <1>2, <1>3, <1>4
<1> QED  BY <1>5, <1>6, SameTasks

LEMMA ByRankFacts ==
  ASSUME NEW q, IsQueue(q), NEW rank \in [1..Len(q) -> Int],
         \A i, j, k \in 1..Len(q) :
            rank[i] <= rank[j] /\ rank[j] <= rank[k] /\ q[i].group = q[k].group
            => q[j].group = q[i].group
  PROVE  IsQueue(ByRank(q, rank)) /\ IdsOf(ByRank(q, rank)) = IdsOf(q) /\ Grouped(ByRank(q, rank))
<1>1. q \in Seq(Task) /\ Distinct(q)
  BY DEF IsQueue
<1>2. IsQueue(ByRank(q, rank)) /\ IdsOf(ByRank(q, rank)) = IdsOf(q)
  BY <1>1, SortKeeps DEF IsQueue
<1>3. Grouped(ByRank(q, rank))
  BY <1>1, SortGroups
<1> QED  BY <1>2, <1>3

\* MoveGroup.
LEMMA BlockIsMoved ==
  ASSUME NEW q, IsQueue(q), NEW name \in GroupsOf(q),
         NEW before \in {{}} \union {{g} : g \in GroupsOf(q) \ {name}}
  PROVE  /\ IsQueue(BlockMoved(q, name, before)) /\ Grouped(BlockMoved(q, name, before))
         /\ IdsOf(BlockMoved(q, name, before)) = IdsOf(q)
<1>1. PICK n, there : /\ n = Len(q)
                      /\ there = IF before = {} THEN 2 * Len(q) + 1
                                 ELSE 2 * StartOf(q, CHOOSE g \in before : TRUE) - 1
  OBVIOUS
<1>2. q \in Seq(Task) /\ n \in Nat /\ DOMAIN q = 1..n /\ \A i \in 1..n : q[i].group \in GroupsOf(q)
  BY <1>1 DEF IsQueue, GroupsOf
<1>3. PICK first \in [1..n -> 1..n] :
        \A i \in 1..n : first[i] = StartOf(q, q[i].group) /\ q[first[i]].group = q[i].group
  <2>1. \A i \in 1..n : /\ StartOf(q, q[i].group) \in 1..n
                        /\ q[StartOf(q, q[i].group)].group = q[i].group
    BY <1>1, <1>2, StartFacts
  <2>2. [i \in 1..n |-> StartOf(q, q[i].group)] \in [1..n -> 1..n]
    BY <2>1
  <2> QED  BY <2>1, <2>2
<1>4. PICK m \in Int : there = 2 * m + 1
  <2>1. CASE before = {}
    BY <1>1, <1>2, <2>1
  <2>2. CASE before # {}
    <3>1. PICK g \in GroupsOf(q) : before = {g}
      BY <2>2
    <3>2. StartOf(q, g) \in 1..n
      BY <1>1, <1>2, StartFacts
    <3>3. PICK k \in Nat : k = StartOf(q, g)
      BY <1>2, <3>2
    <3>4. (CHOOSE x \in before : TRUE) = g
      BY <3>1
    <3>5. there = 2 * k - 1
      BY <1>1, <2>2, <3>3, <3>4
    <3>6. there = 2 * (k - 1) + 1 /\ k - 1 \in Int
      BY <3>5
    <3> QED  BY <3>6
  <2> QED  BY <2>1, <2>2
<1> DEFINE rank == [i \in 1..n |-> IF q[i].group = name THEN there ELSE 2 * first[i]]
<1>5. BlockMoved(q, name, before) = ByRank(q, rank)
  BY <1>1, <1>2, <1>3 DEF BlockMoved
<1>6. rank \in [1..n -> Int]
  BY <1>2, <1>3, <1>4
<1>7. ASSUME NEW i \in 1..n, NEW j \in 1..n, NEW k \in 1..n,
             rank[i] <= rank[j], rank[j] <= rank[k], q[i].group = q[k].group
      PROVE  q[j].group = q[i].group
  <2>1. first[i] = first[k]
    BY <1>3, <1>7
  <2>2. rank[i] = rank[k]
    BY <1>7, <2>1
  <2>3. rank[j] = rank[i]
    <3> HIDE DEF rank
    <3>1. rank[i] \in Int /\ rank[j] \in Int /\ rank[k] \in Int
      BY <1>6
    <3> QED  BY <1>7, <2>2, <3>1
  <2>4. first[i] \in 1..n /\ first[j] \in 1..n
    BY <1>3
  <2>5. (q[i].group = name) <=> (q[j].group = name)
    BY <1>4, <2>3, <2>4
  <2>6. q[i].group # name => first[i] = first[j]
    BY <2>3, <2>4, <2>5
  <2> QED  BY <1>3, <2>5, <2>6
<1> HIDE DEF rank
<1> QED  BY <1>1, <1>5, <1>6, <1>7, ByRankFacts

\* RenameGroup: the tasks that do not change their group keep their order.
LEMMA GroupIsRenamed ==
  ASSUME NEW q, IsQueue(q), NEW from \in GroupsOf(q), NEW to \in AnyGroup, from # to,
         NEW r, r = Renamed(q, from, to)
  PROVE  /\ IsQueue(r) /\ Grouped(r) /\ IdsOf(r) = IdsOf(q)
         /\ Grouped(q) => SameOrder(q, r, Stay(q, r))
<1>1. PICK n, s, there : /\ n = Len(q) /\ s = Regrouped(q, from, to)
                         /\ there = StartOf(q, to)
  OBVIOUS
<1>2. /\ q \in Seq(Task) /\ n \in Nat /\ DOMAIN q = 1..n
      /\ \A i \in 1..n : q[i] \in Task /\ q[i].group \in GroupsOf(q)
  BY <1>1 DEF IsQueue, GroupsOf
<1>3. PICK first \in [1..n -> 1..n] :
        \A i \in 1..n : first[i] = StartOf(q, q[i].group) /\ q[first[i]].group = q[i].group
  <2>1. \A i \in 1..n : /\ StartOf(q, q[i].group) \in 1..n
                        /\ q[StartOf(q, q[i].group)].group = q[i].group
    BY <1>1, <1>2, StartFacts
  <2>2. [i \in 1..n |-> StartOf(q, q[i].group)] \in [1..n -> 1..n]
    BY <2>1
  <2> QED  BY <2>1, <2>2
<1>4. /\ s \in Seq(Task) /\ Len(s) = n
      /\ \A i \in 1..n : /\ s[i].id = q[i].id
                         /\ s[i].group = IF q[i].group = from THEN to ELSE q[i].group
  <2>1. ASSUME NEW i \in 1..n
        PROVE  /\ s[i] \in Task /\ s[i].id = q[i].id
               /\ s[i].group = IF q[i].group = from THEN to ELSE q[i].group
    <3>1. PICK u \in Task : u = q[i]
      BY <1>2
    <3>2. s[i] = IF u.group = from THEN [u EXCEPT !.group = to] ELSE u
      BY <1>1, <1>2, <3>1 DEF Regrouped
    <3>3. /\ [u EXCEPT !.group = to] \in Task /\ [u EXCEPT !.group = to].id = u.id
          /\ [u EXCEPT !.group = to].group = to
      BY DEF Task
    <3> QED  BY <3>1, <3>2, <3>3
  <2>2. s = [i \in 1..n |-> s[i]]
    BY <1>1, <1>2 DEF Regrouped
  <2>3. s \in [1..n -> Task]
    BY <2>1, <2>2
  <2>4. s \in Seq(Task) /\ Len(s) = n
    BY <1>2, <2>3
  <2> QED  BY <2>1, <2>4
<1>5. IsQueue(s) /\ IdsOf(s) = IdsOf(q)
  BY <1>1, <1>4, SameTasks
<1>6. to \in GroupsOf(q) => there \in 1..n /\ q[there].group = to
  BY <1>1, <1>2, StartFacts
<1> DEFINE rank == [i \in 1..n |-> IF q[i].group = from /\ to \in GroupsOf(q) THEN 2 * there + 1
                                   ELSE 2 * first[i]]
<1>7. r = ByRank(s, rank)
  BY <1>1, <1>2, <1>3 DEF Renamed
<1>8. rank \in [1..n -> Int]
  BY <1>2, <1>3, <1>6
<1>9. ASSUME NEW i \in 1..n, NEW j \in 1..n, NEW k \in 1..n,
             rank[i] <= rank[j], rank[j] <= rank[k], s[i].group = s[k].group
      PROVE  s[j].group = s[i].group
  <2>1. /\ first[i] \in 1..n /\ first[j] \in 1..n /\ first[k] \in 1..n
        /\ rank[i] \in Int /\ rank[j] \in Int /\ rank[k] \in Int
    BY <1>3, <1>8
  <2>2. CASE to \notin GroupsOf(q)
    <3>1. \A l \in 1..n : rank[l] = 2 * first[l] /\ q[l].group # to
      BY <1>2, <2>2
    <3>2. q[i].group = q[k].group
      BY <1>4, <1>9, <3>1
    <3>3. first[i] = first[k]
      BY <1>3, <3>2
    <3>4. first[j] = first[i]
      <4>1. rank[i] = 2 * first[i] /\ rank[j] = 2 * first[j] /\ rank[k] = 2 * first[i]
        BY <3>1, <3>3
      <4> HIDE DEF rank
      <4> QED  BY <1>9, <2>1, <4>1
    <3> QED  BY <1>3, <1>4, <3>4
  <2>3. CASE to \in GroupsOf(q) /\ s[i].group = to
    <3>1. \A l \in 1..n : q[l].group = to => first[l] = there
      BY <1>1, <1>3
    <3>2. there \in 1..n
      BY <1>6, <2>3
    <3>3. 2 * there <= rank[i] /\ rank[k] <= 2 * there + 1
      <4>1. ASSUME NEW l \in 1..n, s[l].group = to
            PROVE  rank[l] = 2 * there \/ rank[l] = 2 * there + 1
        <5>1. q[l].group = from \/ q[l].group = to
          BY <1>4, <4>1
        <5> QED  BY <2>3, <3>1, <5>1
      <4>2. s[k].group = to
        BY <1>9, <2>3
      <4> HIDE DEF rank
      <4>3. /\ rank[i] = 2 * there \/ rank[i] = 2 * there + 1
            /\ rank[k] = 2 * there \/ rank[k] = 2 * there + 1
        BY <2>3, <4>1, <4>2
      <4> QED  BY <3>2, <4>3
    <3>4. rank[j] = 2 * there \/ rank[j] = 2 * there + 1
      <4> HIDE DEF rank
      <4>1. PICK a \in Int, b \in Int, c \in Int : a = rank[i] /\ b = rank[j] /\ c = rank[k]
        BY <2>1
      <4>2. a <= b /\ b <= c /\ 2 * there <= a /\ c <= 2 * there + 1 /\ there \in Int
        BY <1>9, <3>2, <3>3, <4>1
      <4>3. b = 2 * there \/ b = 2 * there + 1
        BY <4>2
      <4> QED  BY <4>1, <4>3
    <3>5. q[j].group # from => first[j] = there
      BY <2>1, <3>2, <3>4
    <3> QED  BY <1>3, <1>4, <1>6, <2>3, <3>5
  <2>4. CASE to \in GroupsOf(q) /\ s[i].group # to
    <3>1. q[i].group # from /\ q[k].group # from /\ q[i].group = q[k].group
      BY <1>4, <1>9, <2>4
    <3>2. first[i] = first[k]
      BY <1>3, <3>1
    <3>3. rank[i] = 2 * first[i] /\ rank[k] = 2 * first[i]
      BY <3>1, <3>2
    <3>4. rank[j] = 2 * first[i]
      BY <1>9, <2>1, <3>3
    <3>5. q[j].group # from /\ first[j] = first[i]
      BY <1>6, <2>1, <2>4, <3>4
    <3> QED  BY <1>3, <1>4, <3>1, <3>5
  <2> QED  BY <2>2, <2>3, <2>4
<1>10. ASSUME Grouped(q) PROVE SameOrder(q, r, Stay(q, r))
  <2>1. PICK stay : stay = Stay(q, r)
    OBVIOUS
  <2>2. stay \in SUBSET IdsOf(q)
    BY <2>1 DEF Stay
  <2> HIDE DEF rank
  <2>3. ASSUME NEW i \in 1..n, q[i].id \in stay PROVE q[i].group # from
    <3>1. PICK at : Sorts(at, s, rank, r)
      BY <1>2, <1>4, <1>7, <1>8, ByRankSorts
    <3>2. PICK k \in 1..n : at[k] = i
      BY <1>4, <3>1 DEF Sorts
    <3>3. r[k] = s[i] /\ k \in 1..Len(r)
      BY <1>4, <3>1, <3>2 DEF Sorts
    <3>4. TaskOf(q, q[i].id) = q[i] /\ TaskOf(r, s[i].id) = s[i]
      <4>1. IndexOf(q, q[i].id) = i
        BY <1>1, IndexFacts DEF IsQueue
      <4>2. r \in Seq(Task) /\ Distinct(r)
        BY <1>4, <1>5, <1>7, <1>8, SortKeeps DEF IsQueue
      <4>3. IndexOf(r, r[k].id) = k
        BY <3>3, <4>2, IndexFacts
      <4> QED  BY <3>3, <4>1, <4>3 DEF TaskOf
    <3>5. q[i].group = s[i].group
      BY <1>4, <2>1, <2>3, <3>4 DEF Stay
    <3> QED  BY <1>4, <3>5
  <2>4. ASSUME NEW i \in 1..n, NEW j \in 1..n, q[i].id \in stay, q[j].id \in stay, i < j
        PROVE  rank[i] <= rank[j]
    <3>1. n \in 0..Len(q)
      BY <1>1, <1>2
    <3>2. \A a, b, c \in 1..n : a < b /\ b < c /\ q[a].group = q[c].group => q[b].group = q[a].group
      BY <1>2, <1>10 DEF Grouped
    <3>3. StartOf(q, q[i].group) <= StartOf(q, q[j].group)
      <4>1. PICK m \in 0..Len(q) : m = n
        BY <3>1
      <4>2. q \in Seq(Task) /\ i \in 1..m /\ j \in 1..m /\ i < j
        BY <1>2, <2>4, <4>1
      <4>3. \A a, b, c \in 1..m : a < b /\ b < c /\ q[a].group = q[c].group => q[b].group = q[a].group
        BY <3>2, <4>1
      <4> QED  BY <4>2, <4>3, StartsInOrder
    <3>4. first[i] <= first[j] /\ first[i] \in 1..n /\ first[j] \in 1..n
      BY <1>3, <3>3
    <3>5. q[i].group # from /\ q[j].group # from
      BY <2>3, <2>4
    <3>6. rank[i] = 2 * first[i] /\ rank[j] = 2 * first[j]
      BY <3>5 DEF rank
    <3> QED  BY <3>4, <3>6
  <2>5. /\ s \in Seq(Task) /\ Distinct(s) /\ Len(s) = n /\ Len(q) = n /\ n <= n
        /\ Distinct(q) /\ \A i \in 1..n : q[i].id = s[i].id
    BY <1>1, <1>2, <1>4, <1>5 DEF IsQueue
  <2>6. SameOrder(q, ByRank(s, rank), stay)
    BY <1>2, <1>8, <2>2, <2>4, <2>5, SortKeepsOrder
  <2> QED  BY <1>7, <2>1, <2>6
<1> HIDE DEF rank
<1> QED  BY <1>4, <1>5, <1>7, <1>8, <1>9, <1>10, ByRankFacts

\* Where the tasks stand at the places they stood at, they keep their order.
LEMMA PlacesKept ==
  ASSUME NEW q, IsQueue(q), NEW r, IsQueue(r), Len(q) <= Len(r),
         \A i \in 1..Len(q) : r[i].id = q[i].id,
         NEW stay \in SUBSET IdsOf(q)
  PROVE  SameOrder(q, r, stay)
<1>1. /\ q \in Seq(Task) /\ Distinct(q) /\ r \in Seq(Task) /\ Distinct(r)
      /\ Len(q) \in Nat /\ Len(r) \in Nat
  BY DEF IsQueue
<1>2. ASSUME NEW x \in IdsOf(q) PROVE IndexOf(r, x) = IndexOf(q, x)
  <2>1. PICK i : i = IndexOf(q, x)
    OBVIOUS
  <2>2. i \in 1..Len(q) /\ q[i].id = x
    BY <1>1, <2>1, IndexFacts
  <2>3. i \in 1..Len(r) /\ r[i].id = x
    BY <1>1, <2>2
  <2> QED  BY <1>1, <2>1, <2>3, IndexFacts
<1> QED  BY <1>2 DEF SameOrder

LEMMA ReplacedFacts ==
  ASSUME IsQueue(tasks), NEW t \in Task, t.id \in IdsOf(tasks)
  PROVE  IsQueue(Replaced(t)) /\ Grouped(Replaced(t)) /\ IdsOf(Replaced(t)) = IdsOf(tasks)
<1>1. PICK r : r = ReplaceAt(tasks, IndexOf(tasks, t.id), t)
  OBVIOUS
<1>2. IsQueue(r) /\ IdsOf(r) = IdsOf(tasks)
  BY <1>1, ReplacedTask
<1>3. Replaced(t) = GroupedOrder(r)
  BY <1>1 DEF Replaced
<1> QED  BY <1>2, <1>3, OrderRestored

LEMMA EditsAreTasks ==
  ASSUME NEW t \in Task, NEW u \in Edits(t)
  PROVE  u \in Task /\ u.id = t.id
  BY DEF Edits, Task

LEMMA StoredTask ==
  ASSUME IsQueue(tasks), NEW id \in IdsOf(tasks)
  PROVE  TaskOf(tasks, id) \in Task /\ TaskOf(tasks, id).id = id
  BY IndexFacts DEF IsQueue

-----------------------------------------------------------------------------
\* What a client has in its hands while others change the queue.
Holding(op, free) ==
  /\ op.pc \in {"editor", "form", "put"} => op.task \in Task
  /\ op.pc = "add" => op \in [pc : {"add"}, task : Task, retries : BOOLEAN]
  /\ op.pc = "save" => IsQueue(op.tasks) /\ (~free => Grouped(op.tasks))

TasksInv == IsQueue(tasks) /\ (~imported => Grouped(tasks))
HandsInv == DOMAIN ops = Clients /\ \A c \in Clients : Holding(ops[c], imported)
ListInv  == TasksInv /\ QueueIsOwed
QueueInv == ListInv /\ (section = "queue" => HandsInv)

LEMMA InitQueue == Init => QueueInv
<1> SUFFICES ASSUME Init PROVE QueueInv
  OBVIOUS
<1>1. /\ tasks \in InitialQueues /\ owed = IdsOf(tasks) /\ lost = {} /\ back = {}
      /\ ops = [c \in Clients |-> Idle]
  BY DEF Init, QueueInit
<1>2. TasksInv
  BY <1>1, InitialQueuesAssumption DEF TasksInv, IsQueue
<1>3. HandsInv
  BY <1>1 DEF HandsInv, Holding, Idle
<1> QED  BY <1>1, <1>2, <1>3 DEF QueueInv, ListInv, QueueIsOwed

\* The list is put in another order, or its tasks are changed, and all stay.
LEMMA Rearranged ==
  ASSUME ListInv, IsQueue(tasks'), imported' \/ Grouped(tasks'), IdsOf(tasks') = IdsOf(tasks),
         UNCHANGED <<owed, lost, back>>
  PROVE  ListInv'
  BY DEF ListInv, TasksInv, QueueIsOwed

LEMMA ListStays ==
  ASSUME ListInv, UNCHANGED <<tasks, ghosts>>
  PROVE  ListInv'
  BY DEF ListInv, TasksInv, QueueIsOwed, ghosts

\* One client goes on, and nobody else notices.
LEMMA HandsKept ==
  ASSUME HandsInv, NEW c \in Clients, NEW op, ops' = [ops EXCEPT ![c] = op],
         Holding(op, imported), imported' = imported
  PROVE  HandsInv'
<1>1. DOMAIN ops' = Clients /\ \A d \in Clients : ops'[d] = IF d = c THEN op ELSE ops[d]
  BY DEF HandsInv
<1>2. \A d \in Clients : Holding(ops'[d], imported)
  BY <1>1 DEF HandsInv
<1> QED  BY <1>1, <1>2 DEF HandsInv

LEMMA HandsStay ==
  ASSUME HandsInv, ops' = ops, imported => imported'
  PROVE  HandsInv'
  BY DEF HandsInv, Holding

LEMMA NothingInHand ==
  ASSUME NEW op, op.pc \notin {"editor", "form", "put", "add", "save"}, NEW free
  PROVE  Holding(op, free)
  BY DEF Holding

LEMMA CheckedStep ==
  ASSUME ListInv, HandsInv, NEW c \in Clients, NEW t \in Task, NEW retries \in BOOLEAN,
         Checked(c, t, retries)
  PROVE  ListInv' /\ HandsInv'
<1>1. ListInv'
  BY ListStays DEF Checked
<1>2. PICK op : op = IF \A d \in t.deps : CanBeWaitedFor(d)
                     THEN [pc |-> "add", task |-> t, retries |-> retries] ELSE Idle
  OBVIOUS
<1>3. Holding(op, imported)
  BY <1>2 DEF Holding, Idle
<1>4. ops' = [ops EXCEPT ![c] = op] /\ imported' = imported
  BY <1>2 DEF Checked, Goto, ghosts
<1> QED  BY <1>1, <1>3, <1>4, HandsKept

LEMMA NewTasksAreTasks ==
  ASSUME NEW id \in Ids, NEW group \in AnyGroup
  PROVE  /\ \A deps \in Waits(id) : NewTask(id, group, deps) \in Task
         /\ NewTask(id, group, {}) \in Task
  BY DEF NewTask, Waits, Task

LEMMA AddBegins ==
  ASSUME ListInv, HandsInv, NEW c \in Clients, NEW id \in Ids,
         AddCommand(c, id) \/ AddRequest(c, id) \/ QueueCommand(c, id)
  PROVE  ListInv' /\ HandsInv'
<1>1. PICK t \in Task, retries \in BOOLEAN : Checked(c, t, retries)
  <2>1. CASE AddCommand(c, id)
    BY <2>1, NewTasksAreTasks DEF AddCommand
  <2>2. CASE AddRequest(c, id)
    BY <2>2, NewTasksAreTasks DEF AddRequest
  <2>3. CASE QueueCommand(c, id)
    <3>1. FollowUp(id) \subseteq Task
      BY NewTasksAreTasks DEF FollowUp
    <3> QED  BY <2>3, <3>1 DEF QueueCommand
  <2> QED  BY <2>1, <2>2, <2>3
<1> QED  BY <1>1, CheckedStep

LEMMA AddWriteStep ==
  ASSUME ListInv, HandsInv, NEW c \in Clients, AddWrite(c)
  PROVE  ListInv' /\ HandsInv'
<1>1. PICK op : op = ops[c]
  OBVIOUS
<1>2. op \in [pc : {"add"}, task : Task, retries : BOOLEAN]
  BY <1>1 DEF HandsInv, Holding, AddWrite, At
<1>3. PICK t \in Task : t = op.task
  BY <1>2
<1>4. CASE t.id \in IdsOf(tasks)
  <2>1. UNCHANGED <<tasks, ghosts>>
    BY <1>1, <1>3, <1>4 DEF AddWrite
  <2>2. PICK id \in Ids : Goto(c, [ops[c] EXCEPT !.task.id = id]) \/ Goto(c, Idle)
    <3>1. t.id \in Ids
      BY DEF Task
    <3> QED  BY <1>1, <1>3, <1>4, <3>1 DEF AddWrite
  <2>3. CASE Goto(c, Idle)
    <3>1. Holding(Idle, imported)
      BY DEF Holding, Idle
    <3> QED  BY <2>1, <2>3, <3>1, ListStays, HandsKept DEF Goto, ghosts
  <2>4. CASE Goto(c, [ops[c] EXCEPT !.task.id = id])
    <3>1. PICK o : o = [op EXCEPT !.task.id = id]
      OBVIOUS
    <3>2. o \in [pc : {"add"}, task : Task, retries : BOOLEAN]
      <4>1. [t EXCEPT !.id = id] \in Task
        BY DEF Task
      <4>2. o = [op EXCEPT !.task = [t EXCEPT !.id = id]]
        BY <1>2, <1>3, <3>1
      <4> QED  BY <1>2, <4>1, <4>2
    <3>3. Holding(o, imported)
      BY <3>2 DEF Holding
    <3>4. ops' = [ops EXCEPT ![c] = o] /\ imported' = imported
      BY <1>1, <2>1, <2>4, <3>1 DEF Goto, ghosts
    <3> QED  BY <2>1, <3>3, <3>4, ListStays, HandsKept
  <2> QED  BY <2>2, <2>3, <2>4
<1>5. CASE t.id \notin IdsOf(tasks)
  <2>1. /\ tasks' = GroupedOrder(Append(tasks, t)) /\ owed' = owed \union {t.id}
        /\ Goto(c, Idle) /\ UNCHANGED <<lost, back, imported>>
    BY <1>1, <1>3, <1>5 DEF AddWrite, Queued
  <2>2. IsQueue(tasks) /\ QueueIsOwed
    BY DEF ListInv, TasksInv
  <2>3. IsQueue(Append(tasks, t)) /\ IdsOf(Append(tasks, t)) = IdsOf(tasks) \union {t.id}
    BY <1>5, <2>2, Appended
  <2>4. IsQueue(tasks') /\ Grouped(tasks') /\ IdsOf(tasks') = IdsOf(tasks) \union {t.id}
    BY <2>1, <2>3, OrderRestored
  <2>5. ListInv'
    BY <2>1, <2>2, <2>4 DEF ListInv, TasksInv, QueueIsOwed
  <2>6. Holding(Idle, imported)
    BY DEF Holding, Idle
  <2> QED  BY <2>1, <2>5, <2>6, HandsKept DEF Goto
<1> QED  BY <1>4, <1>5

LEMMA ImportStep ==
  ASSUME ListInv, HandsInv, NEW file \in Files, ImportTask(file)
  PROVE  ListInv' /\ HandsInv'
<1>1. PICK id \in UniqueId(tasks, file.id) :
        /\ tasks' = Append(tasks, [file EXCEPT !.id = id]) /\ owed' = owed \union {id}
  BY DEF ImportTask, Queued
<1>2. imported' = TRUE /\ UNCHANGED <<ops, lost, back>>
  BY DEF ImportTask
<1>3. file \in Task
  BY InitialQueuesAssumption
<1>4. id \in Ids /\ id \notin IdsOf(tasks)
  <2>1. file.id \in Ids
    BY <1>3 DEF Task
  <2>2. id \in UniqueId(tasks, file.id)
    OBVIOUS
  <2> QED  BY <2>1, <2>2 DEF UniqueId
<1>5. PICK t \in Task : t = [file EXCEPT !.id = id] /\ t.id = id
  <2>1. [file EXCEPT !.id = id] \in Task /\ [file EXCEPT !.id = id].id = id
    BY <1>3, <1>4 DEF Task
  <2> QED  BY <2>1
<1>6. IsQueue(tasks') /\ IdsOf(tasks') = IdsOf(tasks) \union {id}
  <2>1. IsQueue(tasks) /\ t.id \notin IdsOf(tasks)
    BY <1>4, <1>5 DEF ListInv, TasksInv
  <2>2. IsQueue(Append(tasks, t)) /\ IdsOf(Append(tasks, t)) = IdsOf(tasks) \union {t.id}
    BY <2>1, Appended
  <2> QED  BY <1>1, <1>5, <2>2
<1>7. ListInv'
  BY <1>1, <1>2, <1>6 DEF ListInv, TasksInv, QueueIsOwed
<1>8. HandsInv'
  BY <1>2, HandsStay
<1> QED  BY <1>7, <1>8

LEMMA EditedStep ==
  ASSUME ListInv, HandsInv, NEW c \in Clients, NEW t \in Task, t.id \in IdsOf(tasks),
         tasks' = Replaced(t), Goto(c, PruneNext), UNCHANGED ghosts
  PROVE  ListInv' /\ HandsInv'
<1>1. IsQueue(tasks') /\ Grouped(tasks') /\ IdsOf(tasks') = IdsOf(tasks)
  BY ReplacedFacts DEF ListInv, TasksInv
<1>2. Holding(PruneNext, imported)
  BY DEF Holding, PruneNext
<1> QED  BY <1>1, <1>2, Rearranged, HandsKept DEF Goto, ghosts

LEMMA EditSteps ==
  ASSUME ListInv, HandsInv, NEW c \in Clients, NEW id \in Ids,
         EditFlags(c, id) \/ EditorOpen(c, id) \/ FormOpen(c, id)
  PROVE  ListInv' /\ HandsInv'
<1>1. IsQueue(tasks) /\ (id \in IdsOf(tasks) => TaskOf(tasks, id) \in Task /\ TaskOf(tasks, id).id = id)
  BY StoredTask DEF ListInv, TasksInv
<1>2. CASE EditFlags(c, id)
  <2>1. PICK t \in Edits(TaskOf(tasks, id)) : tasks' = Replaced(t)
    BY <1>2 DEF EditFlags
  <2>2. t \in Task /\ t.id \in IdsOf(tasks)
    BY <1>1, <1>2, EditsAreTasks DEF EditFlags
  <2>3. Goto(c, PruneNext) /\ UNCHANGED ghosts
    BY <1>2 DEF EditFlags, ghosts
  <2> QED  BY <2>1, <2>2, <2>3, EditedStep
<1>3. CASE EditorOpen(c, id) \/ FormOpen(c, id)
  <2>1. PICK pc \in {"editor", "form"} : Goto(c, [pc |-> pc, task |-> TaskOf(tasks, id)])
    BY <1>3 DEF EditorOpen, FormOpen
  <2>2. id \in IdsOf(tasks) /\ UNCHANGED <<tasks, ghosts>>
    BY <1>3 DEF EditorOpen, FormOpen
  <2>3. PICK op : op = [pc |-> pc, task |-> TaskOf(tasks, id)]
    OBVIOUS
  <2>4. Holding(op, imported)
    BY <1>1, <2>2, <2>3 DEF Holding
  <2> QED  BY <2>1, <2>2, <2>3, <2>4, ListStays, HandsKept DEF Goto, ghosts
<1> QED  BY <1>2, <1>3

LEMMA EditorSaveStep ==
  ASSUME ListInv, HandsInv, NEW c \in Clients, EditorSave(c)
  PROVE  ListInv' /\ HandsInv'
<1>1. PICK orig : orig = ops[c].task
  OBVIOUS
<1>2. orig \in Task
  BY <1>1 DEF HandsInv, Holding, EditorSave, At
<1>3. UNCHANGED ghosts
  BY DEF EditorSave
<1>4. CASE orig.id \in IdsOf(tasks) /\ Document(TaskOf(tasks, orig.id)) = Document(orig)
  <2>1. PICK t \in Edits(orig) : tasks' = Replaced(Decoded(t))
    BY <1>1, <1>4 DEF EditorSave
  <2>2. t \in Task /\ t.id = orig.id
    BY <1>2, EditsAreTasks
  <2>3. PICK u : u = Decoded(t)
    OBVIOUS
  <2>4. u \in Task /\ u.id = t.id
    BY <2>2, <2>3 DEF Decoded, Task
  <2>5. Goto(c, PruneNext) /\ tasks' = Replaced(u) /\ u.id \in IdsOf(tasks)
    BY <1>1, <1>4, <2>1, <2>2, <2>3, <2>4 DEF EditorSave
  <2> QED  BY <1>3, <2>4, <2>5, EditedStep
<1>5. CASE ~(orig.id \in IdsOf(tasks) /\ Document(TaskOf(tasks, orig.id)) = Document(orig))
  <2>1. Goto(c, Idle) /\ UNCHANGED tasks
    BY <1>1, <1>5 DEF EditorSave
  <2>2. Holding(Idle, imported)
    BY DEF Holding, Idle
  <2> QED  BY <1>3, <2>1, <2>2, ListStays, HandsKept DEF Goto, ghosts
<1> QED  BY <1>4, <1>5

LEMMA FormSteps ==
  ASSUME ListInv, HandsInv, NEW c \in Clients, FormReceived(c) \/ FormWrite(c)
  PROVE  ListInv' /\ HandsInv'
<1>1. PICK t : t = ops[c].task
  OBVIOUS
<1>2. t \in Task
  BY <1>1 DEF HandsInv, Holding, FormReceived, FormWrite, At
<1>3. UNCHANGED ghosts
  BY DEF FormReceived, FormWrite
<1>4. CASE FormReceived(c)
  <2>1. PICK group : group = IF t.id \in IdsOf(tasks) THEN TaskOf(tasks, t.id).group ELSE NoGroup
    OBVIOUS
  <2>2. group \in AnyGroup
    <3>1. t.id \in IdsOf(tasks) => TaskOf(tasks, t.id) \in Task
      BY StoredTask DEF ListInv, TasksInv
    <3>2. \A u \in Task : u.group \in AnyGroup
      BY DEF Task
    <3>3. NoGroup \in AnyGroup
      BY DEF AnyGroup
    <3> QED  BY <2>1, <3>1, <3>2, <3>3
  <2>3. PICK op : op = [pc |-> "put", task |-> [t EXCEPT !.group = group]]
    OBVIOUS
  <2>4. [t EXCEPT !.group = group] \in Task
    BY <1>2, <2>2 DEF Task
  <2>5. Holding(op, imported)
    BY <2>3, <2>4 DEF Holding
  <2>6. Goto(c, op) /\ UNCHANGED tasks
    BY <1>1, <1>4, <2>1, <2>3 DEF FormReceived
  <2> QED  BY <1>3, <2>5, <2>6, ListStays, HandsKept DEF Goto, ghosts
<1>5. CASE FormWrite(c)
  <2>1. CASE t.id \in IdsOf(tasks)
    <3>1. tasks' = Replaced(t) /\ Goto(c, PruneNext)
      BY <1>1, <1>5, <2>1 DEF FormWrite
    <3> QED  BY <1>2, <1>3, <2>1, <3>1, EditedStep
  <2>2. CASE t.id \notin IdsOf(tasks)
    <3>1. UNCHANGED tasks /\ Goto(c, Idle)
      BY <1>1, <1>5, <2>2 DEF FormWrite
    <3>2. Holding(Idle, imported)
      BY DEF Holding, Idle
    <3> QED  BY <1>3, <3>1, <3>2, ListStays, HandsKept DEF Goto, ghosts
  <2> QED  BY <2>1, <2>2
<1> QED  BY <1>4, <1>5

\* The switch of a task.
LEMMA Switched ==
  ASSUME ListInv, NEW id \in Ids, SetEnabled(id)
  PROVE  /\ IsQueue(tasks') /\ IdsOf(tasks') = IdsOf(tasks) /\ (Grouped(tasks) => Grouped(tasks'))
         /\ Len(tasks') = Len(tasks) /\ \A i \in 1..Len(tasks) : tasks'[i].id = tasks[i].id
<1>1. PICK q, r, k : q = tasks /\ r = tasks' /\ k = IndexOf(tasks, id)
  OBVIOUS
<1>2. q \in Seq(Task) /\ IsQueue(q) /\ DOMAIN q = 1..Len(q) /\ Len(q) \in Nat
  BY <1>1 DEF ListInv, TasksInv, IsQueue
<1>3. k \in 1..Len(q)
  BY <1>1, <1>2, IndexFacts DEF SetEnabled, IsQueue
<1>4. r = [q EXCEPT ![k].on = ~@]
  BY <1>1 DEF SetEnabled
<1>5. PICK t \in Task, u \in Task : /\ t = q[k] /\ u = [t EXCEPT !.on = ~@]
                                    /\ u.id = t.id /\ u.group = t.group
  <2>1. PICK t \in Task : t = q[k]
    BY <1>2, <1>3
  <2>2. [t EXCEPT !.on = ~@] \in Task /\ [t EXCEPT !.on = ~@].id = t.id
        /\ [t EXCEPT !.on = ~@].group = t.group
    BY DEF Task
  <2> QED  BY <2>1, <2>2
<1>6. r = [q EXCEPT ![k] = u]
  BY <1>2, <1>3, <1>4, <1>5
<1>7. /\ r \in Seq(Task) /\ Len(r) = Len(q) /\ DOMAIN r = 1..Len(q)
      /\ \A i \in 1..Len(q) : r[i].id = q[i].id /\ r[i].group = q[i].group
  <2>1. r \in Seq(Task) /\ Len(r) = Len(q) /\ DOMAIN r = 1..Len(q)
    BY <1>2, <1>3, <1>6
  <2>2. \A i \in 1..Len(q) : r[i] = IF i = k THEN u ELSE q[i]
    BY <1>2, <1>6
  <2> QED  BY <1>3, <1>5, <2>1, <2>2
<1>8. IsQueue(r) /\ IdsOf(r) = IdsOf(q)
  BY <1>2, <1>7, SameTasks
<1>9. Grouped(q) => Grouped(r)
  BY <1>2, <1>7 DEF Grouped
<1> QED  BY <1>1, <1>7, <1>8, <1>9

LEMMA RemoveStep ==
  ASSUME ListInv, HandsInv, NEW c \in Clients, NEW id \in Ids, RemoveTask(c, id)
  PROVE  ListInv' /\ HandsInv'
<1>1. /\ id \in IdsOf(tasks) /\ tasks' = RemoveAt(tasks, IndexOf(tasks, id))
      /\ owed' = owed \ {id} /\ UNCHANGED <<lost, back, imported>> /\ Goto(c, PruneNext)
  BY DEF RemoveTask, Unqueued
<1>2. /\ IsQueue(tasks') /\ IdsOf(tasks') = IdsOf(tasks) \ {id}
      /\ Grouped(tasks) => Grouped(tasks')
  BY <1>1, Removed DEF ListInv, TasksInv
<1>3. ListInv'
  BY <1>1, <1>2 DEF ListInv, TasksInv, QueueIsOwed
<1>4. Holding(PruneNext, imported)
  BY DEF Holding, PruneNext
<1> QED  BY <1>1, <1>3, <1>4, HandsKept DEF Goto

LEMMA RetireStep ==
  ASSUME ListInv, HandsInv, NEW id \in Ids, DaemonRetires(id)
  PROVE  ListInv' /\ HandsInv'
<1>1. UNCHANGED <<lost, back, imported, ops>>
  BY DEF DaemonRetires
<1>2. HandsInv'
  BY <1>1, HandsStay
<1>3. CASE id \in Recurring
  BY <1>1, <1>2, <1>3, ListStays DEF DaemonRetires, ghosts
<1>4. CASE id \notin Recurring
  <2>1. /\ id \in IdsOf(tasks) /\ tasks' = RemoveAt(tasks, IndexOf(tasks, id))
        /\ owed' = owed \ {id}
    BY <1>4 DEF DaemonRetires, Unqueued
  <2>2. /\ IsQueue(tasks') /\ IdsOf(tasks') = IdsOf(tasks) \ {id}
        /\ Grouped(tasks) => Grouped(tasks')
    BY <2>1, Removed DEF ListInv, TasksInv
  <2> QED  BY <1>1, <1>2, <2>1, <2>2 DEF ListInv, TasksInv, QueueIsOwed
<1> QED  BY <1>3, <1>4

\* The commands that arrange the list.
LEMMA ArrangeSteps ==
  ASSUME ListInv, HandsInv,
         \/ \E id \in Ids : SetEnabled(id) \/ Move(id)
         \/ \E g \in Groups : MoveGroup(g)
         \/ \E c \in Clients, id \in Ids : MoveToGroup(c, id)
         \/ \E c \in Clients, g, to \in Groups : RenameGroup(c, g, to)
  PROVE  ListInv' /\ HandsInv'
<1>1. IsQueue(tasks)
  BY DEF ListInv, TasksInv
<1>2. UNCHANGED <<owed, lost, back, imported>>
  BY DEF SetEnabled, Move, MoveGroup, MoveToGroup, RenameGroup, ghosts
<1>3. /\ IsQueue(tasks') /\ IdsOf(tasks') = IdsOf(tasks)
      /\ imported \/ Grouped(tasks')
  <2>1. ASSUME NEW id \in Ids, SetEnabled(id)
        PROVE  IsQueue(tasks') /\ IdsOf(tasks') = IdsOf(tasks) /\ (imported \/ Grouped(tasks'))
    BY <2>1, Switched DEF ListInv, TasksInv
  <2>2. ASSUME NEW id \in IdsOf(tasks), NEW group \in AnyGroup, NEW to \in 1..Len(tasks) + 1,
               tasks' = MovedTo(tasks, id, group, to)
        PROVE  IsQueue(tasks') /\ IdsOf(tasks') = IdsOf(tasks) /\ Grouped(tasks')
    <3>1. to \in Int
      BY <1>1 DEF IsQueue
    <3> QED  BY <1>1, <2>2, <3>1, Moved
  <2>3. ASSUME NEW id \in Ids, Move(id)
        PROVE  IsQueue(tasks') /\ IdsOf(tasks') = IdsOf(tasks) /\ Grouped(tasks')
    <3>1. id \in IdsOf(tasks)
      BY <2>3 DEF Move
    <3>2. TaskOf(tasks, id).group \in AnyGroup
      <4>1. TaskOf(tasks, id) \in Task
        BY <1>1, <3>1, StoredTask
      <4> QED  BY <4>1 DEF Task
    <3>3. PICK to \in 1..Len(tasks) + 1 : tasks' = MovedTo(tasks, id, TaskOf(tasks, id).group, to)
      BY <2>3 DEF Move
    <3> QED  BY <2>2, <3>1, <3>2, <3>3
  <2>4. ASSUME NEW c \in Clients, NEW id \in Ids, MoveToGroup(c, id)
        PROVE  IsQueue(tasks') /\ IdsOf(tasks') = IdsOf(tasks) /\ Grouped(tasks')
    BY <2>2, <2>4 DEF MoveToGroup
  <2>5. ASSUME NEW g \in Groups, MoveGroup(g)
        PROVE  IsQueue(tasks') /\ IdsOf(tasks') = IdsOf(tasks) /\ Grouped(tasks')
    BY <1>1, <2>5, BlockIsMoved DEF MoveGroup
  <2>6. ASSUME NEW c \in Clients, NEW g \in Groups, NEW to \in Groups, RenameGroup(c, g, to)
        PROVE  IsQueue(tasks') /\ IdsOf(tasks') = IdsOf(tasks) /\ Grouped(tasks')
    BY <1>1, <2>6, GroupIsRenamed DEF RenameGroup, AnyGroup
  <2> QED  BY <2>1, <2>3, <2>4, <2>5, <2>6
<1>4. ListInv'
  BY <1>2, <1>3, Rearranged
<1>5. HandsInv'
  <2>1. CASE ops' = ops
    BY <1>2, <2>1, HandsStay
  <2>2. ASSUME NEW c \in Clients, NEW id \in Ids, MoveToGroup(c, id)
        PROVE  HandsInv'
    <3>1. Holding(PruneNext, imported)
      BY DEF Holding, PruneNext
    <3> QED  BY <1>2, <2>2, <3>1, HandsKept DEF MoveToGroup, Goto
  <2>3. ASSUME NEW c \in Clients, NEW g \in Groups, NEW to \in Groups, RenameGroup(c, g, to)
        PROVE  HandsInv'
    <3>1. PICK op : op = [pc |-> "refold", from |-> g, to |-> to, merged |-> to \in GroupsOf(tasks)]
      OBVIOUS
    <3>2. Holding(op, imported)
      BY <3>1 DEF Holding
    <3> QED  BY <1>2, <2>3, <3>1, <3>2, HandsKept DEF RenameGroup, Goto
  <2> QED  BY <2>1, <2>2, <2>3 DEF SetEnabled, Move, MoveGroup
<1> QED  BY <1>4, <1>5

\* What only looks at the list, or changes what is kept beside it.
LEMMA OtherSteps ==
  ASSUME ListInv, HandsInv,
         \/ \E g \in Groups : SetGroupCollapsed(g)
         \/ SetPaused \/ PatchSettings
         \/ \E c \in Clients : RenameFold(c) \/ PruneLook(c) \/ PruneWrite(c) \/ SettingsLoad(c)
  PROVE  ListInv' /\ HandsInv'
<1>1. UNCHANGED <<tasks, ghosts>>
  BY DEF SetGroupCollapsed, SetPaused, PatchSettings, RenameFold, PruneLook, PruneWrite, SettingsLoad
<1>2. ListInv'
  BY <1>1, ListStays
<1>3. imported' = imported
  BY <1>1 DEF ghosts
<1>4. HandsInv'
  <2>1. CASE ops' = ops
    BY <1>3, <2>1, HandsStay
  <2>2. ASSUME NEW c \in Clients, RenameFold(c) \/ PruneWrite(c)
        PROVE  HandsInv'
    <3>1. Holding(Idle, imported)
      BY DEF Holding, Idle
    <3> QED  BY <1>3, <2>2, <3>1, HandsKept DEF RenameFold, PruneWrite, Goto
  <2>3. ASSUME NEW c \in Clients, PruneLook(c)
        PROVE  HandsInv'
    <3>1. PICK op : op = [pc |-> "prune", live |-> GroupsOf(tasks)]
      OBVIOUS
    <3>2. Holding(op, imported)
      BY <3>1 DEF Holding
    <3> QED  BY <1>3, <2>3, <3>1, <3>2, HandsKept DEF PruneLook, Goto
  <2>4. ASSUME NEW c \in Clients, SettingsLoad(c)
        PROVE  HandsInv'
    <3>1. PICK op : op = [pc |-> "save", tasks |-> tasks,
                          settings |-> [paused |-> settings.paused, rest |-> ~settings.rest]]
      OBVIOUS
    <3>2. Holding(op, imported)
      BY <3>1 DEF Holding, ListInv, TasksInv
    <3> QED  BY <1>3, <2>4, <3>1, <3>2, HandsKept DEF SettingsLoad, Goto
  <2> QED  BY <2>1, <2>2, <2>3, <2>4 DEF SetGroupCollapsed, SetPaused, PatchSettings
<1> QED  BY <1>2, <1>4

\* A save of the settings puts back the list it read.
LEMMA SettingsSaveStep ==
  ASSUME ListInv, HandsInv, NEW c \in Clients, SettingsSave(c)
  PROVE  ListInv' /\ HandsInv'
<1>1. PICK q : q = ops[c].tasks
  OBVIOUS
<1>2. IsQueue(q) /\ (~imported => Grouped(q))
  BY <1>1 DEF HandsInv, Holding, SettingsSave, At
<1>3. /\ tasks' = q /\ UNCHANGED <<owed, imported>> /\ Goto(c, Idle)
      /\ lost' = lost \union (IdsOf(tasks) \ IdsOf(tasks'))
      /\ back' = back \union (IdsOf(tasks') \ IdsOf(tasks))
  BY <1>1 DEF SettingsSave
<1>4. QueueIsOwed'
  BY <1>3 DEF ListInv, QueueIsOwed
<1>5. ListInv'
  BY <1>2, <1>3, <1>4 DEF ListInv, TasksInv
<1>6. Holding(Idle, imported)
  BY DEF Holding, Idle
<1> QED  BY <1>3, <1>5, <1>6, HandsKept DEF Goto

LEMMA NextQueue == QueueInv /\ [Next]_configuration => QueueInv'
<1> SUFFICES ASSUME QueueInv, [Next]_configuration PROVE QueueInv'
  OBVIOUS
<1>1. CASE UNCHANGED configuration
  <2>1. UNCHANGED <<section, tasks, ops, owed, lost, back, known, imported>>
    BY <1>1 DEF configuration, queueVars
  <2> QED  BY <2>1, ListStays, HandsStay DEF QueueInv, ghosts
<1>2. CASE ChangeProviders
  <2>1. section = "providers" /\ section' = section /\ UNCHANGED <<tasks, ghosts>>
    BY <1>2 DEF ChangeProviders
  <2> QED  BY <2>1, ListStays DEF QueueInv
<1>3. CASE ChangeQueue
  <2>1. section = "queue" /\ section' = section /\ QueueNext
    BY <1>3 DEF ChangeQueue
  <2>2. ListInv /\ HandsInv
    BY <2>1 DEF QueueInv
  <2>3. ASSUME NEW c \in Clients, Commands(c)
        PROVE  ListInv' /\ HandsInv'
    BY <2>2, <2>3, AddBegins, EditSteps, RemoveStep, ArrangeSteps, OtherSteps DEF Commands
  <2>4. ASSUME NEW c \in Clients, Continues(c)
        PROVE  ListInv' /\ HandsInv'
    BY <2>2, <2>4, AddWriteStep, EditorSaveStep, FormSteps, OtherSteps, SettingsSaveStep DEF Continues
  <2>5. ASSUME OneStep
        PROVE  ListInv' /\ HandsInv'
    BY <2>2, <2>5, ImportStep, ArrangeSteps, OtherSteps DEF OneStep
  <2>6. ASSUME NEW id \in Ids, DaemonRetires(id)
        PROVE  ListInv' /\ HandsInv'
    BY <2>2, <2>6, RetireStep
  <2> QED  BY <2>1, <2>3, <2>4, <2>5, <2>6 DEF QueueNext, QueueInv
<1> QED  BY <1>1, <1>2, <1>3 DEF Next

\* The tasks of a group stand together, in every order of commands, edits and
\* merges, and across saves of a list that was read before, until a bundle is
\* imported (groupedOrder, after every change of the list).
THEOREM ListIsGrouped == Spec => []GroupsTogether
<1>1. QueueInv => GroupsTogether
  BY DEF QueueInv, ListInv, TasksInv, GroupsTogether
<1> QED  BY <1>1, InitQueue, NextQueue, PTL DEF Spec

\* Nobody's change of the queue is lost to anybody else's, except to a save of
\* the settings (UpdateConfig; putSettings is the exception).
THEOREM NothingIsLost == Spec => []QueueIsOwed
<1>1. QueueInv => QueueIsOwed
  BY DEF QueueInv, ListInv
<1> QED  BY <1>1, InitQueue, NextQueue, PTL DEF Spec

\* Priority is the order of the list, and only what moves a task changes it
\* (Add, Remove, SetEnabled, RenameGroup and the daemon do not).
THEOREM OrderIsPriority == Spec => PriorityKept
<1> DEFINE Kept == \/ SameOrder(tasks, tasks', Stay(tasks, tasks'))
                   \/ imported
                   \/ \E id \in Ids : Move(id)
                   \/ \E g \in Groups : MoveGroup(g)
                   \/ \E c \in Clients : Rearranges(c)
<1>1. QueueInv /\ [Next]_configuration => [Kept]_queueVars
  <2> SUFFICES ASSUME QueueInv, Next, ~imported,
                      ~ \E id \in Ids : Move(id), ~ \E g \in Groups : MoveGroup(g),
                      ~ \E c \in Clients : Rearranges(c)
               PROVE  SameOrder(tasks, tasks', Stay(tasks, tasks'))
    BY DEF configuration, queueVars
  <2>1. /\ ListInv /\ IsQueue(tasks) /\ Grouped(tasks)
        /\ Stay(tasks, tasks') \in SUBSET IdsOf(tasks) /\ Stay(tasks, tasks') \in SUBSET IdsOf(tasks')
    BY DEF QueueInv, ListInv, TasksInv, Stay
  <2>2. CASE UNCHANGED tasks
    BY <2>2 DEF SameOrder
  <2>3. ASSUME NEW c \in Clients, AddWrite(c), HandsInv
        PROVE  SameOrder(tasks, tasks', Stay(tasks, tasks'))
    <3>1. PICK t : t = ops[c].task
      OBVIOUS
    <3>2. t \in Task
      BY <2>3, <3>1 DEF HandsInv, Holding, AddWrite, At
    <3>3. t.id \in IdsOf(tasks) => UNCHANGED tasks
      BY <2>3, <3>1 DEF AddWrite
    <3>4. t.id \notin IdsOf(tasks) => tasks' = GroupedOrder(Append(tasks, t))
      BY <2>3, <3>1 DEF AddWrite
    <3>5. t.id \notin IdsOf(tasks)
          => SameOrder(tasks, GroupedOrder(Append(tasks, t)), Stay(tasks, tasks'))
      BY <2>1, <3>2, AddingKeepsOrder
    <3> QED  BY <2>2, <3>3, <3>4, <3>5
  <2>4. ASSUME NEW file \in Files, ImportTask(file)
        PROVE  SameOrder(tasks, tasks', Stay(tasks, tasks'))
    <3>1. PICK id \in UniqueId(tasks, file.id) : tasks' = Append(tasks, [file EXCEPT !.id = id])
      BY <2>4 DEF ImportTask
    <3>2. file \in Task
      BY InitialQueuesAssumption
    <3>3. id \in Ids /\ id \notin IdsOf(tasks)
      <4>1. file.id \in Ids
        BY <3>2 DEF Task
      <4>2. id \in UniqueId(tasks, file.id)
        OBVIOUS
      <4> QED  BY <4>1, <4>2 DEF UniqueId
    <3>4. PICK t \in Task : t = [file EXCEPT !.id = id] /\ t.id = id
      <4>1. [file EXCEPT !.id = id] \in Task /\ [file EXCEPT !.id = id].id = id
        BY <3>2, <3>3 DEF Task
      <4> QED  BY <4>1
    <3>5. PICK r : r = Append(tasks, t)
      OBVIOUS
    <3>6. IsQueue(r) /\ Len(r) = Len(tasks) + 1 /\ \A i \in 1..Len(tasks) : r[i] = tasks[i]
      <4>1. IsQueue(tasks) /\ t.id \notin IdsOf(tasks)
        BY <2>1, <3>3, <3>4
      <4> QED  BY <3>5, <4>1, Appended
    <3>7. Len(tasks) <= Len(r) /\ \A i \in 1..Len(tasks) : r[i].id = tasks[i].id
      BY <2>1, <3>6 DEF IsQueue
    <3>8. tasks' = r
      BY <3>1, <3>4, <3>5
    <3> QED  BY <2>1, <3>6, <3>7, <3>8, PlacesKept
  <2>5. ASSUME NEW id \in Ids, SetEnabled(id)
        PROVE  SameOrder(tasks, tasks', Stay(tasks, tasks'))
    <3>1. /\ IsQueue(tasks') /\ Len(tasks') = Len(tasks)
          /\ \A i \in 1..Len(tasks) : tasks'[i].id = tasks[i].id
      BY <2>1, <2>5, Switched
    <3>2. Len(tasks) <= Len(tasks')
      BY <2>1, <3>1 DEF IsQueue
    <3>3. PICK r : r = tasks'
      OBVIOUS
    <3> QED  BY <2>1, <3>1, <3>2, <3>3, PlacesKept
  <2>6. ASSUME NEW id \in IdsOf(tasks), tasks' = RemoveAt(tasks, IndexOf(tasks, id))
        PROVE  SameOrder(tasks, tasks', Stay(tasks, tasks'))
    <3>1. PICK r : r = tasks'
      OBVIOUS
    <3> QED  BY <2>1, <2>6, <3>1, Removed
  <2>7. ASSUME NEW c \in Clients, NEW g \in Groups, NEW to \in Groups, RenameGroup(c, g, to)
        PROVE  SameOrder(tasks, tasks', Stay(tasks, tasks'))
    <3>1. PICK r : r = tasks'
      OBVIOUS
    <3>2. g # to /\ g \in GroupsOf(tasks) /\ to \in AnyGroup /\ r = Renamed(tasks, g, to)
      BY <2>7, <3>1 DEF RenameGroup, AnyGroup
    <3> QED  BY <2>1, <3>1, <3>2, GroupIsRenamed
  <2>8. CASE ChangeProviders
    BY <2>2, <2>8 DEF ChangeProviders
  <2>9. CASE ChangeQueue
    <3>1. QueueNext /\ HandsInv
      BY <2>9 DEF ChangeQueue, QueueInv
    <3>2. ASSUME NEW c \in Clients, Commands(c)
          PROVE  SameOrder(tasks, tasks', Stay(tasks, tasks'))
      <4>1. \/ UNCHANGED tasks
            \/ \E id \in Ids : RemoveTask(c, id)
            \/ \E g, to \in Groups : RenameGroup(c, g, to)
        BY <3>2 DEF Commands, Rearranges, AddCommand, AddRequest, QueueCommand, Checked,
                    EditorOpen, FormOpen, SettingsLoad
      <4> QED  BY <2>2, <2>6, <2>7, <4>1 DEF RemoveTask
    <3>3. ASSUME NEW c \in Clients, Continues(c)
          PROVE  SameOrder(tasks, tasks', Stay(tasks, tasks'))
      <4>1. UNCHANGED tasks \/ AddWrite(c)
        BY <3>3 DEF Continues, Rearranges, FormReceived, RenameFold, PruneLook, PruneWrite
      <4> QED  BY <2>2, <2>3, <3>1, <4>1
    <3>4. ASSUME OneStep
          PROVE  SameOrder(tasks, tasks', Stay(tasks, tasks'))
      <4>1. \/ UNCHANGED tasks
            \/ \E id \in Ids : SetEnabled(id)
            \/ \E file \in Files : ImportTask(file)
        BY <3>4 DEF OneStep, SetGroupCollapsed, SetPaused, PatchSettings
      <4> QED  BY <2>2, <2>4, <2>5, <4>1
    <3>5. ASSUME NEW id \in Ids, DaemonRetires(id)
          PROVE  SameOrder(tasks, tasks', Stay(tasks, tasks'))
      BY <2>2, <2>6, <3>5 DEF DaemonRetires
    <3> QED  BY <3>1, <3>2, <3>3, <3>4, <3>5 DEF QueueNext
  <2> QED  BY <2>8, <2>9 DEF Next
<1> QED  BY <1>1, InitQueue, NextQueue, PTL DEF Spec, PriorityKept

=============================================================================
