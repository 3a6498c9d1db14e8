----------------------------- MODULE AppProofs -----------------------------
(* Theorems about App, for every number of processes, wallets, settings,    *)
(* attempts and faults: a start happens once and leaves nothing behind when *)
(* it fails, the record agrees with the settings unless the chain refused   *)
(* them, a home keeps its wallet and its block store but for the named      *)
(* incidents, and a Stop is heard by all services that had begun.           *)
EXTENDS App, FiniteSetTheorems, TLAPS

\* Once the database is open, a start holds its lock, to the end.
HasDatabase == StartSteps \cup {"wallet", "seed", "createSeed", "writeSeed", "end"}

StartHolds ==
  \A p \in Procs :
    /\ at[p] \in StartSteps => cmd[p] = "start"
    /\ cmd[p] = "start" /\ at[p] \in HasDatabase =>
         lock = p /\ store[p] \in {"flatfs", "badgerds"}

\* A process that goes on after InitWallet has a key.
HasKey == \A p \in Procs : at[p] \in StartSteps \cup {"terminate"} => key[p] \in Keys

\* What the record is, step by step, while start makes it agree.
Agrees ==
  \A p \in Procs :
    /\ at[p] = "space" => /\ seen[p] \in Records
                          /\ record[key[p]] \in {seen[p], Gone}
    /\ at[p] = "ip" =>
         /\ seen[p] \in Records
         /\ p \notin refused =>
              record[key[p]] \in {[ip |-> seen[p].ip, space |-> got[p].space], Gone}
    /\ /\ at[p] \in {"params", "queue", "claims", "services", "notify", "serving"}
       /\ p \notin refused
       => record[key[p]] \in {WantOf(got[p]), Gone}
    /\ at[p] \in {"query", "register", "space"} => p \notin refused

\* The queue was started, once, only by a process that is past that step.
Started ==
  launches = 0 \/ /\ launches = 1
                  /\ lock \in Procs
                  /\ at[lock] \in {"claims", "hung", "services", "notify", "serving",
                                   "stopping", "closing", "end"}

LEMMA TypeInit == Init => TypeOK
<1> SUFFICES ASSUME Init PROVE TypeOK
  OBVIOUS
<1>1. home \in [config : Settings \cup {None, Empty},
                seed : Wallets \cup {None, Empty}, legacy : BOOLEAN]
  <2>1. PICK h \in Homes : h = home
    BY DEF Init
  <2> QED  BY <2>1, SettingsAssumption
<1>2. tries \in [Procs -> 0 .. MaxTries] /\ budget \in 0 .. Budget
      /\ incidents \subseteq {"bare", "kind", "overlap"}
  BY SettingsAssumption DEF Init
<1> QED  BY <1>1, <1>2 DEF Init, TypeOK, Keys, Commands, Steps, SetUp

\* The part of TypeOK that Exit and StartFails change.
ProcessTypes ==
  /\ lock \in Procs \cup {None}
  /\ at \in [Procs -> Steps]
  /\ cmd \in [Procs -> Commands]
  /\ got \in [Procs -> Settings \cup {Flags}]
  /\ store \in [Procs -> {"flatfs", "badgerds", None}]
  /\ key \in [Procs -> Keys \cup {None}]
  /\ seen \in [Procs -> Records \cup {None}]
  /\ tries \in [Procs -> 0 .. MaxTries]
  /\ refused \subseteq Procs
  /\ svc \in [Services -> {"off", "spawned", "loop", "ended"}]
  /\ running \in [Services -> BOOLEAN]
  /\ stops \in Nat
  /\ deaf \subseteq Services
  /\ open \in BOOLEAN

LEMMA ExitTypes == ASSUME TypeOK, NEW p \in Procs, Exit(p) PROVE ProcessTypes'
<1>1. /\ at' \in [Procs -> Steps] /\ cmd' \in [Procs -> Commands]
      /\ got' \in [Procs -> Settings \cup {Flags}]
      /\ store' \in [Procs -> {"flatfs", "badgerds", None}]
  BY DEF Exit, TypeOK, Steps
<1>2. /\ key' \in [Procs -> Keys \cup {None}] /\ seen' \in [Procs -> Records \cup {None}]
  BY DEF Exit, TypeOK
<1>3. tries' \in [Procs -> 0 .. MaxTries] /\ refused' \subseteq Procs
  BY SettingsAssumption DEF Exit, TypeOK
<1>4. CASE lock = p
  <2>1. /\ lock' = None
        /\ svc' = [s \in Services |-> "off"]
        /\ running' = [s \in Services |-> FALSE]
        /\ stops' = 0 /\ deaf' = {} /\ open' = FALSE
    BY <1>4 DEF Exit
  <2> QED  BY <1>1, <1>2, <1>3, <2>1 DEF ProcessTypes
<1>5. CASE lock # p
  <2>1. UNCHANGED <<lock, svc, running, stops, deaf, open>>
    BY <1>5 DEF Exit, services
  <2> QED  BY <1>1, <1>2, <1>3, <2>1 DEF ProcessTypes, TypeOK
<1> QED  BY <1>4, <1>5

LEMMA StartFailsTypes == ASSUME TypeOK, NEW p \in Procs, StartFails(p) PROVE ProcessTypes'
<1>1. CASE tries[p] < MaxTries
  <2>1. tries' = [tries EXCEPT ![p] = @ + 1] /\ at' = [at EXCEPT ![p] = "settings"]
    BY <1>1 DEF StartFails, Goto
  <2>2. tries' \in [Procs -> 0 .. MaxTries] /\ at' \in [Procs -> Steps]
    BY <1>1, <2>1, SettingsAssumption DEF TypeOK, Steps, StartSteps
  <2> QED  BY <1>1, <2>2 DEF StartFails, TypeOK, ProcessTypes, services
<1>2. CASE ~(tries[p] < MaxTries)
  BY <1>2, ExitTypes DEF StartFails
<1> QED  BY <1>1, <1>2

LEMMA EndTypes ==
    ASSUME TypeOK, NEW p \in Procs, Exit(p) \/ StartFails(p),
           home' \in [config : Settings \cup {None, Empty},
                      seed : Wallets \cup {None, Empty}, legacy : BOOLEAN],
           record' \in [Keys -> Records \cup {None, Gone}],
           UNCHANGED <<used, incidents>> /\ budget' \in 0 .. Budget
    PROVE  TypeOK'
<1>1. ProcessTypes'
  BY ExitTypes, StartFailsTypes
<1> QED  BY <1>1 DEF TypeOK, ProcessTypes

LEMMA BroadcastTypes ==
    ASSUME TypeOK, NEW p \in Procs, NEW rec \in Records, NEW next \in Steps,
           Broadcast(p, rec, next)
    PROVE  TypeOK'
<1>1. PICK r \in Replies :
        /\ record' = IF r \in {"ok", "lost"} THEN [record EXCEPT ![key[p]] = rec] ELSE record
        /\ \/ /\ Goto(p, next)
              /\ refused' = refused \cup {q \in {p} : r = "rejected"}
              /\ UNCHANGED <<lock, cmd, got, store, key, seen, tries, services>>
           \/ StartFails(p)
        /\ UNCHANGED <<home, used, incidents, budget>>
  BY DEF Broadcast
<1>2. record' \in [Keys -> Records \cup {None, Gone}]
  BY <1>1 DEF TypeOK
<1>3. CASE StartFails(p)
  BY <1>1, <1>2, <1>3, EndTypes DEF TypeOK
<1>4. CASE ~StartFails(p)
  <2>1. refused' \subseteq Procs /\ at' \in [Procs -> Steps]
    BY <1>1, <1>4 DEF TypeOK, Goto
  <2> QED  BY <1>1, <1>2, <1>4, <2>1 DEF TypeOK, services
<1> QED  BY <1>3, <1>4

-----------------------------------------------------------------------------
Inv == TypeOK /\ StartHolds /\ HasKey /\ Agrees /\ Started

LEMMA InvInit == Init => Inv
BY TypeInit, SettingsAssumption
   DEF Inv, Init, StartHolds, HasKey, Agrees, Started, StartSteps, HasDatabase

\* Types over the actions, one lemma for each kind of step.
LEMMA ExitActionTypes ==
    ASSUME Inv, NEW p \in Procs,
           \/ DatabaseTaken(p) \/ ConfigMalformed(p) \/ ConfigInvalid(p) \/ WriteSeed(p)
           \/ SeedUnreadable(p) \/ EndCommand(p) \/ Terminate(p) \/ BuildFails(p) \/ Crash(p)
    PROVE  TypeOK'
<1>1. TypeOK
  BY DEF Inv
<1>2. CASE WriteSeed(p)
  <2>1. Exit(p) /\ UNCHANGED <<record, used, incidents, budget>>
    BY <1>2 DEF WriteSeed
  <2>2. home' \in [config : Settings \cup {None, Empty},
                  seed : Wallets \cup {None, Empty}, legacy : BOOLEAN]
    BY <1>1, <1>2 DEF WriteSeed, TypeOK
  <2> QED  BY <1>1, <2>1, <2>2, EndTypes DEF TypeOK
<1>3. CASE Terminate(p)
  <2>1. Exit(p) /\ UNCHANGED <<home, used, incidents, budget>>
    BY <1>3 DEF Terminate
  <2>2. record' \in [Keys -> Records \cup {None, Gone}]
    BY <1>1, <1>3 DEF Terminate, TypeOK
  <2> QED  BY <1>1, <2>1, <2>2, EndTypes DEF TypeOK
<1>4. CASE Crash(p)
  <2>1. Exit(p) /\ UNCHANGED <<home, record, used, incidents>> /\ budget' \in 0 .. Budget
    BY <1>1, <1>4, SettingsAssumption DEF Crash, TypeOK
  <2> QED  BY <1>1, <2>1, EndTypes DEF TypeOK
<1>5. CASE ~WriteSeed(p) /\ ~Terminate(p) /\ ~Crash(p)
  <2>1. Exit(p) /\ UNCHANGED <<home, record, used, incidents, budget>>
    BY <1>5 DEF DatabaseTaken, ConfigMalformed, ConfigInvalid, SeedUnreadable, EndCommand, BuildFails, Fails
  <2> QED  BY <1>1, <2>1, EndTypes DEF TypeOK
<1> QED  BY <1>2, <1>3, <1>4, <1>5

LEMMA AskTypes ==
    ASSUME Inv, NEW p \in Procs,
           \/ BuildApp(p) \/ ReadSettings(p) \/ ProviderFound(p) \/ QueryFails(p)
           \/ SpaceSame(p) \/ IpSame(p) \/ GetStorageParams(p) \/ MakeManager(p)
           \/ DropClaims(p) \/ Notify(p)
    PROVE  TypeOK'
<1>1. TypeOK
  BY DEF Inv
<1>2. at' \in [Procs -> Steps]
  <2>1. PICK l \in Steps : Goto(p, l)
    BY DEF BuildApp, ReadSettings, ProviderFound, QueryFails, SpaceSame, IpSame,
       GetStorageParams, MakeManager, DropClaims, Notify, Same, Steps, StartSteps
  <2> QED  BY <1>1, <2>1 DEF Goto, TypeOK
<1>3. UNCHANGED <<home, lock, record, cmd, store, key, tries, svc, running, stops, deaf,
                  used, budget>>
  BY DEF BuildApp, ReadSettings, ProviderFound, QueryFails, SpaceSame, IpSame,
     GetStorageParams, MakeManager, DropClaims, Notify, Same, services
<1>4. open' \in BOOLEAN /\ got' \in [Procs -> Settings \cup {Flags}]
  BY <1>1 DEF BuildApp, ReadSettings, ProviderFound, QueryFails, SpaceSame, IpSame,
     GetStorageParams, MakeManager, DropClaims, Notify, Same, services, TypeOK, Read
<1>5. seen' \in [Procs -> Records \cup {None}]
  <2>1. CASE ProviderFound(p)
    <3>1. key[p] \in Keys
      BY <2>1 DEF Inv, HasKey, ProviderFound, StartSteps
    <3>2. record[key[p]] \in Records
      BY <1>1, <2>1, <3>1 DEF ProviderFound, TypeOK
    <3> QED  BY <1>1, <2>1, <3>2 DEF ProviderFound, TypeOK
  <2>2. CASE ~ProviderFound(p)
    <3>1. UNCHANGED seen
      BY <2>2 DEF BuildApp, ReadSettings, QueryFails, SpaceSame, IpSame,
         GetStorageParams, MakeManager, DropClaims, Notify, Same
    <3> QED  BY <1>1, <3>1 DEF TypeOK
  <2> QED  BY <2>1, <2>2
<1>6. refused' \subseteq Procs /\ incidents' = incidents
  BY <1>1 DEF BuildApp, ReadSettings, ProviderFound, QueryFails, SpaceSame, IpSame,
     GetStorageParams, MakeManager, DropClaims, Notify, Same, TypeOK
<1> QED  BY <1>1, <1>2, <1>3, <1>4, <1>5, <1>6 DEF TypeOK

LEMMA UpdateTypes ==
    ASSUME Inv, NEW p \in Procs, InitProvider(p) \/ UpdateSpace(p) \/ UpdateIp(p)
    PROVE  TypeOK'
<1>1. TypeOK /\ got[p] \in Settings \cup {Flags}
  BY DEF Inv, TypeOK
<1>2. {"params", "ip"} \subseteq Steps
  BY DEF Steps, StartSteps
<1>3. CASE InitProvider(p)
  <2>1. WantOf(got[p]) \in Records
    BY <1>1 DEF WantOf, Records
  <2> QED  BY <1>1, <1>2, <1>3, <2>1, BroadcastTypes DEF InitProvider
<1>4. CASE UpdateSpace(p) \/ UpdateIp(p)
  <2>1. CASE Registered(p)
    <3>1. record[key[p]].ip \in {s.ip : s \in Settings \cup {Flags}}
          /\ record[key[p]].space \in {s.space : s \in Settings \cup {Flags}}
      <4>1. key[p] \in Keys
        BY <1>4 DEF Inv, HasKey, UpdateSpace, UpdateIp, StartSteps
      <4>2. record[key[p]] \in Records
        BY <1>1, <2>1, <4>1 DEF TypeOK, Registered
      <4> QED  BY <4>2 DEF Records
    <3>2. [ip |-> record[key[p]].ip, space |-> got[p].space] \in Records
          /\ [ip |-> got[p].ip, space |-> record[key[p]].space] \in Records
      BY <1>1, <3>1 DEF Records
    <3> QED  BY <1>1, <1>2, <1>4, <2>1, <3>2, BroadcastTypes DEF UpdateSpace, UpdateIp, Update
  <2>2. CASE ~Registered(p)
    <3>1. StartFails(p) /\ UNCHANGED <<home, record, used, incidents, budget>>
      BY <1>4, <2>2 DEF UpdateSpace, UpdateIp, Update
    <3> QED  BY <1>1, <3>1, EndTypes DEF TypeOK
  <2> QED  BY <2>1, <2>2
<1> QED  BY <1>3, <1>4

LEMMA StopGoes ==
    ASSUME NEW p \in Procs, Stop(p)
    PROVE  Goto(p, "closing") \/ Goto(p, "stopping")
BY DEF Stop

LEMMA ServiceTypes ==
    ASSUME Inv, NEW p \in Procs,
           StartQueue(p) \/ StartServices(p) \/ Stop(p) \/ CloseFiles(p) \/ Signal(p)
    PROVE  TypeOK'
<1>1. TypeOK
  BY DEF Inv
<1>2. UNCHANGED <<home, lock, record, cmd, got, store, key, seen, tries, refused, incidents>>
  BY DEF StartQueue, StartServices, Stop, CloseFiles, Signal
<1>3. at' \in [Procs -> Steps]
  <2>1. PICK l \in Steps : Goto(p, l)
    <3>1. CASE Stop(p)
      BY <3>1, StopGoes DEF Steps, StartSteps
    <3>2. CASE ~Stop(p)
      BY <3>2 DEF StartQueue, StartServices, CloseFiles, Signal, Steps, StartSteps
    <3> QED  BY <3>1, <3>2
  <2> QED  BY <1>1, <2>1 DEF Goto, TypeOK
<1>4. svc' \in [Services -> {"off", "spawned", "loop", "ended"}]
  BY <1>1 DEF StartQueue, StartServices, Stop, CloseFiles, Signal, services, TypeOK
<1>5. running' \in [Services -> BOOLEAN] /\ stops' \in Nat /\ deaf' \subseteq Services
      /\ open' \in BOOLEAN
  <2>1. CASE Stop(p)
    <3>1. PICK s : running' = [x \in Services |-> running[x] /\ x # s]
      BY <2>1 DEF Stop
    <3>2. running' \in [Services -> BOOLEAN]
      BY <3>1
    <3>3. deaf' \subseteq Services /\ stops' = stops + 1 /\ open' = open
      BY <1>1, <2>1 DEF Stop, TypeOK
    <3> QED  BY <1>1, <3>2, <3>3 DEF TypeOK
  <2>2. CASE ~Stop(p)
    BY <1>1, <2>2 DEF StartQueue, StartServices, CloseFiles, Signal, services, TypeOK
  <2> QED  BY <2>1, <2>2
<1>6. used' \subseteq {"flatfs", "badgerds"}
  <2>1. CASE StartServices(p)
    <3>1. store[p] \in {"flatfs", "badgerds"}
      BY <2>1 DEF Inv, StartHolds, StartServices, StartSteps, HasDatabase
    <3> QED  BY <1>1, <2>1, <3>1 DEF StartServices, TypeOK
  <2>2. CASE ~StartServices(p)
    BY <1>1, <2>2 DEF StartQueue, Stop, CloseFiles, Signal, TypeOK
  <2> QED  BY <2>1, <2>2
<1>7. budget' \in 0 .. Budget
  BY <1>1, SettingsAssumption DEF StartQueue, StartServices, Stop, CloseFiles, Signal, TypeOK
<1> QED  BY <1>1, <1>2, <1>3, <1>4, <1>5, <1>6, <1>7 DEF TypeOK

LEMMA OtherTypes ==
    ASSUME Inv, (\E s \in Services : Begin(s) \/ End(s)) \/ Edit
    PROVE  TypeOK'
<1>1. TypeOK
  BY DEF Inv
<1>2. CASE Edit
  <2>1. budget' \in 0 .. Budget
    BY <1>1, <1>2, SettingsAssumption DEF Edit, TypeOK
  <2>2. home' \in [config : Settings \cup {None, Empty},
                  seed : Wallets \cup {None, Empty}, legacy : BOOLEAN]
    BY <1>1, <1>2 DEF Edit, TypeOK
  <2> QED  BY <1>1, <1>2, <2>1, <2>2 DEF Edit, TypeOK, proc, services
<1>3. ASSUME NEW s \in Services, Begin(s) \/ End(s) PROVE TypeOK'
  <2>1. svc' \in [Services -> {"off", "spawned", "loop", "ended"}]
        /\ running' \in [Services -> BOOLEAN]
    <3>1. CASE Begin(s)
      BY <1>1, <3>1 DEF Begin, TypeOK
    <3>2. CASE End(s)
      BY <1>1, <3>2 DEF End, TypeOK
    <3> QED  BY <1>3, <3>1, <3>2
  <2>2. UNCHANGED <<home, lock, record, proc, stops, deaf, open, used, incidents, budget>>
    BY <1>3 DEF Begin, End
  <2> QED  BY <1>1, <2>1, <2>2 DEF TypeOK, proc
<1> QED  BY <1>2, <1>3

-----------------------------------------------------------------------------
\* The steps that read or write the files of the home directory.
LEMMA FileStep ==
    ASSUME Inv, NEW p \in Procs,
           \/ LoadConfig(p) \/ MissConfig(p) \/ StatConfig(p) \/ CreateConfig(p)
           \/ WriteConfig(p) \/ StatSeed(p) \/ CreateSeed(p)
    PROVE  Inv'
<1> USE SettingsAssumption DEF Inv, TypeOK, LoadConfig, MissConfig, StatConfig,
        CreateConfig, WriteConfig, StatSeed, CreateSeed, Goto, proc, services, Keys,
        Commands, Steps, SetUp, StartSteps, HasDatabase, Read, AfterConfig
<1>1. TypeOK'
  OBVIOUS
<1>2. StartHolds'
  BY DEF StartHolds
<1>3. HasKey'
  BY DEF StartHolds, HasKey
<1>4. Agrees'
  BY DEF StartHolds, HasKey, Agrees
<1>5. Started'
  BY DEF StartHolds, Started
<1> QED  BY <1>1, <1>2, <1>3, <1>4, <1>5 DEF Inv

\* The lock and the key.
LEMMA DatabaseStep ==
    ASSUME Inv, NEW p \in Procs,
           OpenBadger(p) \/ CheckConfig(p) \/ LoadSeed(p)
    PROVE  Inv'
<1> USE SettingsAssumption DEF Inv, TypeOK, OpenBadger, CheckConfig, LoadSeed, Goto,
        proc, services, Keys, Commands, Steps, SetUp, StartSteps, HasDatabase, Kind,
        AfterWallet
<1>1. TypeOK'
  OBVIOUS
<1>2. StartHolds'
  BY DEF StartHolds
<1>3. HasKey'
  BY DEF StartHolds, HasKey
<1>4. Agrees'
  BY DEF StartHolds, HasKey, Agrees
<1>5. Started'
  BY DEF StartHolds, Started
<1> QED  BY <1>1, <1>2, <1>3, <1>4, <1>5 DEF Inv

\* A process ends.
LEMMA ExitStep ==
    ASSUME Inv, NEW p \in Procs,
           \/ DatabaseTaken(p) \/ ConfigMalformed(p) \/ ConfigInvalid(p) \/ WriteSeed(p)
           \/ SeedUnreadable(p) \/ EndCommand(p) \/ Terminate(p) \/ BuildFails(p) \/ Crash(p)
    PROVE  Inv'
<1> USE SettingsAssumption DEF Inv, TypeOK, DatabaseTaken, ConfigMalformed, ConfigInvalid, WriteSeed,
        SeedUnreadable, EndCommand, Terminate, BuildFails, Crash, Goto, proc,
        services, Keys, Commands, Steps, SetUp, StartSteps, HasDatabase, Fails, Exit
<1>1. TypeOK'
  BY ExitActionTypes
<1>2. StartHolds'
  BY DEF StartHolds
<1>3. HasKey'
  BY DEF StartHolds, HasKey
<1>4. Agrees'
  BY DEF StartHolds, HasKey, Agrees
<1>5. Started'
  BY DEF StartHolds, Started
<1> QED  BY <1>1, <1>2, <1>3, <1>4, <1>5 DEF Inv

\* The steps of start that read, or only go on.
LEMMA AskStep ==
    ASSUME Inv, NEW p \in Procs,
           \/ BuildApp(p) \/ ReadSettings(p) \/ ProviderFound(p) \/ QueryFails(p)
           \/ SpaceSame(p) \/ IpSame(p) \/ GetStorageParams(p) \/ MakeManager(p)
           \/ DropClaims(p) \/ Notify(p)
    PROVE  Inv'
<1> USE SettingsAssumption DEF Inv, TypeOK, BuildApp, ReadSettings, ProviderFound,
        QueryFails, SpaceSame, IpSame, GetStorageParams, MakeManager, DropClaims, Notify, Goto,
        proc, services, Keys, Commands, Steps, SetUp, StartSteps, HasDatabase, Read,
        Same, WantOf
<1>1. TypeOK'
  BY AskTypes
<1>2. StartHolds'
  BY DEF StartHolds
<1>3. HasKey'
  BY DEF StartHolds, HasKey
<1>4. Agrees'
  <2>1. CASE ProviderFound(p)
    BY <2>1 DEF HasKey, Agrees
  <2>2. CASE SpaceSame(p) \/ IpSame(p)
    BY <2>2 DEF Agrees, Records
  <2>3. CASE ~(ProviderFound(p) \/ SpaceSame(p) \/ IpSame(p))
    BY <2>3 DEF Agrees
  <2> QED  BY <2>1, <2>2, <2>3
<1>5. Started'
  BY DEF StartHolds, Started
<1> QED  BY <1>1, <1>2, <1>3, <1>4, <1>5 DEF Inv

\* An attempt fails.
LEMMA RetryStep ==
    ASSUME Inv, NEW p \in Procs,
           SettingsMalformed(p) \/ InitRefused(p) \/ ParamsFail(p)
    PROVE  Inv'
<1> USE SettingsAssumption DEF Inv, TypeOK, SettingsMalformed, InitRefused, ParamsFail, Goto, proc,
        services, Keys, Commands, Steps, SetUp, StartSteps, HasDatabase, StartFails,
        Exit
<1>1. TypeOK'
  <2>1. /\ home' \in [config : Settings \cup {None, Empty},
                     seed : Wallets \cup {None, Empty}, legacy : BOOLEAN]
        /\ record' \in [Keys -> Records \cup {None, Gone}]
    OBVIOUS
  <2>2. StartFails(p) /\ UNCHANGED <<used, incidents>> /\ budget' \in 0 .. Budget
    OBVIOUS
  <2> HIDE DEF StartFails, Exit
  <2> QED  BY <2>1, <2>2, EndTypes
<1>2. StartHolds'
  BY DEF StartHolds
<1>3. HasKey'
  BY DEF StartHolds, HasKey
<1>4. Agrees'
  BY DEF StartHolds, HasKey, Agrees
<1>5. Started'
  BY DEF StartHolds, Started
<1> QED  BY <1>1, <1>2, <1>3, <1>4, <1>5 DEF Inv

\* A transaction is broadcast, or cannot be built.
LEMMA UpdateStep ==
    ASSUME Inv, NEW p \in Procs,
           InitProvider(p) \/ UpdateSpace(p) \/ UpdateIp(p)
    PROVE  Inv'
<1> USE SettingsAssumption DEF Inv, TypeOK, InitProvider, UpdateSpace, UpdateIp, Goto,
        proc, services, Keys, Commands, Steps, SetUp, StartSteps, HasDatabase, Update,
        Broadcast, StartFails, Exit, Registered, WantOf, Records
<1>1. TypeOK'
  BY UpdateTypes
<1>2. StartHolds'
  BY DEF StartHolds
<1>3. HasKey'
  BY DEF StartHolds, HasKey
<1>4. Agrees'
  BY DEF StartHolds, HasKey, Agrees
<1>5. Started'
  BY DEF StartHolds, Started
<1> QED  BY <1>1, <1>2, <1>3, <1>4, <1>5 DEF Inv

\* The queue, the other services, and their Stops.
LEMMA ServiceStep ==
    ASSUME Inv, NEW p \in Procs,
           StartQueue(p) \/ StartServices(p) \/ Stop(p) \/ CloseFiles(p) \/ Signal(p)
    PROVE  Inv'
<1> USE SettingsAssumption DEF Inv, TypeOK, StartQueue, StartServices, Stop,
        CloseFiles, Signal, Goto, proc, services, Keys, Commands, Steps, SetUp,
        StartSteps, HasDatabase
<1>1. TypeOK'
  BY ServiceTypes
<1>2. StartHolds'
  BY DEF StartHolds
<1>3. HasKey'
  BY DEF StartHolds, HasKey
<1>4. Agrees'
  BY DEF StartHolds, HasKey, Agrees
<1>5. Started'
  BY DEF StartHolds, Started
<1> QED  BY <1>1, <1>2, <1>3, <1>4, <1>5 DEF Inv

\* A command begins.
LEMMA RunStep == ASSUME Inv, NEW p \in Procs, NEW c \in Commands, Run(p, c) PROVE Inv'
<1> USE SettingsAssumption DEF Inv, TypeOK, Run, Goto, services, Keys, Commands,
        Steps, SetUp, StartSteps, HasDatabase
<1>1. TypeOK'
  OBVIOUS
<1>2. StartHolds' /\ HasKey' /\ Agrees'
  BY DEF StartHolds, HasKey, Agrees
<1>3. Started'
  BY DEF Started
<1> QED  BY <1>1, <1>2, <1>3 DEF Inv

\* The services and the operator's editor do not touch what Inv speaks of.
LEMMA OtherStep ==
    ASSUME Inv, (\E s \in Services : Begin(s) \/ End(s)) \/ Edit
    PROVE  Inv'
<1> USE SettingsAssumption DEF Inv, Begin, End, Edit, proc, services
<1>1. TypeOK'
  BY OtherTypes
<1>2. UNCHANGED <<lock, record, at, cmd, got, store, key, seen, refused, launches>>
  OBVIOUS
<1>3. StartHolds' /\ HasKey' /\ Agrees' /\ Started'
  BY <1>2 DEF StartHolds, HasKey, Agrees, Started
<1> QED  BY <1>1, <1>3

LEMMA InvStep == Inv /\ [Next]_vars => Inv'
<1> SUFFICES ASSUME Inv, [Next]_vars PROVE Inv'
  OBVIOUS
<1>1. CASE UNCHANGED vars
  BY <1>1 DEF Inv, TypeOK, StartHolds, HasKey, Agrees, Started, vars, proc, services
<1>2. ASSUME NEW p \in Procs, HomeStep(p) PROVE Inv'
  BY <1>2, FileStep, DatabaseStep, ExitStep DEF HomeStep
<1>3. ASSUME NEW p \in Procs, StartStep(p) PROVE Inv'
  BY <1>3, ExitStep, AskStep, RetryStep, UpdateStep, ServiceStep DEF StartStep
<1>4. CASE Next
  BY <1>2, <1>3, <1>4, RunStep, ServiceStep, ExitStep, OtherStep DEF Next
<1> QED  BY <1>1, <1>4

\* Every variable keeps its type.
THEOREM TypeCorrect == Spec => []TypeOK
<1>1. Inv => TypeOK
  BY DEF Inv
<1> QED  BY <1>1, InvInit, InvStep, PTL DEF Spec

\* A process starts its services once, whichever attempts fail and wherever
\* (App.Start, StartCmd).
THEOREM StartedOnce == Spec => []ServicesOnce
<1>1. Inv => ServicesOnce
  BY DEF Inv, Started, ServicesOnce
<1> QED  BY <1>1, InvInit, InvStep, PTL DEF Spec

\* While the services run the chain's record of the provider is what the
\* settings say, or the provider was shut down, or this attempt of Start had a
\* transaction refused, whatever else was lost, failed or edited (App.Start).
THEOREM RecordAgrees == Spec => []RunsAsRecorded
<1>1. Inv => RunsAsRecorded
  BY DEF Inv, Agrees, RunsAsRecorded
<1> QED  BY <1>1, InvInit, InvStep, PTL DEF Spec

-----------------------------------------------------------------------------
\* Where the wallet stands when nobody else sets up the home at the same time:
\* a process that found no seed file is the only one that writes it, and a
\* process that has a key has it from the home.
Alone == \A p, q \in Procs : at[p] \in SetUp /\ at[q] \in SetUp => p = q
SeedSteps ==
  \A p \in Procs :
    /\ at[p] = "seed" => ~home.legacy
    /\ at[p] = "createSeed" => ~home.legacy /\ home.seed = None
    /\ at[p] = "writeSeed" => ~home.legacy /\ home.seed = Empty
KeyFromHome ==
  \A p \in Procs :
    key[p] # None =>
      \/ home.legacy /\ key[p] = Old
      \/ ~home.legacy /\ key[p] = home.seed /\ home.seed \in Wallets
WalletInv == Alone /\ SeedSteps /\ KeyFromHome

\* The steps of config.Init and InitWallet.
LEMMA WalletFileStep ==
    ASSUME Inv, WalletInv, NEW p \in Procs,
           \/ LoadConfig(p) \/ MissConfig(p) \/ StatConfig(p) \/ CreateConfig(p)
           \/ WriteConfig(p) \/ OpenBadger(p) \/ CheckConfig(p) \/ StatSeed(p)
           \/ CreateSeed(p) \/ LoadSeed(p)
    PROVE  WalletInv'
<1> USE SettingsAssumption DEF Inv, TypeOK, WalletInv, LoadConfig, MissConfig,
        StatConfig, CreateConfig, WriteConfig, OpenBadger, CheckConfig, StatSeed,
        CreateSeed, LoadSeed, Goto, Exit, Fails, StartFails, Broadcast, Update, Same,
        AfterConfig, AfterWallet, services, SetUp, Keys
<1>1. Alone'
  BY DEF Alone
<1>2. SeedSteps'
  BY DEF Alone, SeedSteps, KeyFromHome
<1>3. KeyFromHome'
  BY DEF Alone, SeedSteps, KeyFromHome
<1> QED  BY <1>1, <1>2, <1>3

\* A process ends.
LEMMA WalletEndStep ==
    ASSUME Inv, WalletInv, NEW p \in Procs,
           \/ DatabaseTaken(p) \/ ConfigMalformed(p) \/ ConfigInvalid(p) \/ WriteSeed(p)
           \/ SeedUnreadable(p) \/ EndCommand(p) \/ Terminate(p) \/ BuildFails(p) \/ Crash(p)
    PROVE  WalletInv'
<1> USE SettingsAssumption DEF Inv, TypeOK, WalletInv, DatabaseTaken,
        ConfigMalformed, ConfigInvalid, WriteSeed, SeedUnreadable, EndCommand, Terminate, BuildFails, Crash, Goto,
        Exit, Fails, StartFails, Broadcast, Update, Same, AfterConfig, AfterWallet,
        services, SetUp, Keys
<1>1. Alone'
  BY DEF Alone
<1>2. SeedSteps'
  BY DEF Alone, SeedSteps, KeyFromHome
<1>3. KeyFromHome'
  BY DEF Alone, SeedSteps, KeyFromHome
<1> QED  BY <1>1, <1>2, <1>3

\* Where an attempt goes on that fails, or makes a transaction.
LEMMA AttemptGoes ==
    ASSUME NEW p \in Procs,
           \/ InitProvider(p) \/ UpdateSpace(p) \/ UpdateIp(p) \/ InitRefused(p)
           \/ ParamsFail(p) \/ SettingsMalformed(p)
    PROVE  \E l \in {"down", "settings", "ip", "params"} : at' = [at EXCEPT ![p] = l]
<1>1. ASSUME StartFails(p) PROVE \E l \in {"down", "settings"} : at' = [at EXCEPT ![p] = l]
  BY <1>1 DEF StartFails, Exit, Goto
<1>2. StartFails(p) \/ Goto(p, "ip") \/ Goto(p, "params")
  BY DEF InitProvider, UpdateSpace, UpdateIp, InitRefused, ParamsFail, SettingsMalformed,
     Update, Broadcast
<1> QED  BY <1>1, <1>2 DEF Goto

\* The steps of start leave the home alone.
LEMMA WalletStartStep ==
    ASSUME Inv, WalletInv, NEW p \in Procs,
           \/ BuildApp(p) \/ ReadSettings(p) \/ ProviderFound(p) \/ QueryFails(p)
           \/ InitProvider(p) \/ InitRefused(p) \/ SpaceSame(p) \/ UpdateSpace(p)
           \/ IpSame(p) \/ UpdateIp(p) \/ GetStorageParams(p) \/ ParamsFail(p)
           \/ SettingsMalformed(p) \/ StartQueue(p) \/ MakeManager(p) \/ DropClaims(p) \/ StartServices(p) \/ Notify(p)
           \/ Stop(p) \/ CloseFiles(p) \/ Signal(p)
    PROVE  WalletInv'
<1> USE SettingsAssumption DEF Inv, TypeOK, WalletInv, BuildApp, ReadSettings,
        ProviderFound, QueryFails, InitProvider, InitRefused, SpaceSame, UpdateSpace,
        IpSame, UpdateIp, GetStorageParams, ParamsFail, SettingsMalformed, StartQueue, MakeManager,
        DropClaims, StartServices, Notify, Stop, CloseFiles, Signal, Goto, Exit, Fails,
        StartFails, Broadcast, Update, Same, AfterConfig, AfterWallet, services,
        SetUp, Keys
<1>1. Alone'
  <2>1. \E l : at' = [at EXCEPT ![p] = l] /\ l \notin SetUp
    <3>1. CASE Stop(p)
      <4> HIDE DEF Inv, TypeOK, WalletInv, Stop
      <4> QED  BY <3>1, StopGoes
    <3>2. CASE InitProvider(p) \/ UpdateSpace(p) \/ UpdateIp(p) \/ InitRefused(p) \/ ParamsFail(p)
                 \/ SettingsMalformed(p)
      <4>1. PICK l \in {"down", "settings", "ip", "params"} : at' = [at EXCEPT ![p] = l]
        <5> HIDE DEF Inv, TypeOK, WalletInv, InitProvider, UpdateSpace, UpdateIp, InitRefused,
                 ParamsFail, SettingsMalformed
        <5> QED  BY <3>2, AttemptGoes
      <4> QED  BY <4>1
    <3>3. CASE SpaceSame(p) \/ IpSame(p) \/ GetStorageParams(p) \/ Notify(p)
      BY <3>3
    <3> QED  BY <3>1, <3>2, <3>3
  <2> QED  BY <2>1 DEF Alone
<1>2. SeedSteps'
  BY DEF Alone, SeedSteps, KeyFromHome
<1>3. KeyFromHome'
  BY DEF Alone, SeedSteps, KeyFromHome
<1> QED  BY <1>1, <1>2, <1>3

LEMMA WalletStep ==
    ASSUME Inv, WalletInv, [Next]_vars, "overlap" \notin incidents'
    PROVE  WalletInv'
<1>1. CASE UNCHANGED vars
  BY <1>1 DEF WalletInv, Alone, SeedSteps, KeyFromHome, vars, proc
<1>2. ASSUME NEW p \in Procs, NEW c \in Commands, Run(p, c) PROVE WalletInv'
  <2>1. \A q \in Procs : at[q] \notin SetUp
    BY <1>2 DEF Run
  <2> QED  BY <1>2, <2>1 DEF Run, Goto, Inv, TypeOK, WalletInv, Alone, SeedSteps, KeyFromHome,
                            SetUp
<1>3. ASSUME NEW p \in Procs, HomeStep(p) \/ StartStep(p) \/ Signal(p) \/ Crash(p)
      PROVE  WalletInv'
  BY <1>3, WalletFileStep, WalletEndStep, WalletStartStep DEF HomeStep, StartStep
<1>4. ASSUME NEW s \in Services, Begin(s) \/ End(s) PROVE WalletInv'
  BY <1>4 DEF Begin, End, proc, WalletInv, Alone, SeedSteps, KeyFromHome
<1>5. CASE Edit
  BY <1>5 DEF Edit, proc, Inv, TypeOK, WalletInv, Alone, SeedSteps, KeyFromHome
<1> QED  BY <1>1, <1>2, <1>3, <1>4, <1>5 DEF Next

\* What happened to a home is not forgotten.
LEMMA IncidentsStay == [Next]_vars => incidents \subseteq incidents'
<1> SUFFICES ASSUME [Next]_vars PROVE incidents \subseteq incidents'
  OBVIOUS
<1>1. CASE UNCHANGED vars \/ Edit \/ \E s \in Services : Begin(s) \/ End(s)
  BY <1>1 DEF vars, Edit, Begin, End
<1>2. ASSUME NEW p \in Procs, NEW c \in Commands, Run(p, c) PROVE incidents \subseteq incidents'
  BY <1>2 DEF Run
<1>3. ASSUME NEW p \in Procs, HomeStep(p) PROVE incidents' = incidents
  BY <1>3 DEF HomeStep, LoadConfig, ConfigMalformed, MissConfig, StatConfig, CreateConfig,
     WriteConfig, OpenBadger, DatabaseTaken, CheckConfig, ConfigInvalid, StatSeed, CreateSeed,
     WriteSeed, LoadSeed, SeedUnreadable, EndCommand, Terminate, Fails
<1>4. ASSUME NEW p \in Procs, StartStep(p) \/ Signal(p) \/ Crash(p) PROVE incidents' = incidents
  BY <1>4 DEF StartStep, BuildApp, BuildFails, ReadSettings, SettingsMalformed, ProviderFound,
     QueryFails, InitProvider, InitRefused, SpaceSame, UpdateSpace, IpSame, UpdateIp,
     GetStorageParams, ParamsFail, StartQueue, MakeManager, DropClaims, StartServices, Notify,
     Stop, CloseFiles, Signal, Crash, Fails, Same, Update, Broadcast
<1> QED  BY <1>1, <1>2, <1>3, <1>4 DEF Next

\* A process signs with the wallet that is in its home, through crashes and
\* restarts, unless a command began while another was still setting up the home
\* (createIfNotExists, InitWallet).
THEOREM WalletStays == Spec => []WalletKept
<1> DEFINE J == "overlap" \in incidents \/ WalletInv
<1>1. Init => J
  BY DEF Init, WalletInv, Alone, SeedSteps, KeyFromHome, SetUp
<1>2. Inv /\ J /\ [Next]_vars => J'
  BY WalletStep, IncidentsStay
<1>3. J => WalletKept
  BY DEF WalletInv, KeyFromHome, WalletKept
<1> HIDE DEF J
<1> QED  BY <1>1, <1>2, <1>3, InvInit, InvStep, PTL DEF Spec

-----------------------------------------------------------------------------
(* Shutting down: what the services' goroutines and flags are at each step  *)
(* of the process that holds the lock.                                     *)

ShuttingDown(p) == cmd[p] = "start" /\ at[p] \in {"stopping", "closing", "end"}

\* Services are there only once start has launched the queue; a goroutine that
\* has not begun has its flag down.
Launched ==
  /\ \A s \in Services : svc[s] \in {"off", "spawned"} => ~running[s]
  /\ \A s \in Services : svc[s] # "off" =>
       /\ lock \in Procs
       /\ at[lock] \in {"claims", "hung", "services", "notify", "serving"} \/ ShuttingDown(lock)
  /\ lock \in Procs /\ at[lock] \in {"claims", "hung", "services"} =>
       \A s \in Services \ {"queue"} : svc[s] = "off"

\* A Stop that was called left its service told, or deaf.
Heard ==
  \A i \in 1 .. stops : \A s \in Services :
    s = StopOrder[i] /\ (running[s] \/ svc[s] = "spawned") => s \in deaf

\* The Stops come one by one, and the file system is closed after the last.
Counted ==
  /\ stops # 0 => lock \in Procs /\ ShuttingDown(lock)
  /\ lock \in Procs /\ ShuttingDown(lock) =>
       IF at[lock] = "stopping" THEN stops < 5 ELSE stops = 5
  /\ lock \in Procs /\ at[lock] \in StartSteps \ {"files"} => open

ServiceInv == Launched /\ Heard /\ Counted

LEMMA OrderOfStops ==
  /\ StopOrder[1] = "api" /\ StopOrder[2] = "queue" /\ StopOrder[3] = "prover"
  /\ StopOrder[4] = "strays" /\ StopOrder[5] = "monitor" /\ Len(StopOrder) = 5
BY DEF StopOrder

\* Steps of other processes, and of one that holds the lock before it is built.
LEMMA ServicesAlone ==
    ASSUME Inv, ServiceInv, UNCHANGED services,
           \/ lock' = lock /\ (lock \in Procs => UNCHANGED <<at[lock], cmd[lock]>>)
           \/ /\ lock \in Procs => at[lock] \in SetUp \cup {"down"}
              /\ lock' \in Procs => /\ at'[lock'] \in SetUp \cup {"files", "end", "terminate"}
                                    /\ cmd'[lock'] = "start" => at'[lock'] # "end"
    PROVE  ServiceInv'
<1> USE DEF Inv, ServiceInv, services, ShuttingDown, StartSteps, SetUp
<1>1. Launched'
  BY DEF Launched
<1>2. Heard'
  BY DEF Heard
<1>3. Counted'
  BY DEF Counted
<1> QED  BY <1>1, <1>2, <1>3

LEMMA ServicesHome ==
    ASSUME Inv, ServiceInv, NEW p \in Procs,
           \/ LoadConfig(p) \/ MissConfig(p) \/ StatConfig(p) \/ CreateConfig(p)
           \/ WriteConfig(p) \/ OpenBadger(p) \/ CheckConfig(p) \/ StatSeed(p)
           \/ CreateSeed(p) \/ LoadSeed(p)
    PROVE  ServiceInv'
<1>1. at \in [Procs -> Steps] /\ at[p] \in SetUp /\ UNCHANGED <<services, cmd>>
  BY DEF Inv, TypeOK, LoadConfig, MissConfig, StatConfig, CreateConfig, WriteConfig,
     OpenBadger, CheckConfig, StatSeed, CreateSeed, LoadSeed, SetUp
<1>2. \E l \in SetUp \cup {"files", "end", "terminate"} :
        /\ at' = [at EXCEPT ![p] = l]
        /\ cmd[p] = "start" => l # "end"
  BY DEF LoadConfig, MissConfig, StatConfig, CreateConfig, WriteConfig, OpenBadger,
     CheckConfig, StatSeed, CreateSeed, LoadSeed, Goto, AfterConfig, AfterWallet, SetUp
<1>3. lock' = lock \/ (lock' = p /\ lock \notin Procs)
  BY SettingsAssumption DEF LoadConfig, MissConfig, StatConfig, CreateConfig, WriteConfig,
     OpenBadger, CheckConfig, StatSeed, CreateSeed, LoadSeed
<1> QED  BY <1>1, <1>2, <1>3, ServicesAlone

LEMMA ServicesExit ==
    ASSUME Inv, ServiceInv, NEW p \in Procs, Exit(p)
    PROVE  ServiceInv'
<1>1. CASE lock = p
  BY <1>1, SettingsAssumption
     DEF Exit, ServiceInv, Launched, Heard, Counted, ShuttingDown
<1>2. CASE lock # p
  <2>1. at \in [Procs -> Steps]
    BY DEF Inv, TypeOK
  <2>2. lock' = lock /\ (lock \in Procs => UNCHANGED <<at[lock], cmd[lock]>>)
        /\ UNCHANGED services
    BY <1>2, <2>1 DEF Exit
  <2> QED  BY <2>2, ServicesAlone
<1> QED  BY <1>1, <1>2

\* The steps of start before it launches anything, and between the launches.
LEMMA ServicesAsk ==
    ASSUME Inv, ServiceInv, NEW p \in Procs,
           \/ BuildApp(p) \/ ReadSettings(p) \/ ProviderFound(p) \/ QueryFails(p)
           \/ SpaceSame(p) \/ IpSame(p) \/ GetStorageParams(p) \/ MakeManager(p)
           \/ DropClaims(p) \/ Notify(p)
    PROVE  ServiceInv'
<1>1. at \in [Procs -> Steps] /\ lock = p /\ lock' = p /\ cmd' = cmd /\ cmd[p] = "start"
  BY DEF Inv, TypeOK, StartHolds, HasDatabase, StartSteps, BuildApp, ReadSettings,
     ProviderFound, QueryFails, SpaceSame, IpSame, GetStorageParams, MakeManager,
     DropClaims, Notify, Same
<1>2. UNCHANGED <<svc, running, stops, deaf>>
  BY DEF BuildApp, ReadSettings, ProviderFound, QueryFails, SpaceSame, IpSame,
     GetStorageParams, MakeManager, DropClaims, Notify, Same, services
<1>3. open' = open \/ open'
  BY DEF BuildApp, ReadSettings, ProviderFound, QueryFails, SpaceSame, IpSame,
     GetStorageParams, MakeManager, DropClaims, Notify, Same, services
<1>4. \/ /\ at[p] \in {"files", "settings", "query", "space", "ip", "params"}
         /\ at[p] = "files" => open'
         /\ at'[p] \in {"settings", "query", "register", "space", "ip", "params", "queue"}
      \/ at[p] = "claims" /\ at'[p] \in {"services", "hung"}
      \/ at[p] = "notify" /\ at'[p] = "serving"
  BY <1>1 DEF BuildApp, ReadSettings, ProviderFound, QueryFails, SpaceSame, IpSame,
     GetStorageParams, MakeManager, DropClaims, Notify, Same, Goto
<1> USE DEF ServiceInv, ShuttingDown, StartSteps
<1>5. Launched'
  BY <1>1, <1>2, <1>4 DEF Launched
<1>6. Heard'
  BY <1>2 DEF Heard
<1>7. Counted'
  BY <1>1, <1>2, <1>3, <1>4 DEF Counted
<1> QED  BY <1>5, <1>6, <1>7

\* An attempt of start fails, or a transaction goes through.
LEMMA ServicesRetry ==
    ASSUME Inv, ServiceInv, NEW p \in Procs,
           \/ InitProvider(p) \/ InitRefused(p) \/ UpdateSpace(p) \/ UpdateIp(p)
           \/ ParamsFail(p) \/ SettingsMalformed(p)
    PROVE  ServiceInv'
<1>1. /\ at \in [Procs -> Steps] /\ lock = p /\ cmd[p] = "start"
      /\ at[p] \in {"settings", "register", "space", "ip", "params"}
  BY DEF Inv, TypeOK, StartHolds, HasDatabase, StartSteps, InitProvider, InitRefused,
     UpdateSpace, UpdateIp, ParamsFail, SettingsMalformed
<1>2. \/ Exit(p)
      \/ /\ \E l \in {"settings", "ip", "params"} : at' = [at EXCEPT ![p] = l]
         /\ UNCHANGED <<lock, cmd, services>>
  BY DEF InitProvider, InitRefused, UpdateSpace, UpdateIp, ParamsFail, SettingsMalformed, Update,
     Broadcast, StartFails, Goto
<1>3. CASE ~Exit(p)
  <2>1. /\ at'[p] \in {"settings", "ip", "params"} /\ lock' = p
        /\ UNCHANGED <<cmd, svc, running, stops, deaf, open>>
    BY <1>1, <1>2, <1>3 DEF services
  <2> USE DEF ServiceInv, ShuttingDown, StartSteps
  <2>2. Launched'
    BY <1>1, <2>1 DEF Launched
  <2>3. Heard'
    BY <2>1 DEF Heard
  <2>4. Counted'
    BY <1>1, <2>1 DEF Counted
  <2> QED  BY <2>2, <2>3, <2>4
<1> QED  BY <1>3, ServicesExit

LEMMA ServicesLaunch ==
    ASSUME Inv, ServiceInv, NEW p \in Procs, StartQueue(p) \/ StartServices(p) \/ Signal(p)
    PROVE  ServiceInv'
<1>1. at \in [Procs -> Steps] /\ svc \in [Services -> {"off", "spawned", "loop", "ended"}]
  BY DEF Inv, TypeOK
<1>2. CASE Signal(p)
  <2>1. /\ lock' = lock /\ UNCHANGED <<cmd, svc, running, stops, deaf, open>>
        /\ at[p] = "serving" /\ at' = [at EXCEPT ![p] = "stopping"]
    BY <1>2 DEF Signal, Goto, services
  <2>2. lock = p /\ cmd[p] = "start" /\ at'[p] = "stopping"
    BY <1>1, <2>1 DEF Inv, StartHolds, HasDatabase, StartSteps
  <2> USE DEF ServiceInv, ShuttingDown, StartSteps
  <2>3. Launched'
    BY <2>1, <2>2 DEF Launched
  <2>4. Heard'
    BY <2>1 DEF Heard
  <2>5. Counted'
    BY <2>1, <2>2 DEF Counted
  <2> QED  BY <2>3, <2>4, <2>5
<1>3. CASE StartQueue(p) \/ StartServices(p)
  <2>1. /\ lock' = lock /\ UNCHANGED <<cmd, running, stops, deaf, open>>
        /\ \/ /\ at[p] = "queue" /\ at' = [at EXCEPT ![p] = "claims"]
              /\ svc' = [svc EXCEPT !["queue"] = "spawned"]
           \/ /\ at[p] = "services" /\ at' = [at EXCEPT ![p] = "notify"]
              /\ svc' = [s \in Services |-> IF s = "queue" THEN svc[s] ELSE "spawned"]
    BY <1>3 DEF StartQueue, StartServices, Goto
  <2>2. lock = p /\ cmd[p] = "start" /\ at'[p] \in {"claims", "notify"}
    BY <1>1, <2>1 DEF Inv, StartHolds, HasDatabase, StartSteps
  <2> USE DEF ServiceInv, ShuttingDown, StartSteps
  <2>3. Launched'
    BY <1>1, <2>1, <2>2 DEF Launched
  <2>4. stops = 0
    BY <2>1, <2>2 DEF Counted
  <2>5. Heard'
    BY <2>1, <2>4 DEF Heard
  <2>6. Counted'
    BY <2>1, <2>2 DEF Counted
  <2> QED  BY <2>3, <2>5, <2>6
<1> QED  BY <1>2, <1>3

LEMMA ServicesStop ==
    ASSUME Inv, ServiceInv, NEW p \in Procs, Stop(p)
    PROVE  ServiceInv'
<1>1. /\ at \in [Procs -> Steps] /\ stops \in Nat /\ lock' = lock
      /\ running \in [Services -> BOOLEAN] /\ deaf \subseteq Services
      /\ at[p] = "stopping" /\ stops' = stops + 1 /\ UNCHANGED <<cmd, svc, open>>
  BY DEF Inv, TypeOK, Stop
<1>2. lock = p /\ cmd[p] = "start"
  BY <1>1 DEF Inv, StartHolds, HasDatabase, StartSteps
<1>3. stops < 5
  BY <1>1, <1>2 DEF ServiceInv, Counted, ShuttingDown
<1>4. at'[p] = IF stops + 1 = 5 THEN "closing" ELSE "stopping"
  BY <1>1, OrderOfStops DEF Stop, Goto
<1>5. PICK s : /\ s = StopOrder[stops + 1]
               /\ running' = [x \in Services |-> running[x] /\ x # s]
               /\ deaf' = deaf \cup {x \in Services : x = s /\ svc[x] = "spawned"}
  BY DEF Stop
<1>6. \A x \in Services : running'[x] => running[x] /\ x # s
  BY <1>1, <1>5
<1> USE DEF ServiceInv, ShuttingDown, StartSteps
<1>7. Launched'
  BY <1>1, <1>2, <1>4, <1>6 DEF Launched
<1>8. Heard'
  <2> SUFFICES ASSUME NEW i \in 1 .. stops + 1, NEW x \in Services, x = StopOrder[i],
                      running'[x] \/ svc[x] = "spawned"
               PROVE  x \in deaf'
    BY <1>1 DEF Heard
  <2>1. CASE x = s
    BY <1>5, <1>6, <2>1
  <2>2. CASE x # s
    <3>1. i \in 1 .. stops
      BY <1>1, <1>5, <2>2
    <3> QED  BY <1>5, <1>6, <3>1 DEF Heard
  <2> QED  BY <2>1, <2>2
<1>9. Counted'
  BY <1>1, <1>2, <1>3, <1>4 DEF Counted
<1> QED  BY <1>7, <1>8, <1>9

LEMMA ServicesOther ==
    ASSUME Inv, ServiceInv,
           (\E p \in Procs : CloseFiles(p)) \/ (\E s \in Services : Begin(s) \/ End(s))
    PROVE  ServiceInv'
<1> USE DEF ServiceInv, ShuttingDown
<1>1. ASSUME NEW p \in Procs, CloseFiles(p) PROVE ServiceInv'
  <2>1. /\ at \in [Procs -> Steps] /\ lock' = lock /\ UNCHANGED <<cmd, svc, running, stops, deaf>>
        /\ at[p] = "closing" /\ at' = [at EXCEPT ![p] = "end"]
    BY <1>1 DEF CloseFiles, Goto, Inv, TypeOK
  <2>2. lock = p /\ cmd[p] = "start" /\ at'[p] = "end"
    BY <2>1 DEF Inv, StartHolds, HasDatabase, StartSteps
  <2>3. Launched'
    BY <2>1, <2>2 DEF Launched
  <2>4. Heard'
    BY <2>1 DEF Heard
  <2>5. Counted'
    BY <2>1, <2>2 DEF Counted, StartSteps
  <2> QED  BY <2>3, <2>4, <2>5
<1>2. ASSUME NEW s \in Services, Begin(s) \/ End(s) PROVE ServiceInv'
  <2>1. /\ svc \in [Services -> {"off", "spawned", "loop", "ended"}]
        /\ running \in [Services -> BOOLEAN]
        /\ UNCHANGED <<lock, at, cmd, stops, deaf, open>>
    BY <1>2 DEF Begin, End, proc, Inv, TypeOK
  <2>2. \A x \in Services : x # s => svc'[x] = svc[x] /\ running'[x] = running[x]
    BY <1>2, <2>1 DEF Begin, End
  <2>3. \/ svc[s] = "spawned" /\ svc'[s] = "loop"
        \/ svc[s] = "loop" /\ svc'[s] = "ended" /\ ~running'[s]
    BY <1>2, <2>1 DEF Begin, End
  <2>4. Launched'
    BY <2>1, <2>2, <2>3 DEF Launched
  <2>5. Heard'
    <3> SUFFICES ASSUME NEW i \in 1 .. stops, NEW x \in Services, x = StopOrder[i],
                        running'[x] \/ svc'[x] = "spawned"
                 PROVE  x \in deaf
      BY <2>1 DEF Heard
    <3>1. running[x] \/ svc[x] = "spawned"
      BY <2>2, <2>3
    <3> QED  BY <3>1 DEF Heard
  <2>6. Counted'
    BY <2>1 DEF Counted
  <2> QED  BY <2>4, <2>5, <2>6
<1> QED  BY <1>1, <1>2

LEMMA ServiceInvStep == ASSUME Inv, ServiceInv, [Next]_vars PROVE ServiceInv'
<1>1. CASE UNCHANGED vars \/ Edit
  <2>1. UNCHANGED <<lock, at, cmd, services>>
    BY <1>1 DEF Edit, vars, proc
  <2> QED  BY <2>1, ServicesAlone
<1>2. ASSUME NEW p \in Procs, NEW c \in Commands, Run(p, c) PROVE ServiceInv'
  <2>1. /\ at \in [Procs -> Steps] /\ cmd \in [Procs -> Commands] /\ lock' = lock
        /\ at[p] = "down" /\ at' = [at EXCEPT ![p] = "config"]
        /\ cmd' = [cmd EXCEPT ![p] = c] /\ UNCHANGED services
    BY <1>2 DEF Run, Goto, Inv, TypeOK
  <2>2. CASE lock = p
    BY <2>1, <2>2, ServicesAlone DEF SetUp
  <2>3. CASE lock # p
    BY <2>1, <2>3, ServicesAlone
  <2> QED  BY <2>2, <2>3
<1>3. ASSUME NEW p \in Procs,
             \/ DatabaseTaken(p) \/ ConfigMalformed(p) \/ ConfigInvalid(p) \/ WriteSeed(p)
             \/ SeedUnreadable(p) \/ EndCommand(p) \/ Terminate(p) \/ BuildFails(p) \/ Crash(p)
      PROVE  ServiceInv'
  <2>1. Exit(p)
    BY <1>3 DEF DatabaseTaken, ConfigMalformed, ConfigInvalid, WriteSeed, SeedUnreadable, EndCommand,
       Terminate, BuildFails, Crash, Fails
  <2> QED  BY <2>1, ServicesExit
<1>4. ASSUME NEW p \in Procs, HomeStep(p) \/ StartStep(p) \/ Signal(p) \/ Crash(p)
      PROVE  ServiceInv'
  BY <1>3, <1>4, ServicesHome, ServicesAsk, ServicesRetry, ServicesLaunch, ServicesStop,
     ServicesOther DEF HomeStep, StartStep
<1> QED  BY <1>1, <1>2, <1>4, ServicesOther DEF Next

\* When the file system is closed each service was told to stop, but for those
\* whose goroutine had not begun when its Stop came (App.Start).
THEOREM StopsAreHeard == Spec => []StopIsHeard
<1>1. Init => ServiceInv
  BY SettingsAssumption DEF Init, ServiceInv, Launched, Heard, Counted, ShuttingDown
<1>2. Inv /\ ServiceInv /\ [Next]_vars => ServiceInv'
  BY ServiceInvStep
<1>3. Inv /\ ServiceInv => StopIsHeard
  <2> SUFFICES ASSUME Inv, ServiceInv, ~open, NEW s \in Services, running[s]
               PROVE  s \in deaf
    BY DEF StopIsHeard
  <2>1. svc[s] # "off" /\ svc \in [Services -> {"off", "spawned", "loop", "ended"}]
    BY DEF ServiceInv, Launched, Inv, TypeOK
  <2>2. lock \in Procs /\ ShuttingDown(lock) /\ at[lock] = "end"
    BY <2>1 DEF ServiceInv, Launched, Counted, ShuttingDown, StartSteps
  <2>3. stops = 5
    BY <2>2 DEF ServiceInv, Counted
  <2>4. \E i \in 1 .. 5 : s = StopOrder[i]
    <3>1. s \in {"api", "queue", "prover", "strays", "monitor"}
      BY SettingsAssumption
    <3>2. 1 \in 1 .. 5 /\ 2 \in 1 .. 5 /\ 3 \in 1 .. 5 /\ 4 \in 1 .. 5 /\ 5 \in 1 .. 5
      OBVIOUS
    <3> QED  BY <3>1, <3>2, OrderOfStops
  <2> QED  BY <2>3, <2>4 DEF ServiceInv, Heard
<1> QED  BY <1>1, <1>2, <1>3, InvInit, InvStep, PTL DEF Spec

-----------------------------------------------------------------------------
(* One kind of block store.  A run that finds no config.yaml opens the kind  *)
(* that the flags say; it must not come as far as to take files.           *)

\* The kind that config.yaml names, whether or not viper can read it.
Suits(kind) == home.config \in Settings /\ kind = Kind(home.config.store)

\* The process will end before it serves: no wallet yet, which it has to make
\* first, or a config.yaml that a killed process left empty.
Doomed(p) ==
  /\ at[p] \in SetUp
  /\ \/ ~home.legacy /\ home.seed \notin Wallets
     \/ home.config = Empty /\ at[p] \in {"open", "wallet"}

\* What the block store is, or will be.
StoreInv ==
  /\ home.config = None => home.seed = None /\ ~home.legacy
  /\ \A p \in Procs :
       /\ at[p] \in {"stat", "create", "write", "open"} =>
            Suits(Kind(got[p].store)) \/ Doomed(p)
       /\ cmd[p] = "start" /\ at[p] \in {"wallet", "seed", "createSeed", "writeSeed"} =>
            Suits(store[p]) \/ Doomed(p)
       /\ at[p] \in StartSteps => Suits(store[p])
       /\ at[p] \in {"seed", "createSeed", "writeSeed"} => home.config # None
       /\ at[p] = "create" => home.config = None
       /\ at[p] = "write" => home.config = Empty
  /\ \A kind \in used : Suits(kind)

LEMMA StoreSetUp ==
    ASSUME Inv, WalletInv, StoreInv, NEW p \in Procs,
           \/ LoadConfig(p) \/ MissConfig(p) \/ StatConfig(p) \/ CreateConfig(p)
           \/ WriteConfig(p) \/ OpenBadger(p) \/ CheckConfig(p) \/ StatSeed(p)
           \/ CreateSeed(p) \/ LoadSeed(p)
    PROVE  StoreInv'
<1>1. /\ at \in [Procs -> Steps] /\ got \in [Procs -> Settings \cup {Flags}]
      /\ store \in [Procs -> {"flatfs", "badgerds", None}]
      /\ home \in [config : Settings \cup {None, Empty},
                   seed : Wallets \cup {None, Empty}, legacy : BOOLEAN]
  BY DEF Inv, TypeOK
<1>2. UNCHANGED <<cmd, used>>
  BY DEF LoadConfig, MissConfig, StatConfig, CreateConfig, WriteConfig, OpenBadger,
     CheckConfig, StatSeed, CreateSeed, LoadSeed
<1>3. at[p] \in SetUp /\ \A q \in Procs : q # p => at[q] \notin SetUp
  BY DEF WalletInv, Alone, SetUp, LoadConfig, MissConfig, StatConfig, CreateConfig,
     WriteConfig, OpenBadger, CheckConfig, StatSeed, CreateSeed, LoadSeed
<1>4. \A q \in Procs : q # p => at'[q] = at[q] /\ store'[q] = store[q]
  BY <1>1 DEF Goto, LoadConfig, MissConfig, StatConfig, CreateConfig, WriteConfig,
     OpenBadger, CheckConfig, StatSeed, CreateSeed, LoadSeed
<1>5. home'.config = None => home'.seed = None /\ ~home'.legacy
  BY <1>1, SettingsAssumption
     DEF StoreInv, LoadConfig, MissConfig, StatConfig, CreateConfig,
         WriteConfig, OpenBadger, CheckConfig, StatSeed, CreateSeed, LoadSeed
<1>8. \A kind : Suits(kind) => Suits(kind)'
  BY <1>1, SettingsAssumption
     DEF Suits, StoreInv, LoadConfig, MissConfig, StatConfig, CreateConfig,
         WriteConfig, OpenBadger, CheckConfig, StatSeed, CreateSeed, LoadSeed
<1>6. \A q \in Procs : q # p /\ at'[q] \in StartSteps => Suits(store[q])'
  BY <1>4, <1>8 DEF StoreInv, StartSteps
<1>7. /\ at'[p] \in {"stat", "create", "write", "open"} =>
           Suits(Kind(got[p].store))' \/ Doomed(p)'
      /\ cmd[p] = "start" /\ at'[p] \in {"wallet", "seed", "createSeed", "writeSeed"} =>
           Suits(store[p])' \/ Doomed(p)'
      /\ at'[p] \in StartSteps => Suits(store[p])'
      /\ at'[p] \in {"seed", "createSeed", "writeSeed"} => home'.config # None
      /\ at'[p] = "create" => home'.config = None
      /\ at'[p] = "write" => home'.config = Empty
  <2> USE SettingsAssumption DEF Goto, StoreInv, Doomed, SetUp, StartSteps, AfterConfig,
          AfterWallet
  <2>1. CASE LoadConfig(p)
    BY <1>1, <2>1 DEF LoadConfig, Suits, Read
  <2>2. CASE MissConfig(p)
    BY <1>1, <2>2 DEF MissConfig
  <2>3. CASE StatConfig(p) \/ CreateConfig(p) \/ WriteConfig(p)
    BY <1>1, <2>3 DEF StatConfig, CreateConfig, WriteConfig, Suits
  <2>4. CASE OpenBadger(p)
    BY <1>1, <2>4 DEF OpenBadger, Suits
  <2>5. CASE CheckConfig(p) \/ StatSeed(p) \/ CreateSeed(p) \/ LoadSeed(p)
    BY <1>1, <2>5 DEF CheckConfig, StatSeed, CreateSeed, LoadSeed, WalletInv, SeedSteps,
       Suits
  <2> QED  BY <2>1, <2>2, <2>3, <2>4, <2>5
<1> QED
  <2>1. \A q \in Procs : q # p => at'[q] \notin SetUp
    BY <1>3, <1>4
  <2> QED  BY <1>2, <1>5, <1>6, <1>7, <1>8, <2>1 DEF StoreInv, SetUp

LEMMA StoreExit ==
    ASSUME Inv, WalletInv, StoreInv, NEW p \in Procs, Exit(p), UNCHANGED used,
           UNCHANGED home \/ WriteSeed(p)
    PROVE  StoreInv'
<1>1. /\ at \in [Procs -> Steps] /\ store \in [Procs -> {"flatfs", "badgerds", None}]
      /\ got \in [Procs -> Settings \cup {Flags}]
  BY DEF Inv, TypeOK
<1>2. /\ at'[p] = "down" /\ cmd' = cmd
      /\ \A q \in Procs : q # p => /\ at'[q] = at[q] /\ store'[q] = store[q]
                                   /\ got'[q] = got[q]
  BY <1>1 DEF Exit
<1>3. CASE UNCHANGED home
  BY <1>2, <1>3 DEF StoreInv, StartSteps, Doomed, SetUp, Suits
<1>4. CASE WriteSeed(p)
  <2>1. \A q \in Procs : q # p => at[q] \notin SetUp
    BY <1>4 DEF WalletInv, Alone, SetUp, WriteSeed
  <2>2. home'.config # None /\ home'.config = home.config
    <3>1. home.seed = Empty /\ home \in [config : Settings \cup {None, Empty},
                                seed : Wallets \cup {None, Empty}, legacy : BOOLEAN]
      BY <1>4 DEF WalletInv, SeedSteps, WriteSeed, Inv, TypeOK
    <3>2. home'.config = home.config
      BY <1>4, <3>1 DEF WriteSeed
    <3> QED  BY <3>1, <3>2, SettingsAssumption DEF StoreInv
  <2> QED  BY <1>2, <2>1, <2>2 DEF StoreInv, StartSteps, SetUp, Suits
<1> QED  BY <1>3, <1>4

\* The steps of start, which has its block store; only one of them uses it.
LEMMA StoreStart ==
    ASSUME Inv, StoreInv, NEW p \in Procs,
           \/ BuildApp(p) \/ ReadSettings(p) \/ ProviderFound(p) \/ QueryFails(p)
           \/ SpaceSame(p) \/ IpSame(p) \/ GetStorageParams(p) \/ MakeManager(p)
           \/ DropClaims(p) \/ Notify(p) \/ StartQueue(p) \/ StartServices(p) \/ Stop(p)
           \/ CloseFiles(p) \/ Signal(p)
    PROVE  StoreInv'
<1>1. at \in [Procs -> Steps] /\ got \in [Procs -> Settings \cup {Flags}] /\ at[p] \in StartSteps
  BY DEF Inv, TypeOK, StartSteps, BuildApp, ReadSettings, ProviderFound, QueryFails,
     SpaceSame, IpSame, GetStorageParams, MakeManager, DropClaims, Notify, Same, StartQueue,
     StartServices, Stop, CloseFiles, Signal
<1>2. UNCHANGED <<home, cmd, store>> /\ \A q \in Procs : q # p => got'[q] = got[q]
  BY <1>1 DEF BuildApp, ReadSettings, ProviderFound, QueryFails, SpaceSame, IpSame,
     GetStorageParams, MakeManager, DropClaims, Notify, Same, StartQueue, StartServices, Stop,
     CloseFiles, Signal
<1>3. \E l : at' = [at EXCEPT ![p] = l] /\ l \notin SetUp
  <2>1. CASE Stop(p)
    BY <2>1, StopGoes DEF Goto, SetUp
  <2>2. CASE ~Stop(p)
    BY <2>2 DEF BuildApp, ReadSettings, ProviderFound, QueryFails, SpaceSame, IpSame,
       GetStorageParams, MakeManager, DropClaims, Notify, Same, StartQueue, StartServices,
       CloseFiles, Signal, Goto, SetUp
  <2> QED  BY <2>1, <2>2
<1>4. at'[p] \notin SetUp /\ \A q \in Procs : q # p => at'[q] = at[q]
  BY <1>1, <1>3
<1>5. used' = used \/ used' = used \cup {store[p]}
  BY DEF BuildApp, ReadSettings, ProviderFound, QueryFails, SpaceSame, IpSame,
     GetStorageParams, MakeManager, DropClaims, Notify, Same, StartQueue, StartServices, Stop,
     CloseFiles, Signal
<1> QED  BY <1>1, <1>2, <1>4, <1>5 DEF StoreInv, Doomed, SetUp, StartSteps, Suits

LEMMA StoreRetry ==
    ASSUME Inv, WalletInv, StoreInv, NEW p \in Procs,
           \/ InitProvider(p) \/ InitRefused(p) \/ UpdateSpace(p) \/ UpdateIp(p)
           \/ ParamsFail(p) \/ SettingsMalformed(p)
    PROVE  StoreInv'
<1>1. at \in [Procs -> Steps] /\ at[p] \in StartSteps
  BY DEF Inv, TypeOK, StartSteps, InitProvider, InitRefused, UpdateSpace, UpdateIp,
     ParamsFail, SettingsMalformed
<1>2. /\ UNCHANGED <<home, used>>
      /\ \/ Exit(p)
         \/ /\ \E l \in {"settings", "ip", "params"} : at' = [at EXCEPT ![p] = l]
            /\ UNCHANGED <<cmd, got, store>>
  BY DEF InitProvider, InitRefused, UpdateSpace, UpdateIp, ParamsFail, SettingsMalformed, Update,
     Broadcast, StartFails, Goto
<1>3. CASE ~Exit(p)
  <2>1. at'[p] \in {"settings", "ip", "params"} /\ \A q \in Procs : q # p => at'[q] = at[q]
    BY <1>1, <1>2, <1>3
  <2> QED  BY <1>1, <1>2, <1>3, <2>1 DEF StoreInv, Doomed, SetUp, StartSteps, Suits
<1> QED  BY <1>2, <1>3, StoreExit

LEMMA StoreStep ==
    ASSUME Inv, WalletInv, StoreInv, [Next]_vars, incidents' = {}
    PROVE  StoreInv'
<1>1. CASE UNCHANGED vars \/ \E s \in Services : Begin(s) \/ End(s)
  <2>1. UNCHANGED <<home, at, cmd, got, store, used>>
    BY <1>1 DEF Begin, End, vars, proc
  <2> QED  BY <2>1 DEF StoreInv, Doomed, Suits
<1>2. CASE Edit
  <2>1. UNCHANGED <<at, cmd, got, store, used>> /\ home.config \in Settings
        /\ \E c \in Settings : /\ home' = [home EXCEPT !.config = c]
                              /\ Kind(c.store) = Kind(home.config.store)
    BY <1>2 DEF Edit, proc
  <2>2. /\ home'.config \in Settings /\ home'.seed = home.seed
        /\ home'.legacy = home.legacy
        /\ Kind(home'.config.store) = Kind(home.config.store)
    BY <2>1 DEF Inv, TypeOK
  <2> QED  BY <2>1, <2>2, SettingsAssumption DEF StoreInv, Doomed, Suits
<1>3. ASSUME NEW p \in Procs, NEW c \in Commands, Run(p, c) PROVE StoreInv'
  <2>1. /\ at \in [Procs -> Steps] /\ cmd \in [Procs -> Commands]
        /\ at' = [at EXCEPT ![p] = "config"] /\ cmd' = [cmd EXCEPT ![p] = c]
        /\ UNCHANGED <<home, got, store, used>>
    BY <1>3 DEF Run, Goto, Inv, TypeOK
  <2>2. at'[p] = "config" /\ \A q \in Procs : q # p => at'[q] = at[q] /\ cmd'[q] = cmd[q]
    BY <2>1
  <2> QED  BY <2>1, <2>2 DEF StoreInv, Doomed, Suits, StartSteps
<1>4. ASSUME NEW p \in Procs,
             \/ DatabaseTaken(p) \/ ConfigMalformed(p) \/ ConfigInvalid(p) \/ WriteSeed(p)
             \/ SeedUnreadable(p) \/ EndCommand(p) \/ Terminate(p) \/ BuildFails(p) \/ Crash(p)
      PROVE  StoreInv'
  <2>1. Exit(p) /\ UNCHANGED used /\ (UNCHANGED home \/ WriteSeed(p))
    BY <1>4 DEF DatabaseTaken, ConfigMalformed, ConfigInvalid, WriteSeed, SeedUnreadable, EndCommand,
       Terminate, BuildFails, Crash, Fails
  <2> QED  BY <2>1, StoreExit
<1>5. ASSUME NEW p \in Procs, HomeStep(p) \/ StartStep(p) \/ Signal(p) \/ Crash(p)
      PROVE  StoreInv'
  BY <1>4, <1>5, StoreSetUp, StoreStart, StoreRetry DEF HomeStep, StartStep
<1> QED  BY <1>1, <1>2, <1>3, <1>5 DEF Next

\* What was stored is looked for in the same kind of block store by every later
\* run, unless one of the incidents happened: one that finds no config.yaml, or an
\* empty one, opens the other kind and ends before it takes a file (config.Init,
\* NewApp, InitWallet).
THEOREM StoreStays == Spec => []OneBlockStore
<1> DEFINE J == incidents # {} \/ (WalletInv /\ StoreInv)
<1>1. Init => J
  BY SettingsAssumption
     DEF Init, WalletInv, Alone, SeedSteps, KeyFromHome, SetUp, StoreInv, StartSteps
<1>2. Inv /\ J /\ [Next]_vars => J'
  BY WalletStep, StoreStep, IncidentsStay
<1>3. J => OneBlockStore
  <2> SUFFICES ASSUME StoreInv PROVE Cardinality(used) <= 1
    BY DEF OneBlockStore
  <2>1. used = {} \/ used = {Kind(home.config.store)}
    BY DEF StoreInv, Suits
  <2>2. Cardinality({}) = 0 /\ Cardinality({Kind(home.config.store)}) = 1
    BY FS_EmptySet, FS_Singleton
  <2> QED  BY <2>1, <2>2
<1> HIDE DEF J
<1> QED  BY <1>1, <1>2, <1>3, InvInit, InvStep, PTL DEF Spec
=============================================================================
