-------------------------------- MODULE App --------------------------------
(***************************************************************************)
(* The commands of the program: what they read and leave in the home       *)
(* directory (config.Init, config.InitWallet), how `start` builds the      *)
(* application, makes the chain's record of the provider agree with the    *)
(* configuration, starts the services, and shuts them down on a signal     *)
(* (core.NewApp, App.Start, cmd.StartCmd).                                 *)
(*                                                                         *)
(* A process is one call of the program.  An operator starts processes,    *)
(* edits config.yaml, sends signals; any process may be killed at any      *)
(* step.  The home directory and the chain outlive them.                   *)
(***************************************************************************)
EXTENDS Naturals, Sequences, FiniteSets

CONSTANTS
  Procs,      \* processes that may run at once
  Main,       \* the one that is started again whenever it ends
  Wallets,    \* the seeds generateWallet may come up with
  Old,        \* the key of a priv_storkey.json of a version 3 provider
  Settings,   \* what config.yaml may hold: records with ip, space, store
  Valid,      \* the settings that Config.Validate accepts
  Malformed,  \* those with a slip in their syntax, which viper cannot read
  Default,    \* DefaultConfig
  Flags,      \* what viper returns when no file was read: the flags' defaults
  Homes,      \* home directories to begin with: [config, seed, legacy]
  Replies,    \* how a broadcast may end: subset of Endings
  MaxTries,   \* restart-attempt
  Services,   \* the services in play: the queue and some of the others
  Budget,     \* bound: other commands, crashes, signals and edits
  None,       \* no such file, no record, no process, no key
  Empty,      \* the contents of a file created and not yet written
  Gone        \* the record of a provider that was shut down

Endings == {"ok", "rejected", "error", "lost"}

ASSUME SettingsAssumption ==
  /\ Default \in Valid /\ Valid \subseteq Settings
  /\ Malformed \subseteq Settings /\ Malformed \cap Valid = {}
  /\ \A h \in Homes : /\ h = [config |-> h.config, seed |-> h.seed, legacy |-> h.legacy]
                      /\ h.config \in Settings \cup {None}
                      /\ h.seed \in Wallets \cup {None}
                      /\ h.legacy \in BOOLEAN
  /\ None \notin Settings \cup Wallets \cup Procs \cup {Old}
  /\ Empty \notin Settings \cup Wallets \cup {None}
  /\ Old \notin Wallets
  /\ Gone # None
  /\ Replies \subseteq Endings
  /\ "queue" \in Services
  /\ Services \subseteq {"api", "queue", "prover", "strays", "monitor"}
  /\ Main \in Procs
  /\ MaxTries \in Nat /\ Budget \in Nat

Commands == {"start", "init", "data", "unused", "terminate"}

\* The services as Start stops them.  One that is not in play has nothing to stop.
StopOrder == <<"api", "queue", "prover", "strays", "monitor">>

VARIABLES
  home,      \* [config, seed, legacy]: the files of the home directory
  lock,      \* the process that has the database open
  record,    \* the chain's record of the provider, by key
  at,        \* the step a process is about to take; "down" when it has ended
  cmd,       \* its command
  got,       \* the settings it read last
  store,     \* the kind of block store NewApp opened
  key,       \* the key of its wallet
  seen,      \* the record the provider query returned
  tries,     \* restartAttempt
  refused,   \* history: processes whose transaction failed in this attempt of Start
  svc,       \* the services' goroutines, of the process that holds the lock
  running,   \* their running flags; of the api: whether it has a server
  stops,     \* how many Stops the process has called
  deaf,      \* history: services that had not begun when their Stop came
  open,      \* is the file system open?
  launches,  \* history: how often this process started a queue
  used,      \* history: the kinds of block stores that took files
  incidents, \* history: what may part a home from its wallet or its block store
  budget

proc == <<at, cmd, got, store, key, seen, tries, refused>>
services == <<svc, running, stops, deaf, open, launches>>
vars == <<home, lock, record, proc, services, used, incidents, budget>>

Keys == Wallets \cup {Old}
Kind(type) == IF type = "flatfs" THEN "flatfs" ELSE "badgerds"
WantOf(s) == [ip |-> s.ip, space |-> s.space]
Records == [ip : {s.ip : s \in Settings \cup {Flags}},
            space : {s.space : s \in Settings \cup {Flags}}]

\* What the process makes of config.yaml: without contents viper is left with
\* the flags.
Read(config) == IF config \in Settings THEN config ELSE Flags

\* The steps before the wallet is there.
SetUp == {"config", "stat", "create", "write", "open", "wallet", "seed",
          "createSeed", "writeSeed"}

Init ==
  /\ home \in Homes
  /\ lock = None
  /\ record = [k \in Keys |-> None]
  /\ at = [p \in Procs |-> "down"]
  /\ cmd = [p \in Procs |-> "start"]
  /\ got = [p \in Procs |-> Flags]
  /\ store = [p \in Procs |-> None]
  /\ key = [p \in Procs |-> None]
  /\ seen = [p \in Procs |-> None]
  /\ tries = [p \in Procs |-> 0]
  /\ refused = {}
  /\ svc = [s \in Services |-> "off"]
  /\ running = [s \in Services |-> FALSE]
  /\ stops = 0
  /\ deaf = {}
  /\ open = FALSE
  /\ launches = 0
  /\ used = {}
  /\ incidents = IF home.config = None /\ (home.seed # None \/ home.legacy) THEN {"bare"} ELSE {}
  /\ budget = Budget

Goto(p, l) == at' = [at EXCEPT ![p] = l]

\* The process ends: the system closes its files, releases the database's
\* lock, and its goroutines are gone.
Exit(p) ==
  /\ at' = [at EXCEPT ![p] = "down"]
  /\ got' = [got EXCEPT ![p] = Flags]
  /\ store' = [store EXCEPT ![p] = None]
  /\ key' = [key EXCEPT ![p] = None]
  /\ seen' = [seen EXCEPT ![p] = None]
  /\ tries' = [tries EXCEPT ![p] = 0]
  /\ refused' = refused \ {p}
  /\ UNCHANGED cmd
  /\ IF lock = p
       THEN /\ lock' = None
            /\ svc' = [s \in Services |-> "off"]
            /\ running' = [s \in Services |-> FALSE]
            /\ stops' = 0 /\ deaf' = {} /\ open' = FALSE /\ launches' = 0
       ELSE UNCHANGED <<lock, services>>

Fails(p) == Exit(p) /\ UNCHANGED <<home, record, used, incidents, budget>>

-----------------------------------------------------------------------------
(* config.Init and config.InitWallet.                                      *)

\* A command begins.  "init" stands for the ones that need the home directory
\* and a wallet and leave everything else alone (init, wallet address,
\* balance, withdraw), "data" for dump, get and flatten.
Run(p, c) ==
  /\ at[p] = "down"
  /\ IF p = Main /\ c = "start" THEN UNCHANGED budget
     ELSE budget > 0 /\ budget' = budget - 1
  /\ cmd' = [cmd EXCEPT ![p] = c]
  /\ Goto(p, "config")
  /\ incidents' = incidents \cup (IF \E q \in Procs : at[q] \in SetUp THEN {"overlap"} ELSE {})
  /\ UNCHANGED <<home, lock, record, got, store, key, seen, tries, refused, services, used>>

\* Where a command goes on after config.Init, and after InitWallet.
AfterConfig(p) == IF cmd[p] \in {"init", "terminate"} THEN "wallet" ELSE "open"
AfterWallet(p) ==
  CASE cmd[p] = "start" -> "files"
    [] cmd[p] = "terminate" -> "terminate"
    [] OTHER -> "end"

\* viper reads the file.  Nobody validates what it finds.
LoadConfig(p) ==
  /\ at[p] = "config"
  /\ home.config \notin Malformed \cup {None}
  /\ got' = [got EXCEPT ![p] = Read(home.config)]
  /\ Goto(p, AfterConfig(p))
  /\ UNCHANGED <<home, lock, record, cmd, store, key, seen, tries, refused, services, used, incidents, budget>>

ConfigMalformed(p) == at[p] = "config" /\ home.config \in Malformed /\ Fails(p)

\* There is none: createFiles will write one, and this process goes on with
\* what viper has without it.
MissConfig(p) ==
  /\ at[p] = "config"
  /\ home.config = None
  /\ got' = [got EXCEPT ![p] = Flags]
  /\ Goto(p, "stat")
  /\ UNCHANGED <<home, lock, record, cmd, store, key, seen, tries, refused, services, used, incidents, budget>>

\* createIfNotExists(config.yaml): Stat, Create and Write are three calls.
StatConfig(p) ==
  /\ at[p] = "stat"
  /\ Goto(p, IF home.config = None THEN "create" ELSE AfterConfig(p))
  /\ UNCHANGED <<home, lock, record, cmd, got, store, key, seen, tries, refused, services, used, incidents, budget>>

CreateConfig(p) ==
  /\ at[p] = "create"
  /\ home' = [home EXCEPT !.config = Empty]
  /\ Goto(p, "write")
  /\ UNCHANGED <<lock, record, cmd, got, store, key, seen, tries, refused, services, used, incidents, budget>>

WriteConfig(p) ==
  /\ at[p] = "write"
  /\ home' = [home EXCEPT !.config = Default]
  /\ Goto(p, AfterConfig(p))
  /\ UNCHANGED <<lock, record, cmd, got, store, key, seen, tries, refused, services, used, incidents, budget>>

\* The database's directory can be open in one process only.  NewApp (and
\* unused-cids) choose the block store by what config.Init returned.
OpenBadger(p) ==
  /\ at[p] = "open"
  /\ lock = None
  /\ lock' = p
  /\ store' = [store EXCEPT ![p] = Kind(got[p].store)]
  /\ Goto(p, IF cmd[p] = "data" THEN "end" ELSE "wallet")
  /\ UNCHANGED <<home, record, cmd, got, key, seen, tries, refused, services, used, incidents, budget>>

DatabaseTaken(p) == at[p] = "open" /\ lock # None /\ Fails(p)

\* InitWallet reads config.yaml itself, and validates it.
CheckConfig(p) ==
  /\ at[p] = "wallet"
  /\ home.config \in Valid
  /\ IF home.legacy
       THEN key' = [key EXCEPT ![p] = Old] /\ Goto(p, AfterWallet(p))
       ELSE Goto(p, "seed") /\ UNCHANGED key
  /\ UNCHANGED <<home, lock, record, cmd, got, store, seen, tries, refused, services, used, incidents, budget>>

ConfigInvalid(p) == at[p] = "wallet" /\ home.config \notin Valid /\ Fails(p)

\* Variants with a plausible mistake, named for it, stand before the operator
\* they vary; nothing else uses them.
StatSeedAnyway(p) ==
  /\ at[p] = "seed"
  /\ Goto(p, "createSeed")
  /\ UNCHANGED <<home, lock, record, cmd, got, store, key, seen, tries, refused, services, used, incidents, budget>>

\* createWallet: createIfNotExists(provider_wallet.json).  The process that
\* made the file says so and ends.
StatSeed(p) ==
  /\ at[p] = "seed"
  /\ home.seed = None
  /\ Goto(p, "createSeed")
  /\ UNCHANGED <<home, lock, record, cmd, got, store, key, seen, tries, refused, services, used, incidents, budget>>

CreateSeed(p) ==
  /\ at[p] = "createSeed"
  /\ home' = [home EXCEPT !.seed = Empty]
  /\ Goto(p, "writeSeed")
  /\ UNCHANGED <<lock, record, cmd, got, store, key, seen, tries, refused, services, used, incidents, budget>>

WriteSeedAndGoOn(p) ==
  /\ at[p] = "writeSeed"
  /\ \E w \in Wallets : /\ home' = [home EXCEPT !.seed = w]
                       /\ key' = [key EXCEPT ![p] = w]
  /\ Goto(p, AfterWallet(p))
  /\ UNCHANGED <<lock, record, cmd, got, store, seen, tries, refused, services, used, incidents, budget>>

WriteSeed(p) ==
  /\ at[p] = "writeSeed"
  /\ \E w \in Wallets : home' = [home EXCEPT !.seed = w]
  /\ Exit(p)
  /\ UNCHANGED <<record, used, incidents, budget>>

LoadSeed(p) ==
  /\ at[p] = "seed"
  /\ home.seed \in Wallets
  /\ key' = [key EXCEPT ![p] = home.seed]
  /\ Goto(p, AfterWallet(p))
  /\ UNCHANGED <<home, lock, record, cmd, got, store, seen, tries, refused, services, used, incidents, budget>>

SeedUnreadable(p) == at[p] = "seed" /\ home.seed = Empty /\ Fails(p)

EndCommand(p) == at[p] = "end" /\ Fails(p)

\* terminate: MsgShutdownProvider, which the chain accepts or does not.
Terminate(p) ==
  /\ at[p] = "terminate"
  /\ \/ record[key[p]] # None /\ record' = [record EXCEPT ![key[p]] = Gone]
     \/ UNCHANGED record
  /\ Exit(p)
  /\ UNCHANGED <<home, used, incidents, budget>>

HomeStep(p) ==
  \/ LoadConfig(p) \/ ConfigMalformed(p) \/ MissConfig(p) \/ StatConfig(p)
  \/ CreateConfig(p) \/ WriteConfig(p)
  \/ OpenBadger(p) \/ DatabaseTaken(p)
  \/ CheckConfig(p) \/ ConfigInvalid(p)
  \/ StatSeed(p) \/ CreateSeed(p) \/ WriteSeed(p) \/ LoadSeed(p) \/ SeedUnreadable(p)
  \/ EndCommand(p) \/ Terminate(p)

-----------------------------------------------------------------------------
(* NewApp's end, App.Start and StartCmd's loop.                            *)

\* NewFileSystem, which may fail on the port of the ipfs host.
BuildApp(p) ==
  /\ at[p] = "files"
  /\ open' = TRUE
  /\ Goto(p, "settings")
  /\ UNCHANGED <<home, lock, record, cmd, got, store, key, seen, tries, refused,
                 svc, running, stops, deaf, launches, used, incidents, budget>>

BuildFails(p) == at[p] = "files" /\ Fails(p)

\* The provider query: its answer, with the space as text that the chain made of a
\* number, or an error, which Start takes to mean that there is no record.
ProviderFound(p) ==
  /\ at[p] = "query"
  /\ record[key[p]] \notin {None, Gone}
  /\ seen' = [seen EXCEPT ![p] = record[key[p]]]
  /\ Goto(p, "space")
  /\ UNCHANGED <<home, lock, record, cmd, got, store, key, tries, refused, services, used, incidents, budget>>

QueryErrorReturned(p) ==
  /\ at[p] = "query"
  /\ Goto(p, "settings")
  /\ UNCHANGED <<home, lock, record, cmd, got, store, key, seen, tries, refused, services, used, incidents, budget>>

QueryFails(p) ==
  /\ at[p] = "query"
  /\ Goto(p, "register")
  /\ UNCHANGED <<home, lock, record, cmd, got, store, key, seen, tries, refused, services, used, incidents, budget>>

StartFailsUncounted(p) ==
  /\ Goto(p, "settings")
  /\ UNCHANGED <<lock, cmd, got, store, key, seen, tries, refused, services>>

\* Start returns an error: StartCmd waits a minute and calls it again, up to
\* MaxTries times, then the process ends.
StartFails(p) ==
  IF tries[p] < MaxTries
    THEN /\ tries' = [tries EXCEPT ![p] = @ + 1]
         /\ Goto(p, "settings")
         /\ UNCHANGED <<lock, cmd, got, store, key, seen, refused, services>>
    ELSE Exit(p)

\* Start reads config.yaml again; the block store stays what NewApp opened.
ReadSettings(p) ==
  /\ at[p] = "settings"
  /\ home.config \notin Malformed
  /\ got' = [got EXCEPT ![p] = Read(home.config)]
  /\ refused' = refused \ {p}
  /\ Goto(p, "query")
  /\ UNCHANGED <<home, lock, record, cmd, store, key, seen, tries, services, used, incidents, budget>>

SettingsMalformed(p) ==
  /\ at[p] = "settings"
  /\ home.config \in Malformed
  /\ StartFails(p)
  /\ UNCHANGED <<home, record, used, incidents, budget>>

\* A transaction that would leave the record as rec: included, included but failed
\* (res.Code is not looked at), turned down before, or included with its answer lost.
Broadcast(p, rec, next) ==
  \E r \in Replies :
    /\ record' = IF r \in {"ok", "lost"} THEN [record EXCEPT ![key[p]] = rec] ELSE record
    /\ IF r \in {"ok", "rejected"}
         THEN /\ Goto(p, next)
              /\ refused' = refused \cup {q \in {p} : r = "rejected"}
              /\ UNCHANGED <<lock, cmd, got, store, key, seen, tries, services>>
         ELSE StartFails(p)
    /\ UNCHANGED <<home, used, incidents, budget>>

Registered(p) == record[key[p]] \notin {None, Gone}

\* initProviderOnChain.  For a provider the chain knows, the simulation that
\* sets the gas fails.
InitProvider(p) ==
  /\ at[p] = "register"
  /\ ~Registered(p)
  /\ Broadcast(p, WantOf(got[p]), "params")

InitRefused(p) ==
  /\ at[p] = "register"
  /\ Registered(p)
  /\ StartFails(p)
  /\ UNCHANGED <<home, record, used, incidents, budget>>

\* updateSpace and updateIp: only when the queried record differs.  A provider
\* that was shut down in between cannot be updated.
Same(p, l, next) ==
  /\ at[p] = l
  /\ Goto(p, next)
  /\ UNCHANGED <<home, lock, record, cmd, got, store, key, seen, tries, refused, services, used, incidents, budget>>

Update(p, rec, next) ==
  IF Registered(p)
    THEN Broadcast(p, rec, next)
    ELSE StartFails(p) /\ UNCHANGED <<home, record, used, incidents, budget>>

SpaceSame(p) == Same(p, "space", "ip") /\ seen[p].space = got[p].space

UpdateSpaceOrIp(p) ==
  /\ at[p] = "space"
  /\ seen[p].space # got[p].space
  /\ Update(p, [ip |-> record[key[p]].ip, space |-> got[p].space], "params")

UpdateSpace(p) ==
  /\ at[p] = "space"
  /\ seen[p].space # got[p].space
  /\ Update(p, [ip |-> record[key[p]].ip, space |-> got[p].space], "ip")

IpSame(p) == Same(p, "ip", "params") /\ seen[p].ip = got[p].ip

UpdateIp(p) ==
  /\ at[p] = "ip"
  /\ seen[p].ip # got[p].ip
  /\ Update(p, [ip |-> got[p].ip, space |-> record[key[p]].space], "params")

\* The last call of Start that can fail.
GetStorageParams(p) == Same(p, "params", "queue")

ParamsAfterQueue(p) ==
  /\ at[p] \in {"params", "claims"}
  /\ StartFails(p)
  /\ UNCHANGED <<home, record, used, incidents, budget>>

ParamsFail(p) ==
  /\ at[p] = "params"
  /\ StartFails(p)
  /\ UNCHANGED <<home, record, used, incidents, budget>>

\* NewQueue and go Listen.
StartQueue(p) ==
  /\ at[p] = "queue"
  /\ svc' = [svc EXCEPT !["queue"] = "spawned"]
  /\ launches' = launches + 1
  /\ Goto(p, "claims")
  /\ UNCHANGED <<home, lock, record, cmd, got, store, key, seen, tries, refused,
                 running, stops, deaf, open, used, incidents, budget>>

\* NewStrayManager, which returns when the queue has answered its claims
\* (Strays!ClaimAnswered) ...
MakeManager(p) == Same(p, "claims", "services")

\* ... or waits for ever, once the queue has dropped one (Queue!ResetQueue): only a kill
\* ends it.
DropClaims(p) == Same(p, "claims", "hung")

\* go Serve, go prover.Start, ...
StartServices(p) ==
  /\ at[p] = "services"
  /\ svc' = [s \in Services |-> IF s = "queue" THEN svc[s] ELSE "spawned"]
  /\ used' = used \cup {store[p]}
  /\ Goto(p, "notify")
  /\ UNCHANGED <<home, lock, record, cmd, got, store, key, seen, tries, refused,
                 running, stops, deaf, open, launches, incidents, budget>>

\* signal.Notify: from here on a signal no longer kills the process.
Notify(p) == Same(p, "notify", "serving")

-----------------------------------------------------------------------------
(* Shutting down.                                                          *)

\* One Stop (api.Close first).  It clears the flag, or finds nothing to clear
\* because the goroutine has not come so far.
Stop(p) ==
  /\ at[p] = "stopping"
  /\ LET s == StopOrder[stops + 1]
     IN /\ running' = [x \in Services |-> running[x] /\ x # s]
        /\ deaf' = deaf \cup {x \in Services : x = s /\ svc[x] = "spawned"}
  /\ stops' = stops + 1
  /\ Goto(p, IF stops + 1 = Len(StopOrder) THEN "closing" ELSE "stopping")
  /\ UNCHANGED <<home, lock, record, cmd, got, store, key, seen, tries, refused,
                 svc, open, launches, used, incidents, budget>>

CloseFilesFirst(p) ==
  /\ at[p] = "stopping"
  /\ open' = FALSE
  /\ UNCHANGED <<home, lock, record, proc, svc, running, stops, deaf, launches, used, incidents, budget>>

\* Thirty seconds later, whoever still uses it.
CloseFiles(p) ==
  /\ at[p] = "closing"
  /\ open' = FALSE
  /\ Goto(p, "end")
  /\ UNCHANGED <<home, lock, record, cmd, got, store, key, seen, tries, refused,
                 svc, running, stops, deaf, launches, used, incidents, budget>>

StartStep(p) ==
  \/ BuildApp(p) \/ BuildFails(p) \/ ReadSettings(p) \/ SettingsMalformed(p)
  \/ ProviderFound(p) \/ QueryFails(p) \/ InitProvider(p) \/ InitRefused(p)
  \/ SpaceSame(p) \/ UpdateSpace(p) \/ IpSame(p) \/ UpdateIp(p)
  \/ GetStorageParams(p) \/ ParamsFail(p)
  \/ StartQueue(p) \/ MakeManager(p) \/ DropClaims(p) \/ StartServices(p) \/ Notify(p)
  \/ Stop(p) \/ CloseFiles(p)

\* A service's goroutine sets its own flag (the api: its server) and loops
\* until the flag is cleared.
Begin(s) ==
  /\ svc[s] = "spawned"
  /\ svc' = [svc EXCEPT ![s] = "loop"]
  /\ running' = [running EXCEPT ![s] = TRUE]
  /\ UNCHANGED <<home, lock, record, proc, stops, deaf, open, launches, used, incidents, budget>>

End(s) ==
  /\ svc[s] = "loop"
  /\ ~running[s]
  /\ svc' = [svc EXCEPT ![s] = "ended"]
  /\ UNCHANGED <<home, lock, record, proc, running, stops, deaf, open, launches, used, incidents, budget>>

-----------------------------------------------------------------------------
(* The operator.                                                           *)

\* SIGINT or SIGTERM: once Notify was called Start returns to shut down (and
\* further signals are not looked at), before that the process dies.
Signal(p) ==
  /\ budget > 0 /\ budget' = budget - 1
  /\ at[p] = "serving"
  /\ Goto(p, "stopping")
  /\ UNCHANGED <<home, lock, record, cmd, got, store, key, seen, tries, refused, services, used, incidents>>

Crash(p) ==
  /\ budget > 0 /\ budget' = budget - 1
  /\ at[p] # "down"
  /\ Exit(p)
  /\ UNCHANGED <<home, record, used, incidents>>

\* The operator edits a config.yaml that is there.
Edit ==
  /\ budget > 0 /\ budget' = budget - 1
  /\ home.config \in Settings
  /\ \E c \in Settings :
        /\ home' = [home EXCEPT !.config = c]
        /\ incidents' = incidents \cup
               (IF Kind(c.store) # Kind(home.config.store) THEN {"kind"} ELSE {})
  /\ UNCHANGED <<lock, record, proc, services, used>>

Next ==
  \/ \E p \in Procs : \/ \E c \in Commands : Run(p, c)
                      \/ HomeStep(p) \/ StartStep(p) \/ Signal(p) \/ Crash(p)
  \/ \E s \in Services : Begin(s) \/ End(s)
  \/ Edit

Spec == Init /\ [][Next]_vars

\* A process and its goroutines go on, but for the wait for the claims, which the
\* queue may never end; the provider is started again when it ended (by the operator
\* or by a service manager); a node that is asked again and again answers some day,
\* takes a transaction, and has room in its mempool.
Succeeds(p) ==
  /\ InitProvider(p) \/ UpdateSpace(p) \/ UpdateIp(p)
  /\ at'[p] \in {"ip", "params"}
  /\ record' # record

FairSpec ==
  /\ Spec
  /\ \A p \in Procs : WF_vars((HomeStep(p) \/ StartStep(p)) /\ at[p] # "claims")
  /\ \A s \in Services : WF_vars(Begin(s) \/ End(s))
  /\ WF_vars(Run(Main, "start"))
  /\ SF_vars(BuildApp(Main))
  /\ SF_vars(ProviderFound(Main))
  /\ SF_vars(Succeeds(Main))
  /\ SF_vars(GetStorageParams(Main))
  /\ SF_vars(MakeManager(Main))

-----------------------------------------------------------------------------
\* The steps of start once the wallet is there, and of every command.
StartSteps == {"files", "settings", "query", "register", "space", "ip", "params",
               "queue", "claims", "hung", "services", "notify", "serving", "stopping",
               "closing"}
Steps == SetUp \cup StartSteps \cup {"down", "terminate", "end"}

TypeOK ==
  /\ home \in [config : Settings \cup {None, Empty},
               seed : Wallets \cup {None, Empty}, legacy : BOOLEAN]
  /\ lock \in Procs \cup {None}
  /\ record \in [Keys -> Records \cup {None, Gone}]
  /\ at \in [Procs -> Steps]
  /\ cmd \in [Procs -> Commands]
  /\ got \in [Procs -> Settings \cup {Flags}]
  /\ store \in [Procs -> {"flatfs", "badgerds", None}]
  /\ key \in [Procs -> Keys \cup {None}]
  /\ seen \in [Procs -> Records \cup {None}]
  /\ tries \in [Procs -> 0 .. MaxTries]
  /\ refused \subseteq Procs
  /\ svc \in [Services -> {"off", "spawned", "loop", "ended"}]
  /\ running \in [Services -> BOOLEAN]
  /\ stops \in Nat
  /\ deaf \subseteq Services
  /\ open \in BOOLEAN
  /\ used \subseteq {"flatfs", "badgerds"}
  /\ incidents \subseteq {"bare", "kind", "overlap"}
  /\ budget \in 0 .. Budget

\* However often Start failed and was called again, and wherever it failed,
\* the services were started once: no attempt that fails leaves a queue or a
\* prover behind for the next one to compete with.
ServicesOnce == launches <= 1

\* While the services run, what the chain says of the provider is what the
\* settings say that they run with, or somebody shut the provider down, or the
\* chain refused a transaction of this very attempt.  Queries that fail, updates
\* that fail after the other one went through, lost answers, edits between the
\* attempts, and what was refused in an earlier one do not part the two.
RunsAsRecorded ==
  \A p \in Procs \ refused :
    at[p] \in {"queue", "claims", "services", "notify", "serving"} =>
      record[key[p]] \in {WantOf(got[p]), Gone}

\* No crash, restart, retry or edit makes a process sign with a wallet that is
\* not the one in its home directory, and no second command either unless it
\* began while another was still setting up the home.
WalletKept ==
  "overlap" \in incidents \/
  \A p \in Procs : key[p] # None => key[p] = IF home.legacy THEN Old ELSE home.seed

\* What was stored is looked for in the same kind of block store by every
\* later run, although a run that finds no config.yaml does not use the one it
\* writes: unless the home began with a wallet and no config.yaml, the operator
\* named another kind, or a command began while another set up the home.
OneBlockStore == incidents # {} \/ Cardinality(used) <= 1

\* When the file system is closed every service was told to stop, but for those
\* whose goroutine had not begun when its Stop came.
StopIsHeard == ~open => \A s \in Services : running[s] => s \in deaf

\* Every command ends, or serves, or waits for the queue to answer the claims of
\* its hands: no other failure of the node, the chain or the files leaves one
\* between.
Settles ==
  \A p \in Procs : at[p] # "down" ~> at[p] \in {"down", "serving", "claims", "hung"}

\* Started again whenever it ends, the provider serves at last, unless a crash
\* left an empty file in the home or the operator an invalid one, or a start waits
\* for good for the claims of its hands.
Damaged == home.config \notin Valid \cup {None} \/ home.seed = Empty
Hangs == \E p \in Procs : at[p] \in {"claims", "hung"}
ServesAtLast == <>[](Damaged \/ Hangs) \/ []<>(\E p \in Procs : at[p] = "serving")
=============================================================================
