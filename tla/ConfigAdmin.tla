----------------------------- MODULE ConfigAdmin -----------------------------
(***************************************************************************)
(* The admin calls of ds2api that change the configuration                 *)
(* (internal/httpapi/admin): API keys, accounts, proxies, whole            *)
(* configurations, settings; the account test and the synchronisation      *)
(* with Vercel, which call out and change it in between.                   *)
(*                                                                         *)
(* A call is one Update of the store and, where the accounts change, a     *)
(* reset of the account pool; the reset's own interleavings are            *)
(* AccountPool's.  Settings are checked against a snapshot before the      *)
(* Update, the account test and the synchronisation are steps.             *)
(***************************************************************************)
EXTENDS ConfigStore

CONSTANTS
    Careful,    \* admins name proxies that exist and wait for one call before the next
    MaxWaiting  \* bound: settings, tests and synchronisations under way at a time

VARIABLES
    pool,     \* the accounts the pool queues
    settings, \* limits checked by updateSettings and not yet stored
    testing,  \* per account: the state of its test
    sync,     \* the synchronisation under way: its phase and its export
    remote,   \* DS2API_CONFIG_JSON of the Vercel project
    cutOff    \* history: a synchronisation changed remote and did not get to say so

adminVars == <<configVars, pool, settings, testing, sync, remote, cutOff>>

NoSettings == [perAccount |-> 0, global |-> 0]
Idle == [phase |-> "idle", export |-> EmptyConfig]
calls == <<settings, testing, sync, remote, cutOff>>

Waiting == {a \in Account : testing[a] # "no"}
           \cup {c \in {"settings"} : settings # NoSettings}
           \cup {c \in {"sync"} : sync # Idle}

RoomToWait == Cardinality(Waiting) < MaxWaiting

(* Nothing else is half done. *)
Alone == Careful => settings = NoSettings

ProxyChoice(c) == {None} \cup IF Careful THEN c.proxies ELSE Proxy

Reset == pool' = DOMAIN cfg'.accounts

WithAccounts(c, new) == [c EXCEPT !.accounts = Joined(@, new)]

(* A limit that is not set leaves the one there is. *)
WithLimits(c, new) ==
    [c EXCEPT !.perAccount = IF new.perAccount > 0 THEN new.perAccount ELSE @,
              !.global = IF new.global > 0 THEN new.global ELSE @]

----------------------------------------------------------------------------
(* API keys. *)

AddKey(k, name) ==
    /\ k \notin DOMAIN cfg.keys
    /\ Update([cfg EXCEPT !.keys = Joined([x \in {k} |-> name], @)])
    /\ UNCHANGED <<pool, calls>>

RenameKey(k, name) ==
    /\ k \in DOMAIN cfg.keys /\ cfg.keys[k] # name
    /\ Update([cfg EXCEPT !.keys[k] = name])
    /\ UNCHANGED <<pool, calls>>

DeleteKey(k) ==
    /\ k \in DOMAIN cfg.keys
    /\ Update([cfg EXCEPT !.keys = Restrict(@, DOMAIN @ \ {k})])
    /\ UNCHANGED <<pool, calls>>

----------------------------------------------------------------------------
(* Accounts and proxies. *)

AddAccount(a, p) ==
    /\ a \notin DOMAIN cfg.accounts
    /\ p \in cfg.proxies \cup {None}
    /\ Update(WithAccounts(cfg, [x \in {a} |-> [proxy |-> p, token |-> FALSE]]))
    /\ Reset /\ UNCHANGED calls

DeleteAccount(a) ==
    /\ a \in DOMAIN cfg.accounts
    /\ Update([cfg EXCEPT !.accounts = Restrict(@, DOMAIN @ \ {a})])
    /\ Reset /\ UNCHANGED calls

BindProxy(a, p) ==
    /\ a \in DOMAIN cfg.accounts /\ p \in cfg.proxies \cup {None}
    /\ LET c == [cfg EXCEPT !.accounts[a].proxy = p] IN ProxiesKnown(c) /\ Update(c)
    /\ Reset /\ UNCHANGED calls

AddProxy(p) ==
    /\ p \notin cfg.proxies
    /\ LET c == [cfg EXCEPT !.proxies = @ \cup {p}] IN ProxiesKnown(c) /\ Update(c)
    /\ UNCHANGED <<pool, calls>>

(* Mutant: the accounts keep their reference, and nobody checks. *)
DeleteProxyOnly(p) ==
    /\ p \in cfg.proxies
    /\ Update([cfg EXCEPT !.proxies = @ \ {p}])
    /\ UNCHANGED <<pool, calls>>

(* Its accounts are unbound with it. *)
DeleteProxy(p) ==
    /\ p \in cfg.proxies
    /\ LET c == [cfg EXCEPT
                   !.proxies = @ \ {p},
                   !.accounts = [a \in DOMAIN @ |->
                       IF @[a].proxy = p THEN [@[a] EXCEPT !.proxy = None] ELSE @[a]]]
       IN ProxiesKnown(c) /\ Update(c)
    /\ UNCHANGED <<pool, calls>>

----------------------------------------------------------------------------
(* Whole configurations. *)

(* The accounts a request brings: no tokens. *)
Listed(c) == Restrict(Tokenless(c).accounts,
                      {a \in DOMAIN c.accounts : c.accounts[a].proxy \in ProxyChoice(cfg)})

(* updateConfig: the accounts and the plain list of keys are replaced. *)
UpdateConfig(c) ==
    /\ UpdateKeys([cfg EXCEPT !.accounts = Listed(c)], DOMAIN c.keys)
    /\ Reset /\ UNCHANGED calls

(* mergeAPIKeysPreferStructured: a record with a name is kept. *)
Merged(old, new) ==
    [k \in DOMAIN old \cup DOMAIN new |->
        IF k \notin DOMAIN old \/ (old[k] = "" /\ k \in DOMAIN new) THEN new[k] ELSE old[k]]

(* batchImport: accounts that are there are left alone. *)
BatchImport(c) ==
    /\ Update([WithAccounts(cfg, Listed(c)) EXCEPT !.keys = Merged(@, c.keys)])
    /\ Reset /\ UNCHANGED calls

(* configImport in its two modes: a configuration is checked as a whole. *)
MergeConfig(c) ==
    /\ Alone
    /\ LET next == [WithLimits(WithAccounts(cfg, Tokenless(c).accounts), c) EXCEPT
                      !.keys = Merged(@, c.keys)]
       IN Valid(next) /\ Update(next)
    /\ Reset /\ UNCHANGED calls

ReplaceConfig(c) ==
    /\ Alone
    /\ LET next == [Tokenless(c) EXCEPT !.synced = cfg.synced]
       IN Valid(next) /\ UpdateKeys(next, DOMAIN c.keys)
    /\ Reset /\ UNCHANGED calls

----------------------------------------------------------------------------
(* Settings: checked against a snapshot, then stored. *)

CheckSettings(s) ==
    /\ alive = "up" /\ RoomToWait /\ settings = NoSettings /\ s # NoSettings
    /\ LimitsAgree(WithLimits(cfg, s))
    /\ settings' = s
    /\ UNCHANGED <<configVars, pool, testing, sync, remote, cutOff>>

StoreSettings ==
    /\ settings # NoSettings
    /\ Update(WithLimits(cfg, settings))
    /\ settings' = NoSettings
    /\ UNCHANGED <<pool, testing, sync, remote, cutOff>>

----------------------------------------------------------------------------
(* testAccount: a login, its token stored, a session, the status; a login   *)
(* or session that fails ends it.                                           *)

Tested(a, state) == testing' = [testing EXCEPT ![a] = state]

TestBegins(a) ==
    /\ alive = "up" /\ RoomToWait /\ testing[a] = "no" /\ a \in DOMAIN cfg.accounts
    /\ \E state \in {"in", "failed"} : Tested(a, state)
    /\ UNCHANGED <<configVars, pool, settings, sync, remote, cutOff>>

TestStoresToken(a) ==
    /\ testing[a] = "in"
    /\ IF a \in DOMAIN cfg.accounts THEN UpdateAccountToken(a, TRUE) ELSE UNCHANGED configVars
    /\ \E state \in {"in", "ok", "failed"} : Tested(a, state)
    /\ UNCHANGED <<pool, settings, sync, remote, cutOff>>

(* Mutant: the status is noted for an account that is gone. *)
TestEndsAnyway(a) ==
    /\ testing[a] \in {"ok", "failed"} /\ alive = "up"
    /\ tests' = Joined([x \in {a} |-> testing[a]], tests)
    /\ Tested(a, "no")
    /\ UNCHANGED <<cfg, fromEnv, alive, file, env, kept, changes, starts>>
    /\ UNCHANGED <<pool, settings, sync, remote, cutOff>>

TestEnds(a) ==
    /\ testing[a] \in {"ok", "failed"}
    /\ UpdateAccountTestStatus(a, testing[a])
    /\ Tested(a, "no")
    /\ UNCHANGED <<pool, settings, sync, remote, cutOff>>

----------------------------------------------------------------------------
(* syncVercel: the configuration is exported, put into the project's        *)
(* environment, the credentials are saved, and what was exported is noted.  *)

Synced(phase, export) == sync' = [phase |-> phase, export |-> export]

SyncExports ==
    /\ alive = "up" /\ RoomToWait /\ sync.phase = "idle"
    /\ Synced("exported", Exported(cfg))
    /\ UNCHANGED <<configVars, pool, settings, testing, remote, cutOff>>

(* The answer may be an error, or be lost after the change. *)
SyncUpserts ==
    /\ sync.phase = "exported"
    /\ \/ remote' = sync.export /\ Synced("upserted", sync.export) /\ UNCHANGED cutOff
       \/ remote' = sync.export /\ sync' = Idle /\ cutOff' = TRUE
       \/ sync' = Idle /\ UNCHANGED <<remote, cutOff>>
    /\ UNCHANGED <<configVars, pool, settings, testing>>

SyncSavesCredentials ==
    /\ sync.phase = "upserted"
    /\ Update([cfg EXCEPT !.vercel = TRUE])
    /\ Synced("saved", sync.export)
    /\ UNCHANGED <<pool, settings, testing, remote, cutOff>>

(* Mutant: the configuration of the moment is noted. *)
SyncNotesCurrent ==
    /\ sync.phase \in {"upserted", "saved"}
    /\ Update([cfg EXCEPT !.synced = Exported(cfg)])
    /\ sync' = Idle
    /\ UNCHANGED <<pool, settings, testing, remote, cutOff>>

SyncNotes ==
    /\ sync.phase \in {"upserted", "saved"}
    /\ Update([cfg EXCEPT !.synced = sync.export])
    /\ sync' = Idle
    /\ UNCHANGED <<pool, settings, testing, remote, cutOff>>

----------------------------------------------------------------------------
(* Start and crash, of everything. *)

AdminStart ==
    /\ Start
    /\ pool' = IF alive' = "up" THEN DOMAIN cfg'.accounts ELSE {}
    /\ cutOff' = (cutOff \/ remote # cfg'.synced)
    /\ UNCHANGED <<settings, testing, sync, remote>>

AdminCrash ==
    /\ Crash
    /\ pool' = {} /\ settings' = NoSettings /\ sync' = Idle
    /\ testing' = [a \in Account |-> "no"]
    /\ UNCHANGED <<remote, cutOff>>

AdminInit(deployments) ==
    /\ ConfigInit(deployments)
    /\ pool = {} /\ settings = NoSettings
    /\ testing = [a \in Account |-> "no"]
    /\ sync = Idle /\ remote = Never /\ cutOff = FALSE

AdminNext(imports, tested) ==
    \/ \E k \in ApiKey : AddKey(k, "named") \/ RenameKey(k, "") \/ DeleteKey(k)
    \/ \E a \in Account, p \in Proxy \cup {None} : AddAccount(a, p) \/ BindProxy(a, p)
    \/ \E a \in Account : DeleteAccount(a)
    \/ \E a \in tested : TestBegins(a) \/ TestStoresToken(a) \/ TestEnds(a)
    \/ \E p \in Proxy : AddProxy(p) \/ DeleteProxy(p)
    \/ \E c \in imports : UpdateConfig(c) \/ BatchImport(c) \/ MergeConfig(c) \/ ReplaceConfig(c)
    \/ \E s \in [perAccount : Limit \cup {0}, global : Limit \cup {0}] : CheckSettings(s)
    \/ StoreSettings
    \/ SyncExports \/ SyncUpserts \/ SyncSavesCredentials \/ SyncNotes
    \/ AdminStart \/ AdminCrash

----------------------------------------------------------------------------
(* Every call that changes the accounts tells the pool (Pool.Reset after     *)
(* Store.Update, handler_accounts_crud.go:104, 174; handler_config_*.go).    *)
PoolFollowsAccounts == alive = "up" => pool = DOMAIN cfg.accounts

(* The places that speak of accounts agree: the pool and the test statuses   *)
(* with the configuration, and no token of one is written                    *)
(* (handler_accounts_testing.go:104-190, store.go:267-283).                  *)
AccountsAgree == PoolFollowsAccounts /\ StatusOfAccounts /\ TokensStayInMemory

(* vercelStatus says "synced" only if the project has the configuration that *)
(* is in force: whatever was changed while the synchronisation was out,      *)
(* unless one was cut off (handler_vercel.go:20-72, 253-278).                *)
SyncedIsDeployed ==
    alive = "up" /\ ~cutOff /\ cfg.synced = Exported(cfg) /\ sync.phase \in {"idle", "exported"}
        => remote = Exported(cfg)
=============================================================================
