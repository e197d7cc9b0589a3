----------------------------- MODULE ConfigStore -----------------------------
(***************************************************************************)
(* The configuration of ds2api (internal/config/store.go): loaded from the *)
(* environment or a file, changed in memory by admin calls and by logins,  *)
(* and written to the file after every change.                             *)
(*                                                                         *)
(* A method of the store holds its mutex: it is one step.  A write may     *)
(* fail, and as it is in place it may leave a torn file; a crash in the    *)
(* middle of a write is such a failure followed by a crash.  Accounts,     *)
(* proxies and API keys are unique by their identifiers once normalised;   *)
(* an account is its proxy and whether it has a token, a key is its name.  *)
(***************************************************************************)
EXTENDS Integers, FiniteSets, Functions, TLC

CONSTANTS
    Account, Proxy, ApiKey,
    Limit,        \* values of the two concurrency limits besides unset
    MaxChanges,   \* bound: changes of the configuration
    MaxStarts     \* bound: starts of the process

VARIABLES
    cfg,      \* Store.cfg
    fromEnv,  \* Store.fromEnv
    tests,    \* Store.accTest
    alive,    \* down, up or refused: the start gave up
    file,     \* the file at Store.path: missing, torn or a configuration
    env,      \* the environment: DS2API_CONFIG_JSON, write-back, Vercel
    kept,     \* history: what was in force since a change was last written
    changes, starts

configVars == <<cfg, fromEnv, tests, alive, file, env, kept, changes, starts>>

None == "none"
Never == [is |-> "never"]
Missing == [is |-> "missing"]
Torn == [is |-> "torn"]

EmptyConfig == [is |-> "config", keys |-> <<>>, accounts |-> <<>>, proxies |-> {},
                perAccount |-> 0, global |-> 0, vercel |-> FALSE, synced |-> Never]

IsConfig(c) == c.is = "config"

ASSUME LimitsAssumption == Limit \subseteq Nat \ {0}

----------------------------------------------------------------------------
(* Operations on configurations. *)

(* Two indexes in one; where both have an entry the first counts. *)
Joined(f, g) ==
    [x \in DOMAIN f \cup DOMAIN g |-> IF x \in DOMAIN f THEN f[x] ELSE g[x]]

(* ClearAccountTokens. *)
Tokenless(c) ==
    [c EXCEPT !.accounts = [a \in DOMAIN c.accounts |-> [c.accounts[a] EXCEPT !.token = FALSE]]]

(* What encodeVercelSyncConfig and ComputeSyncHash see. *)
Exported(c) == [Tokenless(c) EXCEPT !.vercel = FALSE, !.synced = Never]

(* ValidateProxyConfig and ValidateAccountProxyReferences. *)
ProxiesKnown(c) == \A a \in DOMAIN c.accounts : c.accounts[a].proxy \in c.proxies \cup {None}

(* ValidateRuntimeConfig; zero is unset. *)
LimitsAgree(c) == c.perAccount > 0 /\ c.global > 0 => c.global >= c.perAccount

Valid(c) == ProxiesKnown(c) /\ LimitsAgree(c)

(* apiKeysFromStrings: a plain list of keys takes the names it finds. *)
Named(list, keys) == [k \in list |-> IF k \in DOMAIN keys THEN keys[k] ELSE ""]

(* ReconcileCredentials: the plain list counts if only it has changed. *)
Reconciled(base, list, keys) ==
    IF list # DOMAIN base.keys /\ keys = base.keys THEN Named(list, keys) ELSE keys

----------------------------------------------------------------------------
(* Saving. *)

Unsaved == fromEnv /\ (env.vercel \/ ~env.writeback)

(* saveLocked: skipped for a configuration that lives in the environment;   *)
(* else written without tokens, or not, or torn.                            *)
SaveLocked(c) ==
    \/ Unsaved /\ kept' = {Tokenless(c)} /\ UNCHANGED <<file, fromEnv>>
    \/ ~Unsaved /\ file' = Tokenless(c) /\ fromEnv' = FALSE /\ kept' = {Tokenless(c)}
    \/ /\ ~Unsaved /\ file' \in {file, Torn}
       /\ kept' = kept \cup {Tokenless(c)}
       /\ UNCHANGED fromEnv

(* The store with a new configuration (rebuildIndexes keeps the test status *)
(* of accounts that stay): in memory even if it cannot be saved.            *)
Install(c) ==
    /\ alive = "up" /\ changes < MaxChanges
    /\ changes' = changes + 1
    /\ cfg' = c
    /\ tests' = Restrict(tests, DOMAIN tests \cap DOMAIN c.accounts)
    /\ SaveLocked(c)
    /\ UNCHANGED <<alive, env, starts>>

(* Update, of the new configuration and its plain list of keys. *)
UpdateKeys(c, list) == Install([c EXCEPT !.keys = Reconciled(cfg, list, c.keys)])

Update(c) == UpdateKeys(c, DOMAIN cfg.keys)

(* UpdateAccountToken, after a login. *)
UpdateAccountToken(a, token) ==
    /\ a \in DOMAIN cfg.accounts
    /\ Install([cfg EXCEPT !.accounts[a].token = token])

(* UpdateAccountTestStatus. *)
UpdateAccountTestStatus(a, status) ==
    /\ alive = "up"
    /\ tests' = IF a \in DOMAIN cfg.accounts THEN Joined([x \in {a} |-> status], tests) ELSE tests
    /\ UNCHANGED <<cfg, fromEnv, alive, file, env, kept, changes, starts>>

----------------------------------------------------------------------------
(* Loading: loadConfig's ladder, as the configuration, whether it lives in  *)
(* the environment, and the file after a bootstrap.  "err" is no start.     *)

Loaded(c, inEnv, f) == [ok |-> Valid(c), cfg |-> c, fromEnv |-> inEnv, file |-> f]
NotLoaded == [ok |-> FALSE, cfg |-> EmptyConfig, fromEnv |-> FALSE, file |-> file]

(* Mutant: the environment is written to the file at every start. *)
FromEnvironmentAfresh ==
    IF ~env.vercel /\ env.writeback /\ Valid(env.cfg)
    THEN {Loaded(env.cfg, FALSE, Tokenless(env.cfg))}
    ELSE {Loaded(env.cfg, TRUE, file)}

(* DS2API_CONFIG_JSON is a configuration. *)
FromEnvironment ==
    IF env.vercel \/ ~env.writeback THEN {Loaded(env.cfg, TRUE, file)}
    ELSE IF IsConfig(file) THEN {Loaded(file, FALSE, file)}
    ELSE IF file = Missing /\ Valid(env.cfg)
    THEN {Loaded(env.cfg, FALSE, Tokenless(env.cfg)), Loaded(env.cfg, TRUE, file)}
    ELSE {Loaded(env.cfg, TRUE, file)}

(* It is set, but cannot be parsed. *)
FromEnvironmentBroken ==
    IF ~env.vercel /\ env.writeback /\ IsConfig(file) THEN {Loaded(file, FALSE, file)}
    ELSE {NotLoaded}

(* It is not set: the file, or the file of older containers. *)
FromFile ==
    IF IsConfig(file) THEN {Loaded(file, env.vercel, file)}
    ELSE IF env.legacy THEN {Loaded(env.cfg, FALSE, file)}
    ELSE IF env.vercel THEN {Loaded(EmptyConfig, TRUE, file)}
    ELSE IF file = Missing /\ env.pathSet THEN {Loaded(EmptyConfig, FALSE, file)}
    ELSE {NotLoaded}

LoadConfig ==
    CASE env.json = "config" -> FromEnvironment
      [] env.json = "broken" -> FromEnvironmentBroken
      [] env.json = None -> FromFile

(* LoadStoreWithError, at start. *)
Start ==
    /\ alive = "down" /\ starts < MaxStarts
    /\ starts' = starts + 1
    /\ \E l \in LoadConfig :
         /\ alive' = IF l.ok THEN "up" ELSE "refused"
         /\ cfg' = l.cfg /\ fromEnv' = l.fromEnv /\ file' = l.file
         /\ kept' = IF kept = {} THEN {Tokenless(l.cfg)} ELSE kept
    /\ tests' = <<>>
    /\ UNCHANGED <<env, changes>>

Crash ==
    /\ alive = "up"
    /\ alive' = "down"
    /\ cfg' = EmptyConfig /\ tests' = <<>> /\ fromEnv' = FALSE
    /\ UNCHANGED <<file, env, kept, changes, starts>>

(* Started from a file and an environment of the given pairs. *)
ConfigInit(deployments) ==
    /\ cfg = EmptyConfig /\ fromEnv = FALSE /\ tests = <<>> /\ alive = "down"
    /\ \E d \in deployments : file = d[1] /\ env = d[2]
    /\ kept = {} /\ changes = 0 /\ starts = 0

----------------------------------------------------------------------------
(* What is in force after a start is what was last written, or was put in    *)
(* force since: an acknowledged change is not undone by a restart, whatever  *)
(* the environment holds, unless the file was torn or the configuration      *)
(* lives in the environment (loadConfig, store.go:53-115).                   *)
RestartKeeps == alive = "up" /\ ~fromEnv /\ file # Torn => Tokenless(cfg) \in kept

(* The program can start with whatever it has written itself: only a file    *)
(* that is missing or torn, or a broken environment, makes it refuse         *)
(* (loadStore, store.go:44-51; the admin calls check on their own, or not).  *)
SavedConfigLoads == alive = "refused" => file \in {Missing, Torn} \/ env.json = "broken"

(* Tokens of accounts are runtime state: neither the file nor the export     *)
(* ever holds one (saveLocked, store.go:267-283).                            *)
TokensStayInMemory == IsConfig(file) => file = Tokenless(file)

(* A test status belongs to an account there is (rebuildIndexes,             *)
(* store_index.go:4-21).                                                     *)
StatusOfAccounts == DOMAIN tests \subseteq DOMAIN cfg.accounts
=============================================================================
