---------------------------- MODULE AdminSession ----------------------------
(***************************************************************************)
(* Sessions of the ds2api administration (internal/auth/admin.go): a login *)
(* with the password yields a signed token with its time of issue and of   *)
(* expiry, in seconds; a change of the password ends the tokens before it. *)
(*                                                                         *)
(* The clock only moves on.  Each read of the configuration is atomic, but *)
(* a login reads it twice, and the password may change in between.  A      *)
(* password stands for its hash.                                           *)
(***************************************************************************)
EXTENDS Integers

CONSTANTS
    Password,   \* passwords; the first in force is one of them
    Lifetime,   \* seconds a session lasts (expire_hours)
    EnvSecret,  \* whether DS2API_JWT_SECRET is set
    MaxTime     \* bound: seconds

ASSUME LifetimeAssumption == Lifetime \in Nat \ {0}

VARIABLES
    clock,
    password,    \* cfg.Admin.PasswordHash
    validAfter,  \* cfg.Admin.JWTValidAfterUnix, 0 if unset
    login,       \* the logins that have shown their password
    token        \* the last token issued, and history: the second of its issue,
                 \* and whether the password has not been set since

sessionVars == <<clock, password, validAfter, login, token>>

Secret == IF EnvSecret THEN "env" ELSE password

NoToken == [iat |-> 0, exp |-> 0, secret |-> "none", at |-> 0, current |-> FALSE]

(* VerifyAdminCredential, the first half of a login. *)
ShowPassword(p) ==
    /\ p = password /\ ~login
    /\ login' = TRUE
    /\ UNCHANGED <<clock, password, validAfter, token>>

(* Mutant: the time of issue is the time, also right after a change. *)
CreateJWTPlain ==
    /\ login /\ login' = FALSE
    /\ token' = [iat |-> clock, exp |-> clock + Lifetime, secret |-> Secret,
                 at |-> clock, current |-> TRUE]
    /\ UNCHANGED <<clock, password, validAfter>>

(* CreateJWTWithStore: a token of the second of the last change is dated    *)
(* one second ahead.                                                        *)
CreateJWT ==
    /\ login /\ login' = FALSE
    /\ LET iat == IF validAfter >= clock THEN validAfter + 1 ELSE clock IN
       token' = [iat |-> iat, exp |-> iat + Lifetime, secret |-> Secret,
                 at |-> clock, current |-> TRUE]
    /\ UNCHANGED <<clock, password, validAfter>>

(* VerifyJWTWithStore. *)
VerifyJWT(t) ==
    /\ t.secret = Secret
    /\ t.exp >= clock
    /\ validAfter > 0 => t.iat > validAfter

(* updateSettingsPassword. *)
ChangePassword(p) ==
    /\ password' = p /\ validAfter' = clock
    /\ token' = [token EXCEPT !.current = FALSE]
    /\ UNCHANGED <<clock, login>>

Tick == clock < MaxTime /\ clock' = clock + 1 /\ UNCHANGED <<password, validAfter, login, token>>

SessionInit ==
    /\ clock = 1 /\ password \in Password /\ validAfter = 0
    /\ login = FALSE /\ token = NoToken

SessionNext ==
    \/ \E p \in Password : ShowPassword(p) \/ ChangePassword(p)
    \/ CreateJWT \/ Tick

----------------------------------------------------------------------------
(* A session opened since the password was last set is accepted for its whole *)
(* life, even if it was opened in the same second (admin.go:77-141).         *)
FreshSessionAccepted == token.current /\ clock <= token.at + Lifetime => VerifyJWT(token)

(* A change of the password ends every session opened in an earlier second,  *)
(* although some are dated ahead; also if the password comes back            *)
(* (handler_settings_write.go:102-134).                                      *)
ChangeEndsSessions == token # NoToken /\ token.at < validAfter => ~VerifyJWT(token)

(* Both: a session is good from its opening until its time is over or the    *)
(* password is set (admin.go:77-141).                                        *)
SessionsFollowPassword == FreshSessionAccepted /\ ChangeEndsSessions
=============================================================================
