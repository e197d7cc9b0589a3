------------------------------- MODULE MCStores -------------------------------
(***************************************************************************)
(* Small instances of what ds2api keeps beyond a call, checked together: a  *)
(* behaviour picks one part and runs that part alone.                      *)
(*   history  the chat history and its files (ChatHistory)                 *)
(*   config   the configuration and the admin calls (ConfigAdmin)          *)
(*   session  the sessions of the administration (AdminSession)            *)
(*   capture  captured exchanges and saved samples (Captures)              *)
(*   files    the files a request uploads (Uploads)                        *)
(***************************************************************************)
EXTENDS ChatHistory, ConfigAdmin, AdminSession, Captures, Uploads

CONSTANTS
    a1, a2, p1, k1,
    Part    \* the parts of a run

VARIABLE part

allParts == <<part, historyVars, adminVars, sessionVars, captureVars, fileVars>>

(* What an administrator has at the start: a file, and what the environment *)
(* holds.                                                                   *)
InFile == [EmptyConfig EXCEPT !.accounts = (a1 :> [proxy |-> None, token |-> FALSE]),
                              !.keys = (k1 :> "named")]
InEnvironment == [EmptyConfig EXCEPT !.accounts = (a2 :> [proxy |-> None, token |-> FALSE])]

Env(json, writeback, vercel, legacy, pathSet) ==
    [json |-> json, writeback |-> writeback, vercel |-> vercel, legacy |-> legacy,
     pathSet |-> pathSet, cfg |-> InEnvironment]

Plain     == Env(None, FALSE, FALSE, FALSE, FALSE)
OnVercel  == Env(None, FALSE, TRUE, FALSE, FALSE)
WriteBack == Env("config", TRUE, FALSE, FALSE, FALSE)
EnvOnly   == Env("config", FALSE, FALSE, FALSE, FALSE)
Broken    == Env("broken", TRUE, FALSE, FALSE, FALSE)
Container == Env(None, FALSE, FALSE, TRUE, FALSE)
WithPath  == Env(None, FALSE, FALSE, FALSE, TRUE)

Deployments ==
    ({InFile} \X {Plain, OnVercel, WriteBack, EnvOnly, Broken})
    \cup ({Missing} \X {Plain, OnVercel, WriteBack, Broken, Container, WithPath})

(* The configurations an administrator brings. *)
Imports ==
    {[EmptyConfig EXCEPT !.accounts = (a2 :> [proxy |-> p1, token |-> FALSE]),
                         !.keys = (k1 :> ""), !.proxies = {p1}, !.global = 1],
     [EmptyConfig EXCEPT !.accounts = (a1 :> [proxy |-> p1, token |-> FALSE]),
                         !.perAccount = 2]}

NoOrder == [inline |-> <<>>, own |-> FALSE, long |-> FALSE, tools |-> FALSE, whole |-> FALSE]

Init ==
    /\ part \in Part
    /\ HistoryInit /\ AdminInit(Deployments) /\ SessionInit /\ CaptureInit /\ FilesInit
    /\ part # "history" => index.kind = "none"
    /\ part # "config" => file = Missing /\ env = Plain
    /\ part # "session" => password = CHOOSE p \in Password : TRUE
    /\ part # "files" => order = NoOrder /\ on = 0

HistoryStep(A) ==
    part = "history" /\ A /\ UNCHANGED <<part, adminVars, sessionVars, captureVars, fileVars>>
ConfigStep(A) ==
    part = "config" /\ A /\ UNCHANGED <<part, historyVars, sessionVars, captureVars, fileVars>>
SessionStep(A) ==
    part = "session" /\ A /\ UNCHANGED <<part, historyVars, adminVars, captureVars, fileVars>>
CaptureStep(A) ==
    part = "capture" /\ A /\ UNCHANGED <<part, historyVars, adminVars, sessionVars, fileVars>>
FilesStep(A) ==
    part = "files" /\ A /\ UNCHANGED <<part, historyVars, adminVars, sessionVars, captureVars>>

Next ==
    \/ HistoryStep(HistoryNext)
    \/ ConfigStep(AdminNext(Imports, {a1}))
    \/ SessionStep(SessionNext)
    \/ CaptureStep(CaptureNext)
    \/ FilesStep(FilesNext)

Spec == Init /\ [][Next]_allParts

Interchangeable == Permutations(Session)

=============================================================================
