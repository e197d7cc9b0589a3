------------------------------- MODULE Uploads -------------------------------
(***************************************************************************)
(* The files of a ds2api request: the inline files of an OpenAI request     *)
(* (files/file_inline_upload.go), the history and tools files that take the *)
(* place of the prompt (history/current_input_file.go), the loop that       *)
(* uploads one and waits until it is ready (deepseek/client), and the       *)
(* completions that refer to them (completionruntime), of which the last    *)
(* may go to another account.                                               *)
(*                                                                         *)
(* Accounts are numbered in the order in which a request would switch to    *)
(* them; a direct token is account 0 and cannot switch.  How a DeepSeek call *)
(* comes to switch is the matter of Completion: here it may.                *)
(***************************************************************************)
EXTENDS Subsequences, SequencesExt

CONSTANTS
    InlineFiles,    \* what inline files may hold; one may be "broken"
    InlineLimit,    \* maxInlineFilesPerRequest
    LastAccount,    \* number of accounts
    UploadAttempts, \* maxAttempts of an upload
    MaxPolls        \* fileReadyPollAttempts

VARIABLES
    order,    \* the request: inline files, its own file, whether it is long enough
              \* for a history file, has tools, is answered whole
    on,       \* the account
    at,       \* phase of the handler, "over" after an error or the answer
    round,    \* "first", or "alternate" after the account switch
    inline,   \* the ids of the inline files so far (uploadedByID is over their contents)
    refIDs,   \* stdReq.RefFileIDs
    ids,      \* CurrentInputFileID and CurrentToolsFileID
    fresh,    \* the ones uploaded in this round
    upload,   \* the upload under way
    uploads,  \* history: what DeepSeek was given, in order of their ids
    wandered, \* history: a call changed the account after the first of fresh
    asked     \* history: the completions

fileVars == <<order, on, at, round, inline, refIDs, ids, fresh, upload, uploads, wandered, asked>>

Generated == {"history", "tools"}

ASSUME FileBounds ==
    /\ InlineLimit \in Nat /\ LastAccount \in Nat
    /\ InlineFiles \cap (Generated \cup {"none"}) = {}

NoUpload == [name |-> "none", pow |-> FALSE, refreshed |-> FALSE, attempts |-> 0, polls |-> 0,
             id |-> 0]
UploadOf(name) == [NoUpload EXCEPT !.name = name]
OwnFile == 0  \* the id of a file the client uploaded before

IdleAt(phase) == at = phase /\ upload = NoUpload

(* CollectOpenAIRefFileIDs, prependUniqueRefFileIDs: the first of each.     *)
Unique(s) == Picked(s, {i \in DOMAIN s : \A j \in 1 .. i - 1 : s[j] # s[i]})

(* Mutant: the files uploaded for the account before are kept. *)
ReplaceGeneratedKept(existing, old, new) == Unique(existing \o new)

(* replaceGeneratedCurrentInputRefs. *)
ReplaceGenerated(existing, old, new) == Unique(new \o Dropping(existing, ToSet(old)))

----------------------------------------------------------------------------
(* A DeepSeek call may leave the request on a later account. *)
CallEndsOn(a) ==
    /\ IF on = 0 THEN a = 0 ELSE a \in on .. LastAccount
    /\ on' = a
    /\ wandered' = (wandered \/ (a # on /\ fresh # <<>>))

Fail == at' = "over" /\ upload' = NoUpload

(* UploadFile: a proof of work for each attempt. *)
UploadPow ==
    /\ upload.name # "none" /\ ~upload.pow /\ upload.id = 0
    /\ upload.attempts < UploadAttempts
    /\ \E a \in 0 .. LastAccount : CallEndsOn(a)
    /\ \/ upload' = [upload EXCEPT !.pow = TRUE] /\ UNCHANGED at
       \/ Fail
    /\ UNCHANGED <<order, round, inline, refIDs, ids, fresh, uploads, asked>>

TryAgain == [upload EXCEPT !.pow = FALSE, !.attempts = @ + 1]

(* A refusal is met with one refresh of the token, or another account. *)
UploadRefused ==
    /\ upload.pow /\ upload.id = 0
    /\ \/ on' = on /\ upload' = TryAgain
       \/ on # 0 /\ on' = on /\ ~upload.refreshed /\ upload' = [TryAgain EXCEPT !.refreshed = TRUE]
       \/ /\ on # 0 /\ on' \in on + 1 .. LastAccount
          /\ upload' = [TryAgain EXCEPT !.refreshed = FALSE]
    /\ wandered' = (wandered \/ (on' # on /\ fresh # <<>>))
    /\ UNCHANGED <<order, at, round, inline, refIDs, ids, fresh, uploads, asked>>

(* No answer, or no attempt left. *)
UploadFails ==
    /\ upload.name # "none" /\ upload.id = 0
    /\ upload.pow \/ upload.attempts >= UploadAttempts
    /\ Fail
    /\ UNCHANGED <<order, on, round, inline, refIDs, ids, fresh, uploads, wandered, asked>>

(* What becomes of an id: tryUploadBlock, ApplyCurrentInputFile,            *)
(* ReuploadAppliedCurrentInputFile.                                         *)
Uploaded(id) ==
    /\ upload' = NoUpload
    /\ IF upload.name \in Generated
       THEN fresh' = Append(fresh, id) /\ UNCHANGED inline
       ELSE inline' = Append(inline, id) /\ UNCHANGED fresh

UploadAccepted ==
    /\ upload.pow /\ upload.id = 0
    /\ \E ready \in BOOLEAN :
          /\ uploads' = Append(uploads, [name |-> upload.name, owner |-> on, ready |-> ready])
          /\ IF ready THEN Uploaded(Len(uploads) + 1)
             ELSE upload' = [upload EXCEPT !.id = Len(uploads) + 1] /\ UNCHANGED <<inline, fresh>>
    /\ UNCHANGED <<order, on, at, round, refIDs, ids, wandered, asked>>

(* waitForUploadedFile: until it is ready. *)
PollEnds ==
    /\ upload.id # 0
    /\ uploads' = [uploads EXCEPT ![upload.id].ready = TRUE]
    /\ Uploaded(upload.id)
    /\ UNCHANGED <<order, on, at, round, refIDs, ids, wandered, asked>>

Poll ==
    /\ upload.id # 0
    /\ IF upload.polls + 1 < MaxPolls
       THEN upload' = [upload EXCEPT !.polls = @ + 1] /\ UNCHANGED at
       ELSE Fail
    /\ UNCHANGED <<order, on, round, inline, refIDs, ids, fresh, uploads, wandered, asked>>

----------------------------------------------------------------------------
(* PreprocessInlineFileInputs: one upload for all equal files, no more files *)
(* than the limit, and none that cannot be decoded.                         *)
NextInline ==
    /\ IdleAt("inline")
    /\ LET n == Len(inline) + 1
           Same == {i \in 1 .. n - 1 : order.inline[i] = order.inline[n]}
       IN IF n > Len(order.inline)
          THEN /\ refIDs' = Unique((IF order.own THEN <<OwnFile>> ELSE <<>>) \o inline)
               /\ at' = "files" /\ UNCHANGED <<inline, upload>>
          ELSE IF n > InlineLimit \/ order.inline[n] = "broken"
          THEN Fail /\ UNCHANGED <<inline, refIDs>>
          ELSE IF Same # {}
          THEN inline' = Append(inline, inline[CHOOSE i \in Same : TRUE]) /\ UNCHANGED <<at, refIDs, upload>>
          ELSE upload' = UploadOf(order.inline[n]) /\ UNCHANGED <<at, inline, refIDs>>
    /\ UNCHANGED <<order, on, round, ids, fresh, uploads, wandered, asked>>

(* The whole answer of another account begins with the files, a stream with  *)
(* the session.                                                             *)
AfterFiles == IF round = "first" \/ order.whole THEN "session" ELSE "send"

NextGenerated ==
    /\ IdleAt("files")
    /\ CASE ~order.long -> at' = AfterFiles /\ UNCHANGED <<refIDs, ids, upload>>
         [] order.long /\ fresh = <<>> -> upload' = UploadOf("history") /\ UNCHANGED <<at, refIDs, ids>>
         [] order.long /\ Len(fresh) = 1 /\ order.tools ->
               upload' = UploadOf("tools") /\ UNCHANGED <<at, refIDs, ids>>
         [] OTHER -> /\ refIDs' = ReplaceGenerated(refIDs, ids, fresh)
                     /\ ids' = fresh
                     /\ at' = AfterFiles
                     /\ UNCHANGED upload
    /\ UNCHANGED <<order, on, round, inline, fresh, uploads, wandered, asked>>

SessionCreated ==
    /\ at = "session"
    /\ \E a \in 0 .. LastAccount : CallEndsOn(a)
    /\ at' \in {"pow", "over"}
    /\ UNCHANGED <<order, round, inline, refIDs, ids, fresh, upload, uploads, asked>>

PowSolved ==
    /\ at = "pow"
    /\ \E a \in 0 .. LastAccount : CallEndsOn(a)
    /\ at' \in {IF round = "first" \/ order.whole THEN "send" ELSE "files", "over"}
    /\ UNCHANGED <<order, round, inline, refIDs, ids, fresh, upload, uploads, asked>>

Ask ==
    /\ at = "send"
    /\ asked' = Append(asked, [on |-> on, round |-> round, refs |-> refIDs, sure |-> ~wandered])
    /\ at' \in {"reply", "over"}
    /\ UNCHANGED <<order, on, round, inline, refIDs, ids, fresh, upload, uploads, wandered>>

(* SwitchAccount, after an empty answer or a 429. *)
Elsewhere ==
    /\ at = "reply" /\ round = "first" /\ on # 0
    /\ \/ /\ on' \in on + 1 .. LastAccount
          /\ at' = IF order.whole THEN "files" ELSE "session"
          /\ round' = "alternate" /\ fresh' = <<>> /\ wandered' = FALSE
       \/ at' = "over" /\ UNCHANGED <<on, round, fresh, wandered>>
    /\ UNCHANGED <<order, inline, refIDs, ids, upload, uploads, asked>>

FilesOver ==
    /\ at \in {"reply", "over"}
    /\ UNCHANGED fileVars

----------------------------------------------------------------------------
FilesInit ==
    /\ order \in [inline : UNION {[1 .. n -> InlineFiles] : n \in 0 .. InlineLimit + 1},
                  own : BOOLEAN, long : BOOLEAN, tools : BOOLEAN, whole : BOOLEAN]
    /\ on \in {0, 1}
    /\ at = "inline" /\ round = "first"
    /\ inline = <<>> /\ refIDs = <<>> /\ ids = <<>> /\ fresh = <<>>
    /\ upload = NoUpload /\ uploads = <<>> /\ wandered = FALSE /\ asked = <<>>

FilesNext ==
    \/ UploadPow \/ UploadRefused \/ UploadFails \/ UploadAccepted \/ PollEnds \/ Poll
    \/ NextInline \/ NextGenerated \/ SessionCreated \/ PowSolved \/ Ask \/ Elsewhere \/ FilesOver

----------------------------------------------------------------------------
(* A completion of a long request refers first to the history file, then to  *)
(* the tools file if there are tools, then to the others, to each once and   *)
(* to ready ones; on another account the first two are not those of the      *)
(* account before, and they belong to the account that is asked unless a     *)
(* call has changed it after they were uploaded                             *)
(* (current_input_file.go:37-160, nonstream.go:208-240,                      *)
(* stream_retry.go:149-173, client_file_status.go:28-66).                    *)
FilesFollow == \A i \in DOMAIN asked :
    LET c == asked[i]
        own(j) == c.refs[j] = OwnFile
        made == {j \in DOMAIN c.refs : ~own(j) /\ uploads[c.refs[j]].name \in Generated}
        name(j) == uploads[c.refs[j]].name
        owner(j) == uploads[c.refs[j]].owner
    IN /\ \A j, k \in DOMAIN c.refs : j # k => c.refs[j] # c.refs[k]
       /\ \A j \in DOMAIN c.refs : own(j) \/ uploads[c.refs[j]].ready
       /\ made = IF ~order.long THEN {} ELSE IF order.tools THEN {1, 2} ELSE {1}
       /\ \A j \in made : /\ name(j) = IF j = 1 THEN "history" ELSE "tools"
                          /\ c.sure => owner(j) = c.on
                          /\ \A k \in 1 .. i - 1 : asked[k].on # 0 => owner(j) > asked[k].on
=============================================================================
