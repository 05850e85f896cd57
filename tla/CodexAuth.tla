------------------------------- MODULE CodexAuth -------------------------------
(***************************************************************************)
(* pkg/llm/codex.go: the credentials of a completion.  Every completion      *)
(* loads the token file, which all turns share without a lock, posts its     *)
(* request and, when that is unauthorized, refreshes the tokens once, writes *)
(* the file and posts again.                                                 *)
(*                                                                           *)
(* The service is external: it takes a refresh token once and gives a new    *)
(* one for it, and its access tokens expire.  Account ids are data.          *)
(***************************************************************************)
EXTENDS Naturals, LLM

CONSTANTS HasAPIKey,   \* an API key is configured
          FirstFile,   \* what the token file is at the start
          MaxGrants,   \* bound: refresh tokens the service gives
          MaxExpiries, \* bound: times the access tokens expire
          MaxFaults    \* bound: failures, of any kind

\* Access tokens are told apart by when they were given, refresh tokens by their number.
Tokens == [kind : {"tokens"}, access : 0..MaxExpiries, refresh : 1..MaxGrants]

\* A file without tokens.
Only(kind) == [kind |-> kind, access |-> 0, refresh |-> 0]

Files == {Only(kind) : kind \in {"missing", "api_key", "broken"}} \cup Tokens

FirstTokens == [kind |-> "tokens", access |-> 0, refresh |-> 1]

ASSUME CodexAssumption ==
    /\ HasAPIKey \in BOOLEAN
    /\ MaxGrants \in Nat \ {0} /\ MaxExpiries \in Nat /\ MaxFaults \in Nat
    /\ FirstFile \in {Only("missing"), Only("api_key"), FirstTokens}

VARIABLES
    auth,         \* where the credentials of each turn stand
    credential,   \* what it posts with
    allowRefresh, \* it has not refreshed yet
    file,         \* the token file
    newest,       \* the refresh token the service would take
    epoch,        \* times the access tokens have expired
    barred,       \* the service refuses every access token
    lost,         \* a failure has cost the newest refresh token
    faults

turnVars == <<auth, credential, allowRefresh>>
serviceVars == <<newest, epoch, barred>>
codexVars == <<turnVars, file, serviceVars, lost, faults>>

CodexTypeOK ==
    /\ auth \in [Turns -> {"none", "load", "post", "refresh", "truncate", "write", "streams", "failed"}]
    /\ credential \in [Turns -> {Only("api_key")} \cup Tokens]
    /\ allowRefresh \in [Turns -> BOOLEAN]
    /\ file \in Files
    /\ newest \in 1..MaxGrants /\ epoch \in 0..MaxExpiries /\ barred \in BOOLEAN
    /\ lost \in BOOLEAN /\ faults \in 0..MaxFaults

CodexInit ==
    /\ auth = [t \in Turns |-> "none"]
    /\ credential = [t \in Turns |-> Only("api_key")]
    /\ allowRefresh = [t \in Turns |-> TRUE]
    /\ file = FirstFile
    /\ newest = 1 /\ epoch = 0 /\ barred = FALSE
    /\ lost = FALSE /\ faults = 0

Fault == faults < MaxFaults /\ faults' = faults + 1

Authorizing(t) == auth[t] \in {"load", "post", "refresh", "truncate", "write"}

Writing(t) == auth[t] \in {"truncate", "write"}

AuthGoes(t, from, to) ==
    /\ auth[t] = from
    /\ auth' = [auth EXCEPT ![t] = to]

\* The tokens that the turn alone has are lost when it stops here.
Loses(t) == lost \/ (Writing(t) /\ credential[t].refresh = newest)

-----------------------------------------------------------------------------
(* loadAuthState *)

PostsWith(t, c) ==
    /\ AuthGoes(t, "load", "post")
    /\ credential' = [credential EXCEPT ![t] = c]
    /\ UNCHANGED <<allowRefresh, file, serviceVars, lost, faults>>

\* The key in the file comes before its tokens, the configured key after them.
LoadKey(t) ==
    /\ file.kind = "api_key" \/ (file.kind = "missing" /\ HasAPIKey)
    /\ PostsWith(t, Only("api_key"))

LoadTokens(t) ==
    /\ file.kind = "tokens"
    /\ PostsWith(t, file)

LoadFails(t) ==
    /\ file.kind = "broken" \/ (file.kind = "missing" /\ ~HasAPIKey)
    /\ AuthGoes(t, "load", "failed")
    /\ UNCHANGED <<credential, allowRefresh, file, serviceVars, lost, faults>>

-----------------------------------------------------------------------------
(* streamResponses, up to the stream *)

Unauthorized(t) ==
    credential[t].kind = "tokens" /\ (barred \/ credential[t].access # epoch)

\* The stream needs the credentials no more.
Posted(t) ==
    /\ AuthGoes(t, "post", "streams")
    /\ ~Unauthorized(t)
    /\ credential' = [credential EXCEPT ![t] = Only("api_key")]
    /\ allowRefresh' = [allowRefresh EXCEPT ![t] = TRUE]
    /\ UNCHANGED <<file, serviceVars, lost, faults>>

PostRefused(t) ==
    /\ AuthGoes(t, "post", IF allowRefresh[t] THEN "refresh" ELSE "failed")
    /\ Unauthorized(t)
    /\ UNCHANGED <<credential, allowRefresh, file, serviceVars, lost, faults>>

\* The request, or that for new tokens, does not get through.
RequestFails(t) ==
    /\ \E from \in {"post", "refresh"} : AuthGoes(t, from, "failed")
    /\ Fault
    /\ UNCHANGED <<credential, allowRefresh, file, serviceVars, lost>>

-----------------------------------------------------------------------------
(* refreshChatGPTToken and persistAuthState *)

Granted == [kind |-> "tokens", access |-> epoch, refresh |-> newest + 1]

RefreshTo(t, granted) ==
    /\ AuthGoes(t, "refresh", "truncate")
    /\ credential[t].refresh = newest /\ newest < MaxGrants
    /\ newest' = newest + 1
    /\ credential' = [credential EXCEPT ![t] = granted]
    /\ UNCHANGED <<allowRefresh, file, epoch, barred, lost, faults>>

\* Mutant: only the access token of the answer is kept.
RefreshAccess(t) == RefreshTo(t, [Granted EXCEPT !.refresh = newest])

Refresh(t) == RefreshTo(t, Granted)

RefreshRefused(t) ==
    /\ AuthGoes(t, "refresh", "failed")
    /\ credential[t].refresh # newest \/ newest = MaxGrants
    /\ UNCHANGED <<credential, allowRefresh, file, serviceVars, lost, faults>>

\* The token is spent, but the answer does not arrive.
RefreshLost(t) ==
    /\ AuthGoes(t, "refresh", "failed")
    /\ credential[t].refresh = newest /\ newest < MaxGrants
    /\ Fault
    /\ newest' = newest + 1
    /\ lost' = TRUE
    /\ UNCHANGED <<credential, allowRefresh, file, epoch, barred>>

\* The file is written in place.
Truncate(t) ==
    /\ AuthGoes(t, "truncate", "write")
    /\ file' = Only("broken")
    /\ UNCHANGED <<credential, allowRefresh, serviceVars, lost, faults>>

Write(t) ==
    /\ AuthGoes(t, "write", "post")
    /\ file' = credential[t]
    /\ allowRefresh' = [allowRefresh EXCEPT ![t] = FALSE]
    /\ UNCHANGED <<credential, serviceVars, lost, faults>>

WriteFails(t) ==
    /\ \E from \in {"truncate", "write"} : AuthGoes(t, from, "failed")
    /\ Fault
    /\ lost' = Loses(t)
    /\ UNCHANGED <<credential, allowRefresh, file, serviceVars>>

-----------------------------------------------------------------------------
(* The service, the user and the host *)

Expire ==
    /\ epoch < MaxExpiries /\ epoch' = epoch + 1
    /\ UNCHANGED <<turnVars, file, newest, barred, lost, faults>>

Bar ==
    /\ ~barred /\ barred' = TRUE
    /\ Fault
    /\ UNCHANGED <<turnVars, file, newest, epoch, lost>>

\* The user logs in anew when no turn is under way: the service gives new tokens.
LogIn ==
    /\ lost /\ newest < MaxGrants
    /\ \A t \in Turns : ~Authorizing(t)
    /\ newest' = newest + 1
    /\ file' = Granted
    /\ lost' = FALSE
    /\ UNCHANGED <<turnVars, epoch, barred, faults>>

\* The host ends and starts anew: its turns are gone, the file is as it is.
HostEnds ==
    /\ Fault
    /\ auth' = [t \in Turns |-> IF Authorizing(t) THEN "failed" ELSE auth[t]]
    /\ lost' = (lost \/ \E t \in Turns : Loses(t))
    /\ UNCHANGED <<credential, allowRefresh, file, serviceVars>>

Authorize(t) ==
    \/ LoadKey(t) \/ LoadTokens(t) \/ LoadFails(t)
    \/ Posted(t) \/ PostRefused(t)
    \/ Refresh(t) \/ RefreshRefused(t) \/ Truncate(t) \/ Write(t)

AuthFails(t) == RequestFails(t) \/ RefreshLost(t) \/ WriteFails(t)

-----------------------------------------------------------------------------
(* Properties *)

\* Whatever turns load, refresh and write at once, no two of them write the file
\* at the same time, and the one refresh token that the service still takes is in
\* the file or with the turn that writes it: without a failure no user has to log in
\* again, and the file never stays broken.
NewestTokenKept ==
    /\ \A t, u \in Turns : Writing(t) /\ Writing(u) => t = u
    /\ FirstFile = FirstTokens /\ ~lost =>
        \/ file.kind = "tokens" /\ file.refresh = newest
        \/ \E t \in Turns : Writing(t) /\ credential[t].refresh = newest
=============================================================================
