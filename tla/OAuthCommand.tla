--------------------------- MODULE OAuthCommand ---------------------------
(***************************************************************************)
(* The `step oauth` command (oauthCmd in src/command/oauth/cmd.go): flag   *)
(* validation, the choice of client credentials and endpoints (flags,      *)
(* account file, built-in Google client, OIDC discovery in newOauth), the  *)
(* choice among the four strategies, and the output.  The command is one   *)
(* goroutine; every step below is a stretch of oauthCmd between two        *)
(* decisions, in the order the code takes them.                            *)
(*                                                                         *)
(* The loopback strategy is OAuthLoopback; here it is abstracted to its    *)
(* outcomes: a checked token, an error (including the timeout), or a hang  *)
(* in srv.Close() (the violation OAuthLoopback's FlowReturns exhibits).    *)
(* The manual, two-legged and JWT strategies are sequential and are        *)
(* modelled here step for step by their outcomes.                          *)
(***************************************************************************)
EXTENDS Naturals, FiniteSets

(* What the user passes.  provider: "google" (the default), an https://   *)
(* URL, or anything else; account: no --account, or what the file holds.  *)
FlagRecs ==
    [provider: {"google", "https", "other"},
     listen: {"ok", "invalid", "noScheme"},  \* --listen / --listen-url
     clientID: BOOLEAN,      \* --client-id is set
     authzEp: BOOLEAN,       \* --authorization-endpoint is set
     tokenEp: BOOLEAN,       \* --token-endpoint is set
     implicit: BOOLEAN,
     insecure: BOOLEAN,
     console: BOOLEAN,
     jwt: BOOLEAN,
     account: {"none", "unreadable", "notJSON", "installed",
               "installedPartial", "service", "servicePartial", "other"}]

(* Where an endpoint or the client id comes from.                          *)
Sources == {"none", "default", "google", "flag", "account", "discovery"}

Tokens == {"none", "valid", "withError"}

Exits == {"running", "ok", "error", "panic"}

PCs == {"validate", "clientCheck", "credentials", "endpoints", "account",
        "newOauth", "flow", "output", "exited", "hung"}

VARIABLES
    flags,     \* the command line, fixed for the run
    pc,        \* where oauthCmd is
    provider,  \* opts.Provider: "google", "https" or "" (written "none")
    clientID,  \* where clientID (and clientSecret) come from
    authzEp,   \* where the authorization endpoint comes from
    tokenEp,   \* where the token endpoint comes from
    do2lo,     \* a service-account file selected the two-legged flow
    tok,       \* the token the strategy returned
    exit,      \* how oauthCmd returned: nil ("ok"), an error, or a panic
    printed    \* a token was written to stdout

vars == <<flags, pc, provider, clientID, authzEp, tokenEp, do2lo, tok,
          exit, printed>>

-----------------------------------------------------------------------------
(* oauthCmd returns the error: nothing more happens.                       *)
Fail == exit' = "error" /\ pc' = "exited"

(* A type assertion x.(string) on an absent key panics.                    *)
Panic == exit' = "panic" /\ pc' = "exited"

-----------------------------------------------------------------------------
(* Seeded fault: line 265 without `|| c.IsSet("authorization-endpoint")`. *)
ClientCheckProviderOnly ==
    /\ pc = "clientCheck"
    /\ IF provider # "google" /\ ~flags.clientID
       THEN Fail
       ELSE pc' = "credentials" /\ UNCHANGED exit
    /\ UNCHANGED <<flags, provider, clientID, authzEp, tokenEp, do2lo, tok, printed>>

(* Seeded fault: a strategy that returns (nil, nil), as DoJWTAuthorization *)
(* would with `return nil, err` after a successful signature.               *)
FlowNilToken ==
    /\ pc = "flow"
    /\ tok' = "nil"
    /\ pc' = "output"
    /\ UNCHANGED <<flags, provider, clientID, authzEp, tokenEp, do2lo, exit, printed>>

-----------------------------------------------------------------------------
Init ==
    /\ flags \in FlagRecs
    /\ pc = "validate"
    /\ provider = flags.provider
    /\ clientID = "none"
    /\ authzEp = "none"
    /\ tokenEp = "none"
    /\ do2lo = FALSE
    /\ tok = "none"
    /\ exit = "running"
    /\ printed = FALSE

(* options.Validate: the provider is google or an https:// URL, and       *)
(* --listen / --listen-url parse.  A --listen-url that parses without a    *)
(* scheme is let through: line 412 wraps a nil err, and errors.Wrapf(nil, *)
(* ...) is nil, so Validate returns nil.                                   *)
Validate ==
    /\ pc = "validate"
    /\ IF provider \in {"google", "https"} /\ flags.listen # "invalid"
       THEN pc' = "clientCheck" /\ UNCHANGED exit
       ELSE Fail
    /\ UNCHANGED <<flags, provider, clientID, authzEp, tokenEp, do2lo, tok, printed>>

(* A custom provider or endpoint needs --client-id.                        *)
ClientCheck ==
    /\ pc = "clientCheck"
    /\ IF (provider # "google" \/ flags.authzEp) /\ ~flags.clientID
       THEN Fail
       ELSE pc' = "credentials" /\ UNCHANGED exit
    /\ UNCHANGED <<flags, provider, clientID, authzEp, tokenEp, do2lo, tok, printed>>

(* The implicit flow needs --insecure and --client-id and gets no default  *)
(* client; otherwise the built-in client is the default; --client-id       *)
(* overrides it.                                                           *)
Credentials ==
    /\ pc = "credentials"
    /\ IF flags.implicit /\ ~(flags.insecure /\ flags.clientID)
       THEN Fail /\ UNCHANGED clientID
       ELSE /\ clientID' = IF flags.clientID THEN "flag"
                           ELSE IF flags.implicit THEN "none" ELSE "default"
            /\ pc' = "endpoints"
            /\ UNCHANGED exit
    /\ UNCHANGED <<flags, provider, authzEp, tokenEp, do2lo, tok, printed>>

(* --authorization-endpoint needs --token-endpoint; both replace the       *)
(* provider.  --token-endpoint alone is not read.                          *)
Endpoints ==
    /\ pc = "endpoints"
    /\ IF ~flags.authzEp
       THEN pc' = "account" /\ UNCHANGED <<exit, provider, authzEp, tokenEp>>
       ELSE IF ~flags.tokenEp
       THEN Fail /\ UNCHANGED <<provider, authzEp, tokenEp>>
       ELSE /\ provider' = "none"
            /\ authzEp' = "flag" /\ tokenEp' = "flag"
            /\ pc' = "account"
            /\ UNCHANGED exit
    /\ UNCHANGED <<flags, clientID, do2lo, tok, printed>>

(* --account: the file replaces the provider, both endpoints and the       *)
(* client; an installed-app file or a service account.  For any other     *)
(* shape the code returns errors.Wrapf(err, ...) with err = nil.           *)
Account ==
    /\ pc = "account"
    /\ \/ /\ flags.account = "none"
          /\ pc' = "newOauth"
          /\ UNCHANGED <<exit, provider, clientID, authzEp, tokenEp, do2lo>>
       \/ /\ flags.account \in {"unreadable", "notJSON"}
          /\ Fail
          /\ UNCHANGED <<provider, clientID, authzEp, tokenEp, do2lo>>
       \/ /\ flags.account \in {"installedPartial", "servicePartial"}
          /\ Panic
          /\ UNCHANGED <<provider, clientID, authzEp, tokenEp, do2lo>>
       \/ /\ flags.account \in {"installed", "service"}
          /\ provider' = "none"
          /\ authzEp' = "account" /\ tokenEp' = "account"
          /\ clientID' = "account"
          /\ do2lo' = (flags.account = "service")
          /\ pc' = "newOauth"
          /\ UNCHANGED exit
       \/ /\ flags.account = "other"
          /\ exit' = "ok" /\ pc' = "exited"
          /\ UNCHANGED <<provider, clientID, authzEp, tokenEp, do2lo>>
    /\ UNCHANGED <<flags, tok, printed>>

(* newOauth: state, verifier and nonce can fail to generate; google gets   *)
(* its fixed endpoints; another provider with no endpoint yet runs OIDC   *)
(* discovery, which fails on a transport or JSON error or a missing        *)
(* endpoint.                                                               *)
NewOauth ==
    /\ pc = "newOauth"
    /\ \/ Fail /\ UNCHANGED <<authzEp, tokenEp>>
       \/ /\ provider = "google"
          /\ authzEp' = "google" /\ tokenEp' = "google"
          /\ pc' = "flow" /\ UNCHANGED exit
       \/ /\ provider # "google"
          /\ authzEp # "none" \/ tokenEp # "none"
          /\ pc' = "flow" /\ UNCHANGED <<exit, authzEp, tokenEp>>
       \/ /\ provider # "google"
          /\ authzEp = "none" /\ tokenEp = "none"
          /\ authzEp' = "discovery" /\ tokenEp' = "discovery"
          /\ pc' = "flow" /\ UNCHANGED exit
    /\ UNCHANGED <<flags, provider, clientID, do2lo, tok, printed>>

(* The strategy chosen once: service account (JWT or two-legged), then    *)
(* --console (manual), else loopback.  DoTwoLeggedAuthorization returns    *)
(* the decoded token without looking at its error fields; the manual and  *)
(* loopback flows turn those into errors; DoJWTAuthorization signs its own *)
(* token.  A loopback flow can hang in srv.Close().                        *)
Flow ==
    /\ pc = "flow"
    /\ \/ Fail /\ UNCHANGED tok
       \/ /\ do2lo /\ ~flags.jwt
          /\ tok' \in {"valid", "withError"}
          /\ pc' = "output" /\ UNCHANGED exit
       \/ /\ ~(do2lo /\ ~flags.jwt)
          /\ tok' = "valid"
          /\ pc' = "output" /\ UNCHANGED exit
       \/ /\ ~do2lo /\ ~flags.console
          /\ pc' = "hung"
          /\ UNCHANGED <<exit, tok>>
    /\ UNCHANGED <<flags, provider, clientID, authzEp, tokenEp, do2lo, printed>>

(* The token is printed (JSON, bare, or as a header) and oauthCmd returns  *)
(* nil.                                                                    *)
Output ==
    /\ pc = "output"
    /\ printed' = TRUE
    /\ exit' = "ok" /\ pc' = "exited"
    /\ UNCHANGED <<flags, provider, clientID, authzEp, tokenEp, do2lo, tok>>

Next ==
    \/ Validate \/ ClientCheck \/ Credentials \/ Endpoints \/ Account
    \/ NewOauth \/ Flow \/ Output

Spec == Init /\ [][Next]_vars

-----------------------------------------------------------------------------
TypeOK ==
    /\ flags \in FlagRecs
    /\ pc \in PCs
    /\ provider \in {"google", "https", "other", "none"}
    /\ clientID \in Sources /\ authzEp \in Sources /\ tokenEp \in Sources
    /\ do2lo \in BOOLEAN
    /\ tok \in Tokens
    /\ exit \in Exits
    /\ printed \in BOOLEAN

(* The built-in Google installed-app client id and secret are only ever   *)
(* sent to Google's endpoints: whatever the combination of --provider,     *)
(* endpoint flags and --account, a flow that runs with the default client *)
(* runs against the fixed Google endpoints.                                *)
DefaultClientOnlyGoogle ==
    (pc \in {"flow", "output"} /\ clientID = "default") =>
        authzEp = "google" /\ tokenEp = "google"

(* Spec 6: the exit status is zero only when a token was printed.          *)
SuccessPrintsToken ==
    exit = "ok" => printed

(* Spec 3 and 7: a token carrying error fields is a failure, never printed *)
(* as a success.                                                           *)
NoErrorTokenSucceeds ==
    exit = "ok" => tok # "withError"

(* Spec 4.1: endpoints given explicitly take precedence.                   *)
ExplicitEndpointsWin ==
    pc \in {"flow", "output"} =>
        /\ flags.authzEp => authzEp = "flag"
        /\ flags.tokenEp => tokenEp = "flag"

=============================================================================
