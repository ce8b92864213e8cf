--------------------------- MODULE OAuthLoopback ---------------------------
(***************************************************************************)
(* The loopback authorization flow of `step oauth`                         *)
(* (src/command/oauth/cmd.go): DoLoopbackAuthorization, the callback       *)
(* server it starts (NewServer), the HTTP handler ServeHTTP with its       *)
(* implicit-flow branch implicitHandler, and Exchange.                     *)
(*                                                                         *)
(* Two kinds of actor interleave: the orchestrator goroutine that runs     *)
(* DoLoopbackAuthorization, and one handler goroutine per HTTP request the *)
(* listener accepts (net/http serves every request on its own goroutine).  *)
(* They meet on the unbuffered channels o.tokCh and o.errCh: a send is a   *)
(* rendezvous with the orchestrator's select, and blocks for ever when the *)
(* orchestrator is no longer in that select.  The deferred srv.Close() of  *)
(* httptest.Server closes the listener and then waits until every request  *)
(* in flight has finished.                                                 *)
(*                                                                         *)
(* Data is abstracted to what the handler's branches tell apart: a query   *)
(* is a record of which parameters are present, and its state parameter    *)
(* is "none", "good" (equal to o.state) or "bad".                          *)
(***************************************************************************)
EXTENDS Naturals, FiniteSets

CONSTANTS
    Req,    \* request slots: the HTTP requests that reach the listener
    NoReq   \* "no request", the sender of a result no handler produced

ASSUME ReqAssumption == IsFiniteSet(Req) /\ NoReq \notin Req

VARIABLES
    implicit,    \* o.implicit (--implicit), fixed for the run
    listen,      \* o.CallbackListener # "" (--listen), fixed for the run
    pc,          \* where DoLoopbackAuthorization is
    listener,    \* the callback server's listener: "none", "open", "closed"
    redirectSet, \* o.redirectURI has been assigned (lines 598-602)
    published,   \* the authorization URL, carrying o.state, is in the browser
    result,      \* what DoLoopbackAuthorization returns, and who sent it
    hpc,         \* hpc[r]: where the handler goroutine of request r is
    req,         \* req[r]: the query request r carried (history)
    exch,        \* exch[r]: how Exchange went for r, and the redirect_uri it sent
    script       \* script[r]: the redirect script page served to r, and
                 \* whether the o.redirectURI it embeds was assigned

vars == <<implicit, listen, pc, listener, redirectSet, published, result,
          hpc, req, exch, script>>

-----------------------------------------------------------------------------
(* The query parameters ServeHTTP and implicitHandler branch on.  A        *)
(* request off the callback path, or carrying `error`, is handled the same *)
(* whatever its other parameters, so those are kept at one value.          *)
QueryRecs == [onPath: BOOLEAN, error: BOOLEAN, code: BOOLEAN,
              state: {"none", "good", "bad"}, urlhash: BOOLEAN,
              accessToken: BOOLEAN]

Blank(q) == /\ ~q.code /\ q.state = "none"
            /\ ~q.urlhash /\ ~q.accessToken

Queries == {q \in QueryRecs : /\ ~q.onPath => (Blank(q) /\ ~q.error)
                              /\ q.error => Blank(q)}

NoQuery == [onPath |-> FALSE, error |-> FALSE, code |-> FALSE,
            state |-> "none", urlhash |-> FALSE, accessToken |-> FALSE]

HandlerStates == {"idle", "exchange", "sendTok", "sendErr", "done"}

ExchOutcomes == {"none", "netErr", "provErr", "ok"}

ScriptPages == {"none", "fresh", "stale"}

ResultKinds == {"none", "token", "error", "timeout"}

OrchStates == {"newServer", "setRedirect", "auth", "wait", "close",
               "closeWait", "done"}

-----------------------------------------------------------------------------
(* implicitHandler: the first load serves a script that re-requests the    *)
(* path with urlhash=true; the second checks state and access_token and    *)
(* sends the token.  badRequest sends on errCh.                            *)
implicitRoute(q) ==
    IF ~q.urlhash THEN "done"
    ELSE IF q.state # "good" THEN "sendErr"
    ELSE IF ~q.accessToken THEN "sendErr"
    ELSE "sendTok"

(* The first load of the implicit flow (no urlhash) is answered with the   *)
(* page whose script sends the fragment back to o.redirectURI, read when   *)
(* the page is written.                                                    *)
ServesScript(q) == implicit /\ q.onPath /\ ~q.error /\ ~q.urlhash

(* Seeded faults: each is a plausible slip in the code it replaces, used   *)
(* to show that a property can tell the code from the slip.                *)

(* ServeHTTP with `code == "" && state == ""` for `||` at line 798.        *)
RouteAndMalformed(q) ==
    IF ~q.onPath THEN "done"
    ELSE IF q.error THEN "sendErr"
    ELSE IF implicit THEN implicitRoute(q)
    ELSE IF ~q.code /\ q.state = "none" THEN "done"
    ELSE IF q.state # "good" THEN "sendErr"
    ELSE "exchange"

(* ServeHTTP without the state comparison of line 810.                     *)
RouteNoStateCheck(q) ==
    IF ~q.onPath THEN "done"
    ELSE IF q.error THEN "sendErr"
    ELSE IF implicit THEN implicitRoute(q)
    ELSE IF ~q.code \/ q.state = "none" THEN "done"
    ELSE "exchange"

(* ServeHTTP without the tok.Err / tok.ErrDesc check of line 820.          *)
ExchangeNoErrCheck(r) ==
    /\ hpc[r] = "exchange"
    /\ \E out \in {"netErr", "provErr", "ok"} :
          /\ exch' = [exch EXCEPT ![r] = [out |-> out, redirect |-> redirectSet]]
          /\ hpc' = [hpc EXCEPT ![r] = IF out = "netErr" THEN "sendErr" ELSE "sendTok"]
    /\ UNCHANGED <<script, implicit, listen, pc, listener, redirectSet, published, result, req>>

(* ServeHTTP up to the call of Exchange, early return by early return.  A  *)
(* request missing code or state gets a bare 400 and no channel send.      *)
Route(q) ==
    IF ~q.onPath THEN "done"
    ELSE IF q.error THEN "sendErr"
    ELSE IF implicit THEN implicitRoute(q)
    ELSE IF ~q.code \/ q.state = "none" THEN "done"
    ELSE IF q.state # "good" THEN "sendErr"
    ELSE "exchange"

-----------------------------------------------------------------------------
Init ==
    /\ implicit \in BOOLEAN
    /\ listen \in BOOLEAN
    /\ pc = "newServer"
    /\ listener = "none"
    /\ redirectSet = FALSE
    /\ published = FALSE
    /\ result = [kind |-> "none", from |-> NoReq]
    /\ hpc = [r \in Req |-> "idle"]
    /\ req = [r \in Req |-> NoQuery]
    /\ exch = [r \in Req |-> [out |-> "none", redirect |-> FALSE]]
    /\ script = [r \in Req |-> "none"]

(* NewServer: httptest.NewServer, or net.Listen on --listen, which can     *)
(* fail (address in use); the error is returned before srv.Close is        *)
(* deferred.                                                               *)
NewServer ==
    /\ pc = "newServer"
    /\ \/ /\ listener' = "open"
          /\ pc' = "setRedirect"
          /\ UNCHANGED result
       \/ /\ listen
          /\ result' = [kind |-> "error", from |-> NoReq]
          /\ pc' = "done"
          /\ UNCHANGED listener
    /\ UNCHANGED <<script, implicit, listen, redirectSet, published, hpc, req, exch>>

(* o.redirectURI := --listen-url or srv.URL, after the server is serving. *)
SetRedirectURI ==
    /\ pc = "setRedirect"
    /\ redirectSet' = TRUE
    /\ pc' = "auth"
    /\ UNCHANGED <<script, implicit, listen, listener, published, result, hpc, req, exch>>

(* o.Auth() and OpenInBrowser: the URL with o.state reaches the browser    *)
(* (opened, or printed for the user); a parse error of the authorization  *)
(* endpoint returns through the deferred srv.Close.                        *)
Auth ==
    /\ pc = "auth"
    /\ \/ /\ published' = TRUE
          /\ pc' = "wait"
          /\ UNCHANGED result
       \/ /\ result' = [kind |-> "error", from |-> NoReq]
          /\ pc' = "close"
          /\ UNCHANGED published
    /\ UNCHANGED <<script, implicit, listen, listener, redirectSet, hpc, req, exch>>

(* The select on o.tokCh and o.errCh: a rendezvous with handler r.        *)
Receive(r) ==
    /\ pc = "wait"
    /\ hpc[r] \in {"sendTok", "sendErr"}
    /\ result' = [kind |-> IF hpc[r] = "sendTok" THEN "token" ELSE "error",
                  from |-> r]
    /\ hpc' = [hpc EXCEPT ![r] = "done"]
    /\ pc' = "close"
    /\ UNCHANGED <<script, implicit, listen, listener, redirectSet, published, req, exch>>

(* The select's time.After(2 * time.Minute) case.                          *)
Timeout ==
    /\ pc = "wait"
    /\ result' = [kind |-> "timeout", from |-> NoReq]
    /\ pc' = "close"
    /\ UNCHANGED <<script, implicit, listen, listener, redirectSet, published, hpc, req, exch>>

(* The deferred srv.Close(): the listener is closed first ...              *)
CloseListener ==
    /\ pc = "close"
    /\ listener' = "closed"
    /\ pc' = "closeWait"
    /\ UNCHANGED <<script, implicit, listen, redirectSet, published, result, hpc, req, exch>>

(* ... then Close waits for every request in flight to finish, and         *)
(* DoLoopbackAuthorization returns.                                        *)
CloseReturns ==
    /\ pc = "closeWait"
    /\ \A r \in Req : hpc[r] \in {"idle", "done"}
    /\ pc' = "done"
    /\ UNCHANGED <<script, implicit, listen, listener, redirectSet, published, result, hpc, req, exch>>

(* The listener accepts request r and ServeHTTP runs up to Exchange.  Only *)
(* the browser, after the authorization URL is out, can carry o.state: it  *)
(* is 32 random alphanumerics.                                             *)
ServeHTTP(r) ==
    /\ listener = "open"
    /\ hpc[r] = "idle"
    /\ \E q \in Queries :
          /\ q.state = "good" => published
          /\ req' = [req EXCEPT ![r] = q]
          /\ hpc' = [hpc EXCEPT ![r] = Route(q)]
          /\ script' = IF ServesScript(q)
                        THEN [script EXCEPT ![r] = IF redirectSet THEN "fresh"
                                                   ELSE "stale"]
                        ELSE script
    /\ UNCHANGED <<implicit, listen, pc, listener, redirectSet, published, result, exch>>

(* Exchange posts the code with o.redirectURI as it is now; a transport or *)
(* JSON error, or a token with error fields, goes to badRequest.           *)
Exchange(r) ==
    /\ hpc[r] = "exchange"
    /\ \E out \in {"netErr", "provErr", "ok"} :
          /\ exch' = [exch EXCEPT ![r] = [out |-> out, redirect |-> redirectSet]]
          /\ hpc' = [hpc EXCEPT ![r] = IF out = "ok" THEN "sendTok" ELSE "sendErr"]
    /\ UNCHANGED <<script, implicit, listen, pc, listener, redirectSet, published, result, req>>

Next ==
    \/ NewServer \/ SetRedirectURI \/ Auth \/ Timeout
    \/ CloseListener \/ CloseReturns
    \/ \E r \in Req : Receive(r) \/ ServeHTTP(r) \/ Exchange(r)

(* The orchestrator goroutine is never starved while runnable, and the    *)
(* timer of time.After fires.  Handlers and the browser get no fairness:  *)
(* a request may never come, and Exchange may block without bound.       *)
Fairness ==
    /\ WF_vars(NewServer) /\ WF_vars(SetRedirectURI) /\ WF_vars(Auth)
    /\ WF_vars(Timeout) /\ WF_vars(CloseListener) /\ WF_vars(CloseReturns)

Spec == Init /\ [][Next]_vars /\ Fairness

-----------------------------------------------------------------------------
TypeOK ==
    /\ implicit \in BOOLEAN
    /\ listen \in BOOLEAN
    /\ pc \in OrchStates
    /\ listener \in {"none", "open", "closed"}
    /\ redirectSet \in BOOLEAN
    /\ published \in BOOLEAN
    /\ result \in [kind: ResultKinds, from: Req \cup {NoReq}]
    /\ hpc \in [Req -> HandlerStates]
    /\ req \in [Req -> QueryRecs]
    /\ exch \in [Req -> [out: ExchOutcomes, redirect: BOOLEAN]]
    /\ script \in [Req -> ScriptPages]

(* A request whose handler may deliver a token: it carried o.state and,    *)
(* in the code flow, its code was exchanged for a token without error      *)
(* fields; in the implicit flow it was the urlhash request with an         *)
(* access_token.                                                           *)
Authentic(r) ==
    /\ req[r].onPath /\ ~req[r].error
    /\ req[r].state = "good"
    /\ implicit => req[r].urlhash /\ req[r].accessToken
    /\ ~implicit => exch[r].out = "ok"

(* TokenSoundness: the token DoLoopbackAuthorization returns came from a  *)
(* callback that passed ServeHTTP's state check and, in the code flow, an *)
(* Exchange with no provider error, whatever other callbacks raced it.    *)
TokenSoundness ==
    result.kind = "token" => result.from \in Req /\ Authentic(result.from)

(* A request missing code or state (a browser extension, a stray probe)   *)
(* gets a 400 and never reaches a channel or the token endpoint: it never *)
(* ends the flow (spec 4.3 step 3, section 7).                            *)
Malformed(q) == q.onPath /\ ~q.error /\ (~q.code \/ q.state = "none")

MalformedKeepsWaiting ==
    \A r \in Req :
        (~implicit /\ Malformed(req[r])) =>
            /\ hpc[r] \in {"idle", "done"}
            /\ exch[r].out = "none"
            /\ result.from # r

(* Every code sent to the token endpoint went with the redirect_uri of    *)
(* the authorization request: no Exchange reads o.redirectURI before      *)
(* DoLoopbackAuthorization assigns it, though the server is already       *)
(* serving then.                                                          *)
ExchangeUsesRedirectURI ==
    \A r \in Req : exch[r].out # "none" => exch[r].redirect

(* Spec 4.2 and 4.3: the redirect target is fixed before the callback      *)
(* server's URL is used.  No page the implicit handler serves embeds an     *)
(* o.redirectURI that DoLoopbackAuthorization has not assigned yet (the     *)
(* read at line 869 races the write at lines 598-601).                      *)
ScriptUsesRedirectURI == \A r \in Req : script[r] # "stale"

(* Spec 5: a write after the reader has departed must not block the       *)
(* writer.  No handler is left blocked on o.tokCh or o.errCh once the     *)
(* select of DoLoopbackAuthorization has returned.                        *)
NoStrandedSender ==
    pc \in {"close", "closeWait", "done"} =>
        \A r \in Req : hpc[r] \notin {"sendTok", "sendErr"}

(* The refinement mapping to OneShotResult: the slot is what             *)
(* DoLoopbackAuthorization has returned, so it stays empty until the       *)
(* deferred srv.Close() is over (an error's sender is not part of what     *)
(* the caller sees); a request has presented an authentic credential once  *)
(* its handler holds a token to send, or has sent it.                      *)
Eligible ==
    {r \in Req : hpc[r] = "sendTok" \/ (hpc[r] = "done" /\ Authentic(r))}

Returned ==
    IF pc = "done"
    THEN [kind |-> result.kind,
          from |-> IF result.kind = "token" THEN result.from ELSE NoReq]
    ELSE [kind |-> "none", from |-> NoReq]

OS == INSTANCE OneShotResult
        WITH Sender <- Req, NoSender <- NoReq,
             outcome <- Returned,
             eligible <- Eligible

(* Spec 4.3: the 2-minute timeout is a hard upper bound and the listener   *)
(* is torn down on every exit path: DoLoopbackAuthorization returns.       *)
FlowReturns == <>(pc = "done")

=============================================================================
