------------------------ MODULE OAuthLoopbackProofs ------------------------
(***************************************************************************)
(* Proofs about OAuthLoopback for every set of request slots: the type     *)
(* invariant, that a returned token is authentic (TokenSoundness), and     *)
(* that every code exchange carries the redirect_uri of the authorization  *)
(* request (ExchangeUsesRedirectURI).                                      *)
(***************************************************************************)
EXTENDS OAuthLoopback, TLAPS

-----------------------------------------------------------------------------
(* Route and implicitRoute only name handler states.                       *)
LEMMA RouteType ==
    ASSUME NEW q \in QueryRecs
    PROVE  Route(q) \in HandlerStates
BY DEF Route, implicitRoute, HandlerStates

(* What a handler state reached from ServeHTTP says about the query.       *)
LEMMA RouteExchange ==
    ASSUME NEW q \in QueryRecs, Route(q) = "exchange"
    PROVE  /\ q.onPath /\ ~q.error /\ ~implicit
           /\ q.state = "good"
BY DEF Route, implicitRoute

LEMMA RouteToken ==
    ASSUME NEW q \in QueryRecs, Route(q) = "sendTok"
    PROVE  /\ q.onPath /\ ~q.error /\ implicit
           /\ q.urlhash /\ q.accessToken /\ q.state = "good"
BY DEF Route, implicitRoute

(* A handler sent to badRequest, or finished without a send, cannot hold  *)
(* an authentic callback.                                                  *)
LEMMA RouteErr ==
    ASSUME NEW q \in QueryRecs, Route(q) = "sendErr"
    PROVE  q.error \/ q.state # "good" \/ (implicit /\ ~q.accessToken)
BY DEF Route, implicitRoute

LEMMA RouteDone ==
    ASSUME NEW q \in QueryRecs, Route(q) = "done"
    PROVE  ~q.onPath \/ (implicit /\ ~q.urlhash) \/ ~implicit
BY DEF Route, implicitRoute

(* ServeHTTP answers a malformed code-flow callback with a bare 400.       *)
LEMMA RouteMalformed ==
    ASSUME NEW q \in QueryRecs, ~implicit, Malformed(q)
    PROVE  Route(q) = "done"
BY DEF Route, Malformed

LEMMA QueriesType == Queries \subseteq QueryRecs
BY DEF Queries

LEMMA NoQueryType == NoQuery \in QueryRecs
BY DEF NoQuery, QueryRecs

(* The initial state is well typed.                                        *)
LEMMA InitType == Init => TypeOK
<1> SUFFICES ASSUME Init PROVE TypeOK
  OBVIOUS
<1>1. req \in [Req -> QueryRecs]
  BY NoQueryType DEF Init
<1>2. exch \in [Req -> [out: ExchOutcomes, redirect: BOOLEAN]]
  BY DEF Init, ExchOutcomes
<1>3. script \in [Req -> ScriptPages]
  BY DEF Init, ScriptPages
<1>4. QED
  BY <1>1, <1>2, <1>3 DEF Init, TypeOK, OrchStates, HandlerStates, ResultKinds

-----------------------------------------------------------------------------
(* Every step keeps the variables in their types.                          *)
LEMMA TypeStep == TypeOK /\ [Next]_vars => TypeOK'
  <2> SUFFICES ASSUME TypeOK, [Next]_vars PROVE TypeOK'
    OBVIOUS
  <2>1. CASE NewServer
    BY <2>1 DEF NewServer, TypeOK, OrchStates, ResultKinds
  <2>2. CASE SetRedirectURI
    BY <2>2 DEF SetRedirectURI, TypeOK, OrchStates
  <2>3. CASE Auth
    <3>1. result' \in [kind: ResultKinds, from: Req \cup {NoReq}]
      BY <2>3 DEF Auth, TypeOK, ResultKinds
    <3>2. published' \in BOOLEAN /\ pc' \in OrchStates
      BY <2>3 DEF Auth, TypeOK, OrchStates
    <3>3. QED
      BY <2>3, <3>1, <3>2 DEF Auth, TypeOK
  <2>4. CASE Timeout
    BY <2>4 DEF Timeout, TypeOK, OrchStates, ResultKinds
  <2>5. CASE CloseListener
    BY <2>5 DEF CloseListener, TypeOK, OrchStates
  <2>6. CASE CloseReturns
    BY <2>6 DEF CloseReturns, TypeOK, OrchStates
  <2>7. ASSUME NEW r \in Req, Receive(r) PROVE TypeOK'
    BY <2>7 DEF Receive, TypeOK, OrchStates, ResultKinds, HandlerStates
  <2>8. ASSUME NEW r \in Req, ServeHTTP(r) PROVE TypeOK'
    <3>1. PICK q \in Queries :
                /\ req' = [req EXCEPT ![r] = q]
                /\ hpc' = [hpc EXCEPT ![r] = Route(q)]
                /\ script' = IF ServesScript(q)
                              THEN [script EXCEPT ![r] = IF redirectSet THEN "fresh"
                                                         ELSE "stale"]
                              ELSE script
      BY <2>8 DEF ServeHTTP
    <3>2. q \in QueryRecs /\ Route(q) \in HandlerStates
      BY <3>1, QueriesType, RouteType
    <3>3. script' \in [Req -> ScriptPages]
      BY <3>1 DEF TypeOK, ScriptPages
    <3>4. QED
      BY <2>8, <3>1, <3>2, <3>3 DEF ServeHTTP, TypeOK
  <2>9. ASSUME NEW r \in Req, Exchange(r) PROVE TypeOK'
    BY <2>9 DEF Exchange, TypeOK, HandlerStates, ExchOutcomes
  <2>10. CASE UNCHANGED vars
    BY <2>10 DEF vars, TypeOK
  <2>11. QED
    BY <2>1, <2>2, <2>3, <2>4, <2>5, <2>6, <2>7, <2>8, <2>9, <2>10 DEF Next

(* TypeOK holds in every reachable state.                                  *)
THEOREM TypeCorrect == Spec => []TypeOK
BY InitType, TypeStep, PTL DEF Spec

-----------------------------------------------------------------------------
(* The inductive strengthening.  A handler about to exchange holds a       *)
(* callback with o.state in the code flow; one about to send a token holds *)
(* an authentic request; a returned token's sender has finished, so its    *)
(* request and exchange can no longer change; the state reaches a request  *)
(* only after the authorization URL is out, which is after o.redirectURI   *)
(* is assigned (DoLoopbackAuthorization assigns it before calling Auth).  *)
HandlerInv(r) ==
    /\ hpc[r] = "idle" =>
          /\ req[r] = NoQuery /\ exch[r].out = "none" /\ result.from # r
    /\ hpc[r] = "exchange" =>
          /\ req[r].onPath /\ ~req[r].error /\ ~implicit
          /\ req[r].state = "good"
    /\ hpc[r] = "sendTok" => Authentic(r)
    /\ hpc[r] = "sendErr" => ~Authentic(r)
    /\ req[r].state = "good" => published
    /\ exch[r].out # "none" => exch[r].redirect

ResultInv ==
    result.kind = "token" =>
        /\ result.from \in Req
        /\ hpc[result.from] = "done"
        /\ Authentic(result.from)

IInv ==
    /\ TypeOK
    /\ pc \in {"newServer", "setRedirect", "auth", "wait"} =>
          result = [kind |-> "none", from |-> NoReq]
    /\ pc \in {"close", "closeWait", "done"} => result.kind # "none"
    /\ pc = "auth" => redirectSet
    /\ published => redirectSet
    /\ \A r \in Req : HandlerInv(r)
    /\ ResultInv
    /\ MalformedKeepsWaiting

LEMMA IInvInit == Init => IInv
BY InitType, ReqAssumption DEF Init, IInv, HandlerInv, ResultInv, NoQuery, MalformedKeepsWaiting, Malformed

LEMMA IInvNext == IInv /\ [Next]_vars => IInv'
<1> SUFFICES ASSUME IInv, [Next]_vars PROVE IInv'
  OBVIOUS
<1>0. TypeOK'
  BY TypeStep DEF IInv
<1> USE <1>0, ReqAssumption DEF IInv
<1>1. CASE NewServer
  BY <1>1 DEF NewServer, HandlerInv, ResultInv, Authentic, MalformedKeepsWaiting
<1>2. CASE SetRedirectURI
  BY <1>2 DEF SetRedirectURI, HandlerInv, ResultInv, Authentic, MalformedKeepsWaiting
<1>3. CASE Auth
  <2>1. redirectSet
    BY <1>3 DEF Auth, TypeOK
  <2>2. QED
    BY <1>3, <2>1 DEF Auth, HandlerInv, ResultInv, Authentic, MalformedKeepsWaiting
<1>4. CASE Timeout
  BY <1>4 DEF Timeout, HandlerInv, ResultInv, Authentic, MalformedKeepsWaiting
<1>5. CASE CloseListener
  BY <1>5 DEF CloseListener, HandlerInv, ResultInv, Authentic, MalformedKeepsWaiting
<1>6. CASE CloseReturns
  BY <1>6 DEF CloseReturns, HandlerInv, ResultInv, Authentic, MalformedKeepsWaiting
<1>7. ASSUME NEW r \in Req, Receive(r) PROVE IInv'
  <2>1. hpc[r] \in {"sendTok", "sendErr"} /\ result'.from = r
    BY <1>7 DEF Receive
  <2>2. ~(~implicit /\ Malformed(req[r]))
    BY <2>1 DEF MalformedKeepsWaiting
  <2>3. \A s \in Req : HandlerInv(s)'
    BY <1>7, <2>1 DEF Receive, HandlerInv, Authentic, TypeOK
  <2>4. ResultInv'
    BY <1>7 DEF Receive, ResultInv, HandlerInv, Authentic, TypeOK
  <2>5. MalformedKeepsWaiting'
    BY <1>7, <2>1, <2>2 DEF Receive, MalformedKeepsWaiting, TypeOK
  <2>6. QED
    BY <1>7, <2>3, <2>4, <2>5 DEF Receive
<1>8. ASSUME NEW r \in Req, ServeHTTP(r) PROVE IInv'
  <2>1. PICK q \in Queries :
              /\ q.state = "good" => published
              /\ req' = [req EXCEPT ![r] = q]
              /\ hpc' = [hpc EXCEPT ![r] = Route(q)]
    BY <1>8 DEF ServeHTTP
  <2>2. q \in QueryRecs
    BY <2>1, QueriesType
  <2>3. /\ hpc[r] = "idle"
        /\ exch[r].out = "none" /\ result.from # r
        /\ UNCHANGED <<implicit, published, result, exch>>
    BY <1>8 DEF ServeHTTP, HandlerInv
  <2>4. Route(q) = "exchange" => /\ q.onPath /\ ~q.error /\ ~implicit
                                 /\ q.state = "good"
    BY <2>2, RouteExchange
  <2>5. Route(q) = "sendTok" => /\ q.onPath /\ ~q.error /\ implicit
                                /\ q.urlhash /\ q.accessToken /\ q.state = "good"
    BY <2>2, RouteToken
  <2>6. Route(q) = "sendErr" =>
            q.error \/ q.state # "good" \/ (implicit /\ ~q.accessToken)
    BY <2>2, RouteErr
  <2>7. (~implicit /\ Malformed(q)) => Route(q) = "done"
    BY <2>2, RouteMalformed
  <2>8. Route(q) # "idle"
    BY DEF Route, implicitRoute
  <2>9. HandlerInv(r)'
    BY <2>1, <2>3, <2>4, <2>5, <2>6, <2>8 DEF HandlerInv, Authentic, TypeOK
  <2>10. \A s \in Req \ {r} : HandlerInv(s)'
    BY <2>1, <2>3 DEF HandlerInv, Authentic, TypeOK
  <2>11. ResultInv'
    BY <2>1, <2>3 DEF ResultInv, Authentic, TypeOK
  <2>12. MalformedKeepsWaiting'
    BY <2>1, <2>3, <2>7 DEF MalformedKeepsWaiting, TypeOK
  <2>13. QED
    BY <1>8, <2>9, <2>10, <2>11, <2>12 DEF ServeHTTP
<1>9. ASSUME NEW r \in Req, Exchange(r) PROVE IInv'
  <2>1. PICK out \in {"netErr", "provErr", "ok"} :
              /\ exch' = [exch EXCEPT ![r] = [out |-> out, redirect |-> redirectSet]]
              /\ hpc' = [hpc EXCEPT ![r] = IF out = "ok" THEN "sendTok" ELSE "sendErr"]
    BY <1>9 DEF Exchange
  <2>2. /\ hpc[r] = "exchange" /\ redirectSet
        /\ ~(~implicit /\ Malformed(req[r]))
    BY <1>9 DEF Exchange, HandlerInv, MalformedKeepsWaiting
  <2>3. \A s \in Req : HandlerInv(s)'
    BY <1>9, <2>1, <2>2 DEF Exchange, HandlerInv, Authentic, TypeOK
  <2>4. ResultInv'
    BY <1>9, <2>1 DEF Exchange, ResultInv, Authentic, TypeOK
  <2>5. MalformedKeepsWaiting'
    BY <1>9, <2>1, <2>2 DEF Exchange, MalformedKeepsWaiting, TypeOK
  <2>6. QED
    BY <1>9, <2>3, <2>4, <2>5 DEF Exchange
<1>10. CASE UNCHANGED vars
  BY <1>10 DEF vars, HandlerInv, ResultInv, Authentic, MalformedKeepsWaiting
<1>11. QED
  BY <1>1, <1>2, <1>3, <1>4, <1>5, <1>6, <1>7, <1>8, <1>9, <1>10 DEF Next

(* The token DoLoopbackAuthorization returns came from a callback that    *)
(* carried o.state and, in the code flow, from an Exchange without error   *)
(* fields, for any number of concurrent callbacks.                        *)
THEOREM TokenSoundnessHolds == Spec => []TokenSoundness
<1>1. IInv => TokenSoundness
  BY DEF IInv, ResultInv, TokenSoundness
<1>2. QED
  BY IInvInit, IInvNext, <1>1, PTL DEF Spec

(* Every authorization code is exchanged with the redirect_uri that the    *)
(* authorization request carried, though requests are served before        *)
(* o.redirectURI is assigned.                                             *)
THEOREM ExchangeRedirectHolds == Spec => []ExchangeUsesRedirectURI
<1>1. IInv => ExchangeUsesRedirectURI
  BY DEF IInv, HandlerInv, ExchangeUsesRedirectURI
<1>2. QED
  BY IInvInit, IInvNext, <1>1, PTL DEF Spec

(* A malformed code-flow callback (code or state missing, spec 7: likely  *)
(* browser interference) gets a 400, reaches neither Exchange nor a       *)
(* channel, and never ends the flow, for any number of callbacks.         *)
THEOREM MalformedKeepsWaitingHolds == Spec => []MalformedKeepsWaiting
<1>1. IInv => MalformedKeepsWaiting
  BY DEF IInv
<1>2. QED
  BY IInvInit, IInvNext, <1>1, PTL DEF Spec

-----------------------------------------------------------------------------
(* Refinement of OneShotResult.  The abstract slot is what                *)
(* DoLoopbackAuthorization has returned (Returned), empty until pc = done. *)
(* A step that leaves implicit, hpc, req and exch alone, and either stays  *)
(* away from done or leaves pc and result alone, is an abstract stutter.   *)
LEMMA MappedUnchanged ==
    ASSUME UNCHANGED <<implicit, hpc, req, exch>>,
           \/ pc # "done" /\ pc' # "done"
           \/ UNCHANGED <<pc, result>>
    PROVE  UNCHANGED OS!avars
BY DEF OS!avars, Eligible, Authentic, Returned

(* DoLoopbackAuthorization returns: the slot, empty until then, takes the  *)
(* value the select left in result.                                        *)
LEMMA MappedReturn ==
    ASSUME IInv, pc # "done", pc' = "done",
           UNCHANGED <<implicit, hpc, req, exch>>,
           \/ result' = result /\ result.kind # "none"
           \/ result' = [kind |-> "error", from |-> NoReq]
    PROVE  OS!Decide
<1>1. Returned = OS!Empty /\ Eligible' = Eligible
  BY DEF Returned, OS!Empty, Eligible, Authentic
<1>2. CASE result' = result /\ result.kind = "token"
  <2>1. result.from \in Eligible
    BY <1>2 DEF IInv, ResultInv, Eligible
  <2>2. Returned' = [kind |-> "token", from |-> result.from]
    BY <1>2 DEF Returned
  <2>3. QED
    BY <1>1, <2>1, <2>2 DEF OS!Decide
<1>3. CASE result' = result /\ result.kind \in {"error", "timeout"}
  <2>1. Returned' = [kind |-> result.kind, from |-> NoReq]
    BY <1>3 DEF Returned
  <2>2. QED
    BY <1>1, <1>3, <2>1 DEF OS!Decide
<1>4. CASE result' = [kind |-> "error", from |-> NoReq]
  <2>1. Returned' = [kind |-> "error", from |-> NoReq]
    BY <1>4 DEF Returned
  <2>2. QED
    BY <1>1, <2>1 DEF OS!Decide
<1>5. QED
  BY <1>2, <1>3, <1>4 DEF IInv, TypeOK, ResultKinds

LEMMA RefineStep == IInv /\ [Next]_vars => [OS!ONext]_OS!avars
<1> SUFFICES ASSUME IInv, [Next]_vars PROVE [OS!ONext]_OS!avars
  OBVIOUS
<1> USE DEF OS!ONext
<1>1. CASE NewServer
  <2>1. UNCHANGED <<implicit, hpc, req, exch>> /\ pc = "newServer"
    BY <1>1 DEF NewServer
  <2>2. CASE pc' = "setRedirect"
    BY <2>1, <2>2, MappedUnchanged
  <2>3. CASE pc' = "done" /\ result' = [kind |-> "error", from |-> NoReq]
    BY <2>1, <2>3, MappedReturn
  <2>4. QED
    BY <1>1, <2>2, <2>3 DEF NewServer
<1>2. CASE SetRedirectURI \/ Auth \/ Timeout \/ CloseListener
  BY <1>2, MappedUnchanged DEF SetRedirectURI, Auth, Timeout, CloseListener
<1>3. CASE CloseReturns
  <2>1. result.kind # "none"
    BY <1>3 DEF CloseReturns, IInv
  <2>2. QED
    BY <1>3, <2>1, MappedReturn DEF CloseReturns
<1>4. ASSUME NEW r \in Req, Receive(r) PROVE [OS!ONext]_OS!avars
  <2>1. /\ hpc[r] \in {"sendTok", "sendErr"}
        /\ hpc[r] = "sendTok" => Authentic(r)
        /\ hpc[r] = "sendErr" => ~Authentic(r)
    BY <1>4 DEF Receive, IInv, HandlerInv
  <2>2. Eligible' = Eligible
    BY <1>4, <2>1 DEF Receive, Eligible, Authentic, IInv, TypeOK
  <2>3. Returned' = Returned
    BY <1>4 DEF Receive, Returned
  <2>4. QED
    BY <2>2, <2>3 DEF OS!avars
<1>5. ASSUME NEW r \in Req, ServeHTTP(r) PROVE [OS!ONext]_OS!avars
  <2>1. PICK q \in Queries :
              /\ req' = [req EXCEPT ![r] = q]
              /\ hpc' = [hpc EXCEPT ![r] = Route(q)]
    BY <1>5 DEF ServeHTTP
  <2>2. q \in QueryRecs
    BY <2>1, QueriesType
  <2>3. /\ hpc[r] = "idle" /\ exch[r].out = "none"
        /\ UNCHANGED <<implicit, pc, result, exch>>
    BY <1>5 DEF ServeHTTP, IInv, HandlerInv
  <2>4. r \notin Eligible
    BY <2>3 DEF Eligible
  <2>5. \A s \in Req \ {r} : (s \in Eligible') = (s \in Eligible)
    BY <2>1, <2>3 DEF Eligible, Authentic, IInv, TypeOK
  <2>6. Returned' = Returned
    BY <2>3 DEF Returned
  <2>7. CASE Route(q) = "sendTok"
    <3>1. Eligible' = Eligible \cup {r}
      BY <2>1, <2>4, <2>5, <2>7 DEF Eligible, IInv, TypeOK
    <3>2. QED
      BY <2>6, <3>1 DEF OS!Admit
  <2>8. CASE Route(q) # "sendTok"
    <3>1. Route(q) = "done" => ~q.onPath \/ (implicit /\ ~q.urlhash) \/ ~implicit
      BY <2>2, RouteDone
    <3>2. r \notin Eligible'
      BY <2>1, <2>3, <2>8, <3>1 DEF Eligible, Authentic, IInv, TypeOK
    <3>3. Eligible' = Eligible
      BY <2>4, <2>5, <3>2 DEF Eligible
    <3>4. QED
      BY <2>6, <3>3 DEF OS!avars
  <2>9. QED
    BY <2>7, <2>8
<1>6. ASSUME NEW r \in Req, Exchange(r) PROVE [OS!ONext]_OS!avars
  <2>1. PICK out \in {"netErr", "provErr", "ok"} :
              /\ exch' = [exch EXCEPT ![r] = [out |-> out, redirect |-> redirectSet]]
              /\ hpc' = [hpc EXCEPT ![r] = IF out = "ok" THEN "sendTok" ELSE "sendErr"]
    BY <1>6 DEF Exchange
  <2>2. /\ hpc[r] = "exchange" /\ r \notin Eligible
        /\ UNCHANGED <<implicit, pc, result, req>>
    BY <1>6 DEF Exchange, Eligible
  <2>3. \A s \in Req \ {r} : (s \in Eligible') = (s \in Eligible)
    BY <2>1, <2>2 DEF Eligible, Authentic, IInv, TypeOK
  <2>4. Returned' = Returned
    BY <2>2 DEF Returned
  <2>5. CASE out = "ok"
    <3>1. Eligible' = Eligible \cup {r}
      BY <2>1, <2>2, <2>3, <2>5 DEF Eligible, IInv, TypeOK
    <3>2. QED
      BY <2>4, <3>1 DEF OS!Admit
  <2>6. CASE out # "ok"
    <3>1. Eligible' = Eligible
      BY <2>1, <2>2, <2>3, <2>6 DEF Eligible, IInv, TypeOK
    <3>2. QED
      BY <2>4, <3>1 DEF OS!avars
  <2>7. QED
    BY <2>5, <2>6
<1>7. CASE UNCHANGED vars
  BY <1>7, MappedUnchanged DEF vars
<1>8. QED
  BY <1>1, <1>2, <1>3, <1>4, <1>5, <1>6, <1>7 DEF Next

(* What DoLoopbackAuthorization returns is a single-use result slot        *)
(* (the safety part of OneShotResult): it returns at most once, after      *)
(* srv.Close(); a token it returns came from a callback whose credential   *)
(* was authentic at the time; an error or the timeout carries no sender;   *)
(* and nothing any later callback does changes the returned value, for     *)
(* every set of request slots.                                             *)
THEOREM RefinesOneShot == Spec => OS!SafeSpec
<1>1. Init => OS!OInit
  BY DEF Init, OS!OInit, OS!Empty, Eligible, Returned
<1>2. QED
  BY <1>1, IInvInit, IInvNext, RefineStep, PTL DEF Spec, OS!SafeSpec

=============================================================================
