----------------------- MODULE OAuthCommandFlowProofs -----------------------
(***************************************************************************)
(* Proof that oauthCmd, running the loopback flow, prints only a token an  *)
(* authentic callback delivered (LoopbackPrintsAuthenticToken), for every   *)
(* set of request slots and every command line.  It reuses the inductive   *)
(* invariant of OAuthLoopbackProofs through an instance with the same      *)
(* substitution as OAuthCommandFlow's Loop.                                *)
(***************************************************************************)
EXTENDS OAuthCommandFlow, TLAPS

LP == INSTANCE OAuthLoopbackProofs WITH pc <- lpc, implicit <- flags.implicit

(* The assumption OAuthLoopback makes of its constants holds here.         *)
LEMMA LPAssumption == LP!IsFiniteSet(Req) /\ NoReq \notin Req
BY ReqAssumption DEF LP!IsFiniteSet, IsFiniteSet

(* Loop and LP are the same instance of OAuthLoopback, one through the     *)
(* proof module: their initial predicates, actions and tuples coincide.    *)
LEMMA SameInit == Loop!Init <=> LP!Init
BY DEF Loop!Init, LP!Init, Loop!NoQuery, LP!NoQuery

LEMMA SameNext == Loop!Next <=> LP!Next
BY Zenon DEF Loop!Next, LP!Next, Loop!NewServer, LP!NewServer,
   Loop!SetRedirectURI, LP!SetRedirectURI, Loop!Auth, LP!Auth,
   Loop!Timeout, LP!Timeout, Loop!CloseListener, LP!CloseListener,
   Loop!CloseReturns, LP!CloseReturns, Loop!Receive, LP!Receive,
   Loop!ServeHTTP, LP!ServeHTTP, Loop!Exchange, LP!Exchange,
   Loop!Route, LP!Route, Loop!implicitRoute, LP!implicitRoute,
   Loop!ServesScript, LP!ServesScript, Loop!Queries, LP!Queries,
   Loop!QueryRecs, LP!QueryRecs, Loop!Blank, LP!Blank

(* Every step of the composition is a step of the loopback model or leaves *)
(* its variables, o.implicit included, alone.                              *)
LEMMA LoopSteps == [Next]_vars => [Loop!Next]_(Loop!vars)
<1> SUFFICES ASSUME [Next]_vars PROVE [Loop!Next]_(Loop!vars)
  OBVIOUS
<1>1. CASE CmdStep
  <2>1. flags' = flags
    BY <1>1 DEF CmdStep, Cmd!Next, Cmd!Validate, Cmd!ClientCheck,
           Cmd!Credentials, Cmd!Endpoints, Cmd!Account, Cmd!NewOauth,
           Cmd!Flow, Cmd!Output
  <2>2. QED
    BY <1>1, <2>1 DEF CmdStep, lvars, Loop!vars
<1>2. CASE LoopStep
  BY <1>2 DEF LoopStep
<1>3. CASE LoopReturns
  BY <1>3 DEF LoopReturns, lvars, Loop!vars
<1>4. CASE UNCHANGED vars
  BY <1>4 DEF vars, cvars, lvars, Loop!vars
<1>5. QED
  BY <1>1, <1>2, <1>3, <1>4 DEF Next

(* The composition's invariant: the loopback invariant; a printed token is *)
(* printed once oauthCmd has returned; and a loopback run that reached the *)
(* output code got there from a token the select returned.                 *)
FInv ==
    /\ LP!IInv
    /\ printed => pc = "exited"
    /\ ((pc = "output" \/ printed) /\ Loopback) => result.kind = "token"

LEMMA FInvInit == Init => FInv
<1> SUFFICES ASSUME Init PROVE FInv
  OBVIOUS
<1>1. LP!Init
  BY SameInit DEF Init
<1>2. LP!IInv
  BY <1>1, LP!IInvInit, LPAssumption
<1>3. QED
  BY <1>2 DEF Init, Cmd!Init, FInv

LEMMA FInvNext == FInv /\ [Next]_vars => FInv'
<1> SUFFICES ASSUME FInv, [Next]_vars PROVE FInv'
  OBVIOUS
<1>1. LP!IInv'
  <2>1. [LP!Next]_(LP!vars)
    BY LoopSteps, SameNext DEF Loop!vars, LP!vars
  <2>2. QED
    BY <2>1, LP!IInvNext, LPAssumption DEF FInv
<1>2. CASE CmdStep
  <2> DEFINE Out == pc = "output" \/ printed
  <2>1. /\ ~(pc = "flow" /\ Loopback) /\ Cmd!Next
        /\ UNCHANGED <<flags, result>>
    BY <1>2 DEF CmdStep, lvars, Cmd!Next, Cmd!Validate, Cmd!ClientCheck,
           Cmd!Credentials, Cmd!Endpoints, Cmd!Account, Cmd!NewOauth,
           Cmd!Flow, Cmd!Output
  <2>2. CASE Cmd!Account \/ Cmd!Validate \/ Cmd!ClientCheck
             \/ Cmd!Credentials \/ Cmd!Endpoints \/ Cmd!NewOauth
    <3>1. ~printed /\ UNCHANGED printed /\ pc' # "output"
      BY <2>2 DEF FInv, Cmd!Account, Cmd!Validate, Cmd!ClientCheck,
             Cmd!Credentials, Cmd!Endpoints, Cmd!NewOauth, Cmd!Fail, Cmd!Panic
    <3>2. QED
      BY <1>1, <3>1 DEF FInv
  <2>3. CASE Cmd!Flow
    <3>1. pc = "flow" /\ UNCHANGED <<printed, do2lo>>
      BY <2>3 DEF Cmd!Flow
    <3>2. ~printed
      BY <3>1 DEF FInv
    <3>3. QED
      BY <1>1, <2>1, <3>1, <3>2 DEF FInv, Loopback
  <2>4. CASE Cmd!Output
    <3>1. pc = "output" /\ pc' = "exited" /\ UNCHANGED do2lo
      BY <2>4 DEF Cmd!Output
    <3>2. QED
      BY <1>1, <2>1, <3>1 DEF FInv, Loopback
  <2>5. QED
    BY <2>1, <2>2, <2>3, <2>4 DEF Cmd!Next
<1>3. CASE LoopStep
  <2>1. pc = "flow" /\ ~printed /\ UNCHANGED <<pc, printed>>
    BY <1>3 DEF LoopStep, cvars, FInv
  <2>2. QED
    BY <1>1, <2>1 DEF FInv
<1>4. CASE LoopReturns
  BY <1>1, <1>4 DEF LoopReturns, lvars, FInv, Loopback, Cmd!Fail
<1>5. CASE UNCHANGED vars
  BY <1>1, <1>5 DEF vars, cvars, lvars, FInv, Loopback
<1>6. QED
  BY <1>2, <1>3, <1>4, <1>5 DEF Next

(* A token oauthCmd prints after DoLoopbackAuthorization came through       *)
(* o.tokCh from a callback that carried o.state and, in the code flow,     *)
(* passed the tok.Err check of ServeHTTP; errors and timeouts are never    *)
(* printed, for every command line and any number of callbacks.           *)
THEOREM LoopbackPrintsAuthenticTokenHolds == Spec => []LoopbackPrintsAuthenticToken
<1>1. FInv => LoopbackPrintsAuthenticToken
  BY DEF FInv, LP!IInv, LP!ResultInv, LoopbackPrintsAuthenticToken,
     Loop!Authentic, LP!Authentic
<1>2. QED
  BY <1>1, FInvInit, FInvNext, PTL DEF Spec

-----------------------------------------------------------------------------
(* Inside oauthCmd, for every command line, what DoLoopbackAuthorization  *)
(* returns is still the single-use result slot of OneShotResult: it       *)
(* returns at most once, a token only from an authentic callback, and the  *)
(* value oauthCmd goes on to print or return never changes under it.       *)
THEOREM FlowRefinesOneShot == Spec => LP!OS!SafeSpec
<1>1. Init => LP!OS!OInit
  BY SameInit DEF Init, LP!Init, LP!OS!OInit, LP!OS!Empty, LP!Eligible,
     LP!Returned
<1>2. FInv /\ [Next]_vars => [LP!OS!ONext]_(LP!OS!avars)
  <2> SUFFICES ASSUME FInv, [Next]_vars PROVE [LP!OS!ONext]_(LP!OS!avars)
    OBVIOUS
  <2>1. [LP!Next]_(LP!vars)
    BY LoopSteps, SameNext DEF Loop!vars, LP!vars
  <2>2. QED
    BY <2>1, LP!RefineStep, LPAssumption DEF FInv
<1>3. QED
  BY <1>1, <1>2, FInvInit, FInvNext, PTL DEF Spec, LP!OS!SafeSpec

=============================================================================
