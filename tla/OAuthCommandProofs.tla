------------------------- MODULE OAuthCommandProofs -------------------------
(***************************************************************************)
(* Proofs about OAuthCommand for every command line: the type invariant,  *)
(* and that the built-in Google client credentials only ever go to        *)
(* Google's endpoints (DefaultClientOnlyGoogle).                           *)
(***************************************************************************)
EXTENDS OAuthCommand, TLAPS

(* Every step of oauthCmd keeps the variables in their types.             *)
LEMMA CmdTypeStep == TypeOK /\ [Next]_vars => TypeOK'
<1> SUFFICES ASSUME TypeOK, [Next]_vars PROVE TypeOK'
  OBVIOUS
<1> USE DEF TypeOK, Fail, Panic, PCs, Exits, Sources, Tokens
<1>1. CASE Validate
  BY <1>1 DEF Validate
<1>2. CASE ClientCheck
  BY <1>2 DEF ClientCheck
<1>3. CASE Credentials
  BY <1>3 DEF Credentials
<1>4. CASE Endpoints
  BY <1>4 DEF Endpoints
<1>5. CASE Account
  BY <1>5 DEF Account
<1>6. CASE NewOauth
  BY <1>6 DEF NewOauth
<1>7. CASE Flow
  BY <1>7 DEF Flow
<1>8. CASE Output
  BY <1>8 DEF Output
<1>9. CASE UNCHANGED vars
  BY <1>9 DEF vars
<1>10. QED
  BY <1>1, <1>2, <1>3, <1>4, <1>5, <1>6, <1>7, <1>8, <1>9 DEF Next

(* The type invariant of OAuthCommand holds for every command line.        *)
THEOREM CmdTypeCorrect == Spec => []TypeOK
<1>1. Init => TypeOK
  BY DEF Init, TypeOK, FlagRecs, PCs, Sources, Tokens, Exits
<1>2. QED
  BY <1>1, CmdTypeStep, PTL DEF Spec

-----------------------------------------------------------------------------
(* The inductive strengthening.  Between ClientCheck and the account file, *)
(* a run without --client-id has passed line 265 only as google without   *)
(* --authorization-endpoint; the default client is chosen only then and    *)
(* survives only while nothing replaces provider; and a google provider   *)
(* that reaches the strategy got the fixed Google endpoints in newOauth.  *)
CInv ==
    /\ TypeOK
    /\ (pc \in {"credentials", "endpoints", "account"} /\ ~flags.clientID)
          => provider = "google" /\ ~flags.authzEp
    /\ clientID = "default"
          => provider = "google" /\ ~flags.clientID /\ ~flags.authzEp
    /\ (pc \in {"flow", "output"} /\ provider = "google")
          => authzEp = "google" /\ tokenEp = "google"

LEMMA CInvInit == Init => CInv
BY DEF Init, CInv, TypeOK, FlagRecs, PCs, Sources, Tokens, Exits

LEMMA CInvNext == CInv /\ [Next]_vars => CInv'
<1> SUFFICES ASSUME CInv, [Next]_vars PROVE CInv'
  OBVIOUS
<1>0. TypeOK'
  BY CmdTypeStep DEF CInv
<1> USE <1>0 DEF CInv, Fail, Panic
<1>1. CASE Validate
  BY <1>1 DEF Validate
<1>2. CASE ClientCheck
  BY <1>2 DEF ClientCheck
<1>3. CASE Credentials
  BY <1>3 DEF Credentials
<1>4. CASE Endpoints
  BY <1>4 DEF Endpoints
<1>5. CASE Account
  BY <1>5 DEF Account
<1>6. CASE NewOauth
  BY <1>6 DEF NewOauth
<1>7. CASE Flow
  BY <1>7 DEF Flow
<1>8. CASE Output
  BY <1>8 DEF Output
<1>9. CASE UNCHANGED vars
  BY <1>9 DEF vars
<1>10. QED
  BY <1>1, <1>2, <1>3, <1>4, <1>5, <1>6, <1>7, <1>8, <1>9 DEF Next

(* Whatever the combination of --provider, --client-id, endpoint flags and *)
(* --account, a strategy that runs with the built-in Google client id and  *)
(* secret (oauthCmd lines 265-284) sends them to Google's fixed endpoints. *)
THEOREM DefaultClientOnlyGoogleHolds == Spec => []DefaultClientOnlyGoogle
<1>1. CInv => DefaultClientOnlyGoogle
  BY DEF CInv, DefaultClientOnlyGoogle
<1>2. QED
  BY <1>1, CInvInit, CInvNext, PTL DEF Spec

=============================================================================
