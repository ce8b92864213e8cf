------------------------- MODULE OAuthCommandFlow -------------------------
(***************************************************************************)
(* oauthCmd composed with the loopback flow it runs.  OAuthCommand takes   *)
(* every step of oauthCmd except the one the strategy switch (lines        *)
(* 344-356) hands to DoLoopbackAuthorization: there, OAuthLoopback runs,   *)
(* with its o.implicit taken from the command line, and oauthCmd resumes   *)
(* with what the select returned (lines 358-360).  The other strategies    *)
(* keep their abstract outcomes from OAuthCommand.                         *)
(***************************************************************************)
EXTENDS Naturals, FiniteSets

CONSTANTS
    Req, NoReq,   \* as in OAuthLoopback
    Flags         \* the command lines explored

VARIABLES
    flags, pc, provider, clientID, authzEp, tokenEp, do2lo, tok, exit,
    printed,                                         \* oauthCmd
    listen, lpc, listener, redirectSet, published, result, hpc, req, exch,
    script                                           \* DoLoopbackAuthorization

cvars == <<flags, pc, provider, clientID, authzEp, tokenEp, do2lo, tok,
           exit, printed>>
lvars == <<listen, lpc, listener, redirectSet, published, result, hpc, req,
           exch, script>>
vars == <<cvars, lvars>>

Cmd == INSTANCE OAuthCommand
Loop == INSTANCE OAuthLoopback WITH pc <- lpc, implicit <- flags.implicit

ASSUME ReqAssumption == IsFiniteSet(Req) /\ NoReq \notin Req

ASSUME FlagsAssumption == Flags \subseteq Cmd!FlagRecs

-----------------------------------------------------------------------------
(* The switch's default case: neither a service account nor --console.    *)
Loopback == ~do2lo /\ ~flags.console

(* Seeded fault: oauthCmd without `if err != nil { return err }` at line   *)
(* 358, printing whatever the select returned.                             *)
LoopReturnsNoErrCheck ==
    /\ pc = "flow" /\ Loopback /\ lpc = "done"
    /\ tok' = "valid" /\ pc' = "output"
    /\ UNCHANGED <<flags, provider, clientID, authzEp, tokenEp, do2lo, exit,
                   printed>>
    /\ UNCHANGED lvars

Init ==
    /\ Cmd!Init
    /\ flags \in Flags
    /\ Loop!Init

(* A step of oauthCmd outside the loopback strategy.                       *)
CmdStep ==
    /\ ~(pc = "flow" /\ Loopback)
    /\ Cmd!Next
    /\ UNCHANGED lvars

(* A step of DoLoopbackAuthorization or of a handler, while oauthCmd waits *)
(* in the call.                                                            *)
LoopStep ==
    /\ pc = "flow" /\ Loopback
    /\ UNCHANGED cvars
    /\ Loop!Next

(* DoLoopbackAuthorization has returned (its deferred Close done): an error *)
(* is returned by oauthCmd, a token goes on to be printed.                  *)
LoopReturns ==
    /\ pc = "flow" /\ Loopback /\ lpc = "done"
    /\ IF result.kind = "token"
       THEN tok' = "valid" /\ pc' = "output" /\ UNCHANGED exit
       ELSE Cmd!Fail /\ UNCHANGED tok
    /\ UNCHANGED <<flags, provider, clientID, authzEp, tokenEp, do2lo, printed>>
    /\ UNCHANGED lvars

Next == CmdStep \/ LoopStep \/ LoopReturns

Spec == Init /\ [][Next]_vars

-----------------------------------------------------------------------------
TypeOK == Cmd!TypeOK /\ Loop!TypeOK

(* A token oauthCmd prints after the loopback strategy is the one a        *)
(* callback delivered through o.tokCh, and that callback was authentic: it *)
(* carried o.state and, in the code flow, its code was exchanged without   *)
(* provider error fields; in the implicit flow it was the urlhash request  *)
(* with an access token.  Errors and the timeout are never printed.         *)
LoopbackPrintsAuthenticToken ==
    (printed /\ Loopback) =>
        /\ result.kind = "token"
        /\ result.from \in Req
        /\ Loop!Authentic(result.from)

=============================================================================
