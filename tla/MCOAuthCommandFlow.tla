------------------------ MODULE MCOAuthCommandFlow ------------------------
(* Instance of OAuthCommandFlow for TLC: two request slots, and the        *)
(* command lines that tell the loopback flow's branches apart: code or     *)
(* implicit flow (with what --implicit requires), --console or not, no     *)
(* account file or an installed-app or service-account one.               *)
EXTENDS OAuthCommandFlow, TLC

CONSTANTS r1, r2

MCReq == {r1, r2}

MCFlags ==
    {f \in Cmd!FlagRecs :
        /\ f.provider = "google" /\ f.listen = "ok"
        /\ ~f.authzEp /\ ~f.tokenEp /\ ~f.jwt
        /\ f.insecure = f.implicit /\ f.clientID = f.implicit
        /\ f.account \in {"none", "installed", "service"}}
=============================================================================
