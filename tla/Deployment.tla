----------------------------- MODULE Deployment -----------------------------
(***************************************************************************)
(* A token and the program that uses it: the init container and the health *)
(* check beside the proxy in single mode, or hsm-ceiling.                  *)
(***************************************************************************)
EXTENDS SingleSession, Ceiling

VARIABLES
    program     \* which of the two is used

deployVars == <<provVars, singleVars, ceilingVars, program>>

DeployInit ==
    /\ program \in {"proxy", "ceiling"}
    /\ ProvInit /\ SingleInit /\ CeilingInit

DeployNext ==
    \/ ProvNext /\ UNCHANGED <<singleVars, ceilingVars, program>>
    \/ program = "proxy" /\ SingleNext /\ UNCHANGED <<ceilingVars, program>>
    \/ program = "ceiling" /\ CeilingNext /\ UNCHANGED <<singleVars, program>>

\* The handlers run, and every call of the token returns.
DeployFairness ==
    /\ CeilingFairness
    /\ \A t \in Tasks : WF_<<provVars, singleVars>>(Find(t) \/ Use(t))

DeploySpec == DeployInit /\ [][DeployNext]_deployVars /\ DeployFairness

-----------------------------------------------------------------------------
(* Properties. *)

(* Who holds a signature may take it to either backend: verify_public answers     *)
(* what the token would, and yes exactly if key, mechanism and content are those  *)
(* that were signed, whether either side was given the message or its digest.     *)
(* The requests that prepare refuses are those that verify_public refuses, and    *)
(* verification_digest undoes what prepare chose.                                 *)
BackendsAgree == issued # {} => Agreement

(* "Accept both rather than depending on the module" (crypto.rs): once a public   *)
(* key can be read, ec_spki makes the key of it whether the module returns the    *)
(* point bare or as an OCTET STRING, which begin with the same byte, also when    *)
(* the coordinates look like a length.  A value that was cut short, wherever that *)
(* was, is an error; an OCTET STRING that has 65 bytes left is taken for a bare   *)
(* point by its length, and refused because its bytes are not one.                *)
PointFound == (\E o \in Visible : o.class = "Public") => EveryPoint

Answered(t) == code[t] = "none" /\ code'[t] # "none" /\ req[t] # NoRequest

\* The signature that comes with the request is one that verify_public accepts.
Genuine(r) ==
    \E s \in r.signature, i \in r.input :
        s.key.type = r.label /\ TRUE \in VerifyPublic(s.key, r.mechanism, i, s)

(* A health check that has passed on the proxy's token is a promise to the        *)
(* callers: from then on no demo key is missing, and a signature that the proxy   *)
(* has given, and that the other backend accepts, verifies on the token, unless a *)
(* killed run of the init container has left a second public key.                 *)
HealthyAnswers ==
    [][\A t \in Tasks : Answered(t) /\ healthy =>
          /\ code'[t] = "NotFound" =>
                \A o \in Generated(req[t].label, 1) : o.class # ClassOf(req[t].op)
          /\ code'[t] = "Invalid" => Duplicated \/ ~Genuine(req[t])]_deployVars

(* Every request is answered: one that waits for the session gets its turn,       *)
(* whatever becomes of the requests before it, of the session and of the token.   *)
CallsReturn == \A t \in Tasks : req[t] # NoRequest ~> req[t] = NoRequest
=============================================================================
