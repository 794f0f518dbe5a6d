---------------------------- MODULE SingleSession ----------------------------
(***************************************************************************)
(* The proxy in single mode (proxy/src/grpc/service.rs, started by         *)
(* main.rs): one session behind a tokio Mutex, which is fair.  A handler   *)
(* checks its request, waits for the lock, and makes its token calls with  *)
(* the lock held; it is dropped only where it awaits, in the queue.        *)
(*                                                                         *)
(* The token is the one that Provision follows.  Any call of it may fail,  *)
(* and go on failing: a session that is lost is never opened again.        *)
(***************************************************************************)
EXTENDS Crypto, Provision

CONSTANTS
    Tasks,      \* concurrent requests
    Requests,   \* bound: the requests that are made
    NoRequest

VARIABLES
    proxy,      \* the process
    queue,      \* the handlers that wait for the lock, in order
    held,       \* who has the lock, with the object it has found: a set of at most one
    req,        \* the request that a handler serves
    code,       \* the status it answers; a signature that does not verify is "Invalid"
    issued      \* the last signature that a caller was given, a set of at most one

servVars == <<queue, held, req, code, issued>>
singleVars == <<proxy, servVars>>

\* Requests.  `input` and `signature` are sets: empty when missing, or no signature.
AllRequests ==
    [op : {"sign"}, label : Labels, mechanism : Mechanisms,
     input : {{}} \cup {{i} : i \in Inputs}]
    \cup [op : {"verify"}, label : Labels, mechanism : Mechanisms,
          input : {{}} \cup {{i} : i \in Inputs}, signature : {{}}]
    \cup [op : {"encrypt"}, label : Labels, gcm : BOOLEAN, fits : BOOLEAN]
    \cup [op : {"decrypt"}, label : Labels, gcm : BOOLEAN, iv : BOOLEAN,
          fits : BOOLEAN, authentic : BOOLEAN]
    \cup [op : {"get_public_key"}, label : Labels]

ASSUME RequestsTyped == Requests \subseteq AllRequests /\ NoRequest \notin Requests

\* extract_input, then prepare.
Prepared(r) == UNION {Prepare(r.mechanism, i) : i \in r.input}

Malformed(r) ==
    CASE r.op \in {"sign", "verify"} -> Prepared(r) = {}
      [] r.op = "encrypt"            -> ~r.gcm
      [] r.op = "decrypt"            -> ~r.gcm \/ ~r.iv
      [] r.op = "get_public_key"     -> FALSE

ClassOf(op) ==
    CASE op = "sign" -> "Private"
      [] op \in {"verify", "get_public_key"} -> "Public"
      [] op \in {"encrypt", "decrypt"} -> "Secret"

KeyOf(object) == [type |-> object.label, id |-> object.id]

SingleInit ==
    /\ proxy = "down"
    /\ queue = <<>> /\ held = {}
    /\ req = [t \in Tasks |-> NoRequest]
    /\ code = [t \in Tasks |-> "none"]
    /\ issued = {}

-----------------------------------------------------------------------------
(* The process. *)

\* Compose starts the proxy when the init container has completed, and main opens
\* the token.
Connect ==
    /\ proxy = "down" /\ completed
    /\ proxy' = "serving"
    /\ UNCHANGED <<provVars, servVars>>

\* shutdown_signal.
Signal ==
    /\ proxy = "serving"
    /\ proxy' = "stopping"
    /\ UNCHANGED <<provVars, servVars>>

\* serve_with_shutdown returns when the handlers are done, and so does main.
Exit ==
    /\ proxy = "stopping" /\ \A t \in Tasks : req[t] = NoRequest /\ code[t] = "none"
    /\ proxy' = "down"
    /\ UNCHANGED <<provVars, servVars>>

-----------------------------------------------------------------------------
(* A handler. *)

Answer(t, c) ==
    /\ code' = [code EXCEPT ![t] = c]
    /\ req' = [req EXCEPT ![t] = NoRequest]

\* Up to the lock.  A caller verifies the signature it was given, or something else.
Call(t, r) ==
    /\ proxy = "serving" /\ req[t] = NoRequest /\ code[t] = "none"
    /\ \/ /\ Malformed(r)
          /\ Answer(t, "InvalidArgument")
          /\ UNCHANGED queue
       \/ /\ ~Malformed(r)
          /\ \/ r.op # "verify" /\ req' = [req EXCEPT ![t] = r]
             \/ /\ r.op = "verify"
                /\ \E s \in {issued, {}} :
                      req' = [req EXCEPT ![t] = [r EXCEPT !.signature = s]]
          /\ queue' = Append(queue, t)
          /\ UNCHANGED code
    /\ UNCHANGED <<provVars, proxy, held, issued>>

\* Mutant: a missing key is looked up until it is there.
Find_Retries(t) ==
    /\ held = {} /\ queue # <<>> /\ Head(queue) = t
    /\ queue' = Tail(queue)
    /\ \E o \in Found(Visible, ClassOf(req[t].op), req[t].label) :
          held' = {[task |-> t, object |-> o]}
    /\ UNCHANGED <<provVars, proxy, req, code, issued>>

\* The lock, and require_object.  The lock is released with the handler's answer.
Find(t) ==
    /\ held = {} /\ queue # <<>> /\ Head(queue) = t
    /\ queue' = Tail(queue)
    /\ LET found == Found(Visible, ClassOf(req[t].op), req[t].label) IN
       \/ /\ \E o \in found : held' = {[task |-> t, object |-> o]}
          /\ UNCHANGED <<req, code>>
       \/ /\ found = {}
          /\ Answer(t, "NotFound")
          /\ UNCHANGED held
       \/ /\ Answer(t, "Internal")
          /\ UNCHANGED held
    /\ UNCHANGED <<provVars, proxy, issued>>

\* What the token answers to the one call of each operation.
Signed(r, o) == UNION {TokenSign(KeyOf(o), op) : op \in Prepared(r)}

NoSignature == [scheme |-> "none"]

\* What comes as the signature, be it one or not.
Sent(r) == IF r.signature = {} THEN {NoSignature} ELSE r.signature

\* Mutant: the payload is checked as it came in.
Verified_Unprepared(r, o) ==
    UNION {UNION {TokenVerify(KeyOf(o), [op EXCEPT !.payload = i.bytes], s)
                     : s \in Sent(r)} : op \in Prepared(r), i \in r.input}

Verified(r, o) ==
    UNION {UNION {TokenVerify(KeyOf(o), op, s) : s \in Sent(r)} : op \in Prepared(r)}

SignOutcome(r, o) == IF Signed(r, o) = {} THEN "Internal" ELSE "Ok"

\* A signature that does not verify is an answer; an error of the call is not.
VerifyOutcome(r, o) ==
    CASE Verified(r, o) = {}      -> "Internal"
      [] Verified(r, o) = {TRUE}  -> "Ok"
      [] Verified(r, o) = {FALSE} -> "Invalid"

\* GcmParams::new refuses a length that the token's interface cannot carry.
EncryptOutcome(r) == IF r.fits THEN "Ok" ELSE "InvalidArgument"

\* So it does here; and EncryptedDataInvalid is the caller's fault.
DecryptOutcome(r) == IF r.fits /\ r.authentic THEN "Ok" ELSE "InvalidArgument"

GetPublicKeyOutcome(o) == IF SpkiDer(o.label) = {} THEN "Internal" ELSE "Ok"

Outcome(r, o) ==
    CASE r.op = "sign"           -> SignOutcome(r, o)
      [] r.op = "verify"         -> VerifyOutcome(r, o)
      [] r.op = "encrypt"        -> EncryptOutcome(r)
      [] r.op = "decrypt"        -> DecryptOutcome(r)
      [] r.op = "get_public_key" -> GetPublicKeyOutcome(o)

\* What the caller of a successful sign has from now on.
Given(r, o) == IF r.op = "sign" /\ Signed(r, o) # {} THEN Signed(r, o) ELSE issued

\* The token call, and the end of the handler, which releases the lock.
Use(t) ==
    \E h \in held :
        /\ h.task = t
        /\ \/ /\ Answer(t, Outcome(req[t], h.object))
              /\ issued' = Given(req[t], h.object)
           \/ /\ Answer(t, "Internal")
              /\ UNCHANGED issued
        /\ held' = {}
        /\ UNCHANGED <<provVars, proxy, queue>>

\* The response is sent.
Return(t) ==
    /\ code[t] # "none"
    /\ code' = [code EXCEPT ![t] = "none"]
    /\ UNCHANGED <<provVars, proxy, queue, held, req, issued>>

\* The client goes away, or the request times out: the handler leaves the queue.
Drop(t) ==
    /\ \E n \in DOMAIN queue :
          /\ queue[n] = t
          /\ queue' = SubSeq(queue, 1, n - 1) \o SubSeq(queue, n + 1, Len(queue))
    /\ req' = [req EXCEPT ![t] = NoRequest]
    /\ UNCHANGED <<provVars, proxy, held, code, issued>>

SingleNext ==
    \/ Connect \/ Signal \/ Exit
    \/ \E t \in Tasks : \/ \E r \in Requests : Call(t, r)
                        \/ Find(t) \/ Use(t) \/ Return(t) \/ Drop(t)
==============================================================================
