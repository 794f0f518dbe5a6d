------------------------------ MODULE Provision ------------------------------
(***************************************************************************)
(* How a token gets its keys: the init container                           *)
(* (docker/softhsm-init/init-token.sh), the provision binary that it runs  *)
(* (proxy/src/pkcs11/provision.rs), and the check of the result by         *)
(* token-check (proxy/src/bin/token-check.rs), the proxy's health check.   *)
(*                                                                         *)
(* The container is started again on every `docker compose up`, may be     *)
(* killed anywhere, and is the only writer of the token directory.  What   *)
(* it creates belongs to root until its chown.  token-check is a process   *)
(* of its own, without root, and reads while the container may be writing. *)
(*                                                                         *)
(* Several tokens may carry the label, and load_module opens any of them:  *)
(* PKCS#11 does not order the slots, and a slot whose information cannot   *)
(* be read is passed over.  The module follows one token, whichever it is; *)
(* who opens another one leaves this one alone and learns nothing of it.   *)
(***************************************************************************)
EXTENDS Naturals, Sequences, FiniteSets

CONSTANTS
    DemoKeys,   \* the keys in the order of ensure_demo_keys, each named after its type
    ExpectedKeypairs,  \* EXPECTED_KEYPAIRS of token-check, in order
    ExpectedSecrets,   \* EXPECTED_SECRET_KEYS
    MaxTokens,  \* bound: how many tokens there are
    MaxRuns,    \* bound: how often the init container is started
    MaxKills    \* bound: how often it is killed

VARIABLES
    tokens,     \* how many tokens carry the label
    blind,      \* auxiliary: this run went on without having seen them all
    objects,    \* the objects on the token that is followed
    rootOwned,  \* those that were created since the last chown
    step,       \* where the script is
    runs,       \* how often it was started
    kills,      \* how often it was killed
    torn,       \* auxiliary: it was killed while it generated a key pair
    completed,  \* the container's last run ended with exit status 0
    checking,   \* the key pair that token-check is at, or 0
    failed,     \* its `failures` are not empty
    healthy     \* its last finished run has passed on this token

initVars  == <<tokens, blind, objects, rootOwned, step, runs, kills, torn, completed>>
checkVars == <<checking, failed, healthy>>
provVars  == <<initVars, checkVars>>

KeyTypesOnToken == {"EC", "RSA", "AES"}

ASSUME KeysTyped ==
    /\ DemoKeys \in Seq(KeyTypesOnToken) \ {<<>>}
    /\ ExpectedKeypairs \in Seq({"EC", "RSA"}) /\ ExpectedSecrets \subseteq {"AES"}
ASSUME BoundsTyped == MaxTokens \in Nat /\ MaxRuns \in Nat /\ MaxKills \in Nat

Labels   == {DemoKeys[n] : n \in DOMAIN DemoKeys}
KeyPairs == Labels \ {"AES"}

Object(class, label, id) == [class |-> class, label |-> label, id |-> id]
Private(label, id) == Object("Private", label, id)
Public(label, id)  == Object("Public", label, id)

\* What C_GenerateKeyPair or C_GenerateKey creates.
Generated(label, id) ==
    IF label = "AES" THEN {Object("Secret", label, id)}
    ELSE {Private(label, id), Public(label, id)}

\* find_object takes the first of the objects found; PKCS#11 does not order them.
Found(known, class, label) == {o \in known : o.class = class /\ o.label = label}

Unused(label) == 1 + Cardinality({o.id : o \in {p \in objects : p.label = label}})

-----------------------------------------------------------------------------
ProvInit ==
    /\ tokens \in 0..MaxTokens     \* what an earlier life of the volume left
    /\ blind = FALSE
    /\ objects = {} /\ rootOwned = {}
    /\ step = "down" /\ runs = 0 /\ kills = 0
    /\ torn = FALSE /\ completed = FALSE
    /\ checking = 0 /\ failed = FALSE /\ healthy = FALSE

(* init-token.sh. *)

Up ==
    /\ step = "down" /\ runs < MaxRuns
    /\ step' = "labels"
    /\ runs' = runs + 1
    /\ completed' = FALSE /\ blind' = FALSE
    /\ UNCHANGED <<tokens, objects, rootOwned, kills, torn, checkVars>>

\* 1. The token itself.  A failure of `softhsm2-util --show-slots` is lost in the pipe
\* and in `|| true`: tokens that it did not list are not counted.  `--init-token`
\* always takes a free slot, and its failure ends the script (`set -e`).
Initialize ==
    /\ step = "labels"
    /\ \E existing \in 0..tokens :
          /\ \/ existing > 1 /\ step' = "down" /\ UNCHANGED tokens
             \/ existing = 1 /\ step' = "open" /\ UNCHANGED tokens
             \/ /\ existing = 0 /\ tokens < MaxTokens
                /\ step' = "open" /\ tokens' = tokens + 1
             \/ existing = 0 /\ step' = "down" /\ UNCHANGED tokens
          /\ blind' = (step' = "open" /\ existing # tokens)
    /\ UNCHANGED <<objects, rootOwned, runs, kills, torn, completed, checkVars>>

\* 2. The demo keys: `provision | sed`.  The status of a pipe is that of sed, so a
\* provision that fails, or has opened another token, is followed by the chown.
OpenToken ==
    /\ step = "open"
    /\ step' \in {DemoKeys[1], "chown"}
    /\ UNCHANGED <<tokens, blind, objects, rootOwned, runs, kills, torn, completed, checkVars>>

\* What follows a key: the next one, or the end of provision.
After(label) ==
    LET i == CHOOSE n \in DOMAIN DemoKeys : DemoKeys[n] = label
    IN  IF i = Len(DemoKeys) THEN "chown" ELSE DemoKeys[i + 1]

\* The object by which ensure_* knows its key.
Marker(label) == IF label \in KeyPairs THEN "Private" ELSE "Secret"

\* Mutant: keys are generated without a look at what is there.
Ensure_Always(label) ==
    /\ step = label
    /\ objects' = objects \cup Generated(label, Unused(label))
    /\ rootOwned' = rootOwned \cup (objects' \ objects)
    /\ step' = After(label)
    /\ UNCHANGED <<tokens, blind, runs, kills, torn, completed, checkVars>>

\* ensure_ec_key, ensure_rsa_key, ensure_aes_key; an error of a call ends provision.
Ensure(label) ==
    /\ step = label
    /\ \/ /\ Found(objects, Marker(label), label) # {}
          /\ step' = After(label)
          /\ UNCHANGED objects
       \/ /\ Found(objects, Marker(label), label) = {}
          /\ objects' = objects \cup Generated(label, Unused(label))
          /\ step' = After(label)
       \/ /\ step' = "chown"
          /\ UNCHANGED objects
    /\ rootOwned' = rootOwned \cup (objects' \ objects)
    /\ UNCHANGED <<tokens, blind, runs, kills, torn, completed, checkVars>>

\* Mutant: an error of chown is passed over.
Chown_Ignored ==
    /\ step = "chown"
    /\ \/ \E o \in rootOwned : rootOwned' = rootOwned \ {o} /\ UNCHANGED step
       \/ step' = "chmod" /\ UNCHANGED rootOwned
    /\ UNCHANGED <<tokens, blind, objects, runs, kills, torn, completed, checkVars>>

\* `chown -R` hands the token directory to the proxy's user, one file after the other.
\* An error ends the script.
Chown ==
    /\ step = "chown"
    /\ \/ \E o \in rootOwned : rootOwned' = rootOwned \ {o} /\ UNCHANGED step
       \/ rootOwned = {} /\ step' = "chmod" /\ UNCHANGED rootOwned
       \/ step' = "down" /\ UNCHANGED rootOwned
    /\ UNCHANGED <<tokens, blind, objects, runs, kills, torn, completed, checkVars>>

\* `chmod -R` is for the group, while the owner can read already.  The script ends.
Chmod ==
    /\ step = "chmod"
    /\ step' = "down"
    /\ completed' \in BOOLEAN
    /\ UNCHANGED <<tokens, blind, objects, rootOwned, runs, kills, torn, checkVars>>

\* The container is killed.  A key pair is two objects, and one of them may be there.
Kill ==
    /\ step # "down" /\ kills < MaxKills
    /\ step' = "down"
    /\ kills' = kills + 1
    /\ \/ UNCHANGED <<objects, torn>>
       \/ /\ step \in KeyPairs /\ Found(objects, "Private", step) = {}
          /\ \E half \in Generated(step, Unused(step)) : objects' = objects \cup {half}
          /\ torn' = TRUE
    /\ rootOwned' = rootOwned \cup (objects' \ objects)
    /\ UNCHANGED <<tokens, blind, runs, completed, checkVars>>

-----------------------------------------------------------------------------
(* token-check. *)

\* What a process without root sees of the token.
Visible == objects \ rootOwned

\* The token has to be there.  A process that cannot open it ends with an error; one
\* that opens another token says nothing of this one.
CheckStart ==
    /\ checking = 0
    /\ \/ tokens > 0 /\ checking' = 1 /\ UNCHANGED healthy
       \/ checking' = 0 /\ healthy' = FALSE
    /\ failed' = FALSE
    /\ UNCHANGED initVars

\* Mutant: a private key that signs is enough.
PairUsable_PrivateOnly(label) == Found(Visible, "Private", label) # {}

\* check_keypair: the private and the public object that are found first, a signature
\* by the one, checked with the other.  provision sets the attributes that it reads.
PairUsable(label) ==
    \E private \in Found(Visible, "Private", label), public \in Found(Visible, "Public", label) :
        private.id = public.id

CheckKeypair ==
    /\ checking \in DOMAIN ExpectedKeypairs
    /\ \/ PairUsable(ExpectedKeypairs[checking]) /\ UNCHANGED failed
       \/ failed' = TRUE     \* nothing is found, the two do not match, or a call fails
    /\ checking' = checking + 1
    /\ UNCHANGED <<initVars, healthy>>

SecretsThere == \A label \in ExpectedSecrets : Found(Visible, "Secret", label) # {}

\* The secret keys, write_probe (a session object, which leaves the token as it is),
\* and the verdict.
CheckRest ==
    /\ checking = Len(ExpectedKeypairs) + 1
    /\ \E probed \in BOOLEAN :
          healthy' = (~failed /\ SecretsThere /\ probed)
    /\ checking' = 0
    /\ failed' = FALSE
    /\ UNCHANGED initVars

ProvNext ==
    \/ Up \/ Initialize \/ OpenToken \/ Chown \/ Chmod \/ Kill
    \/ \E label \in Labels : Ensure(label)
    \/ CheckStart \/ CheckKeypair \/ CheckRest

-----------------------------------------------------------------------------
(* Properties. *)

Duplicated == \E o, p \in objects : o # p /\ o.class = p.class /\ o.label = p.label

(* "Provision every demo key. Idempotent.": however often the container is run,   *)
(* killed or fails, no key is there twice and no pair is incomplete, unless it    *)
(* was killed inside C_GenerateKeyPair.                                           *)
OneOfEach ==
    torn \/ /\ ~Duplicated
            /\ \A o \in objects : Generated(o.label, o.id) \subseteq objects

(* What is checked stays usable: once token-check has passed, every demo key is   *)
(* complete and readable without root, whatever the exit status of provision was  *)
(* and however many runs of the container follow or are killed.                   *)
HealthyMeansKeys ==
    healthy => \A label \in ExpectedSecrets \cup {ExpectedKeypairs[n] :
                                                  n \in DOMAIN ExpectedKeypairs} :
                  \E o \in Visible : o.label = label /\ Generated(label, o.id) \subseteq Visible

(* The proxy is started only after the container has ended with status 0: there   *)
(* is a token then, everything on it is the proxy's, leftovers of killed and of   *)
(* failed runs as well, and it is the only one with the label, unless this very   *)
(* run failed to list the tokens.                                                 *)
CompletedMeansReadable ==
    completed => tokens > 0 /\ rootOwned = {} /\ (tokens = 1 \/ blind)
==============================================================================
