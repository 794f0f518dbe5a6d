-------------------------- MODULE Deployment_proofs --------------------------
(***************************************************************************)
(* Proofs about the token: what the init container leaves on it, what a    *)
(* health check that has passed means, for the token and for the callers   *)
(* of the proxy, that the two ways to verify agree, and that the point of  *)
(* a public key is found in each form.                                     *)
(***************************************************************************)
EXTENDS Deployment, TLAPS

\* Every object is one that was generated.
Made == \A o \in objects : o \in Generated(o.label, o.id)

\* Where the script is, and what it knows there.
Scripted ==
    /\ tokens \in Nat
    /\ step \in {"down", "labels", "open", "chown", "chmod"} \cup Labels
    /\ step \in {"open", "chown", "chmod"} \cup Labels \/ completed =>
          tokens > 0 /\ (tokens = 1 \/ blind)
    /\ step = "chmod" \/ completed => rootOwned = {}
    /\ completed => step = "down"

Ready(label) ==
    \E o \in Visible : o.label = label /\ Generated(label, o.id) \subseteq Visible

\* What token-check has found so far stays true while it goes on.
Checked ==
    /\ checking \in Nat
    /\ ~failed => \A n \in DOMAIN ExpectedKeypairs :
                     n < checking => Ready(ExpectedKeypairs[n])

IInv == Made /\ Scripted /\ OneOfEach /\ Checked /\ HealthyMeansKeys

-----------------------------------------------------------------------------
(* Facts about the constants and the operators. *)

LEMMA LabelsAreTypes == Labels \subseteq {"EC", "RSA", "AES"} /\ DemoKeys[1] \in Labels
<1>1. DemoKeys \in Seq(KeyTypesOnToken) /\ DemoKeys # <<>>
  BY KeysTyped
<1>2. Len(DemoKeys) \in Nat /\ DOMAIN DemoKeys = 1..Len(DemoKeys) /\ Len(DemoKeys) # 0
  BY <1>1
<1>3. 1 \in DOMAIN DemoKeys
  BY <1>2
<1> QED
  BY <1>1, <1>3 DEF Labels, KeyTypesOnToken

(* The step after a key is another key or the chown. *)
LEMMA AfterIsStep ==
    ASSUME NEW label \in Labels
    PROVE  After(label) \in Labels \cup {"chown"}
<1>1. DemoKeys \in Seq(KeyTypesOnToken)
  BY KeysTyped
<1>2. Len(DemoKeys) \in Nat /\ DOMAIN DemoKeys = 1..Len(DemoKeys)
  BY <1>1
<1> DEFINE i == CHOOSE n \in DOMAIN DemoKeys : DemoKeys[n] = label
<1>3. i \in DOMAIN DemoKeys
  BY DEF Labels
<1>4. i # Len(DemoKeys) => i + 1 \in DOMAIN DemoKeys
  BY <1>2, <1>3
<1> QED
  BY <1>4, Zenon DEF After, Labels

(* What is visible stays visible: new objects are the only ones hidden.       *)
LEMMA ReadyKept ==
    ASSUME Visible \subseteq Visible', NEW label, Ready(label)
    PROVE  Ready(label)'
BY DEF Ready, Generated, Object, Private, Public

(* A usable pair is complete.                                                 *)
LEMMA UsableIsReady ==
    ASSUME Made, NEW label, label # "AES", PairUsable(label)
    PROVE  Ready(label)
<1>1. PICK private \in Found(Visible, "Private", label),
           public \in Found(Visible, "Public", label) : private.id = public.id
  BY DEF PairUsable
<1>2. /\ private \in Visible /\ private.class = "Private" /\ private.label = label
      /\ public \in Visible /\ public.class = "Public" /\ public.label = label
  BY <1>1 DEF Found
<1>3. private = Private(label, private.id) /\ public = Public(label, private.id)
  BY <1>1, <1>2 DEF Made, Visible, Generated, Object, Private, Public
<1> QED
  BY <1>2, <1>3 DEF Ready, Generated

(* And a secret key is one object.                                            *)
LEMMA SecretIsReady ==
    ASSUME Made, Found(Visible, "Secret", "AES") # {}
    PROVE  Ready("AES")
<1>1. PICK o \in Visible : o.class = "Secret" /\ o.label = "AES"
  BY DEF Found
<1>2. o = Object("Secret", "AES", o.id)
  BY <1>1 DEF Made, Visible, Generated, Object
<1> QED
  BY <1>1, <1>2 DEF Ready, Generated

-----------------------------------------------------------------------------
(* The steps. *)

\* The three things that can become of the objects.
Kept == UNCHANGED <<objects, torn>> /\ rootOwned' \subseteq rootOwned
Ensured(label) ==
    /\ Found(objects, Marker(label), label) = {}
    /\ objects' = objects \cup Generated(label, Unused(label))
    /\ rootOwned' = rootOwned \cup (objects' \ objects)
    /\ UNCHANGED torn
Torn ==
    /\ \E label \in Labels : \E half \in Generated(label, Unused(label)) :
          objects' = objects \cup {half}
    /\ rootOwned' = rootOwned \cup (objects' \ objects)
    /\ torn'

(* A step of the proxy or of hsm-ceiling leaves the token alone.              *)
LEMMA OthersRead ==
    ASSUME [DeployNext]_deployVars
    PROVE  ProvNext \/ UNCHANGED provVars
<1>1. CASE SingleNext
  BY <1>1, Zenon DEF SingleNext, Connect, Signal, Exit, Call, Find, Use, Return, Drop
<1>2. CASE CeilingNext
  BY <1>2, Zenon DEF CeilingNext, RunPoint, Stop, Join, Prepares, Wait, Leave
<1> QED
  BY <1>1, <1>2 DEF DeployNext, deployVars

LEMMA TokenStep ==
    ASSUME ProvNext
    PROVE  Kept \/ Torn \/ \E label \in Labels : Ensured(label)
<1>1. CASE Up \/ Initialize \/ OpenToken \/ Chown \/ Chmod \/ CheckStart \/ CheckKeypair
           \/ CheckRest
  BY <1>1 DEF Up, Initialize, OpenToken, Chown, Chmod, CheckStart, CheckKeypair, CheckRest,
              initVars, Kept
<1>2. CASE Kill
  <2>1. CASE UNCHANGED <<objects, torn>>
    BY <1>2, <2>1 DEF Kill, Kept
  <2>2. CASE /\ step \in KeyPairs
             /\ \E half \in Generated(step, Unused(step)) : objects' = objects \cup {half}
             /\ torn' = TRUE
    BY <1>2, <2>2 DEF Kill, Torn, KeyPairs
  <2> QED
    BY <1>2, <2>1, <2>2, Zenon DEF Kill
<1>3. ASSUME NEW label \in Labels, Ensure(label)
      PROVE  Kept \/ Ensured(label)
  <2>1. CASE UNCHANGED objects
    BY <1>3, <2>1 DEF Ensure, Kept
  <2>2. CASE /\ Found(objects, Marker(label), label) = {}
             /\ objects' = objects \cup Generated(label, Unused(label))
    BY <1>3, <2>2 DEF Ensure, Ensured
  <2> QED
    BY <1>3, <2>1, <2>2 DEF Ensure
<1> QED
  BY <1>1, <1>2, <1>3 DEF ProvNext

LEMMA VisibleGrows ==
    ASSUME ProvNext
    PROVE  Visible \subseteq Visible'
<1>1. CASE Kept
  BY <1>1 DEF Kept, Visible
<1>2. CASE Torn
  <2>1. objects \subseteq objects' /\ rootOwned' = rootOwned \cup (objects' \ objects)
    BY <1>2 DEF Torn
  <2> QED
    BY <2>1 DEF Visible
<1>3. ASSUME NEW label \in Labels, Ensured(label)
      PROVE  Visible \subseteq Visible'
  <2>1. objects \subseteq objects' /\ rootOwned' = rootOwned \cup (objects' \ objects)
    BY <1>3 DEF Ensured
  <2> QED
    BY <2>1 DEF Visible
<1> QED
  BY <1>1, <1>2, <1>3, TokenStep

(* Whatever is generated carries the label and the id it was generated with.  *)
LEMMA GeneratedFields ==
    ASSUME NEW label, NEW id, NEW o \in Generated(label, id)
    PROVE  o.label = label /\ o.id = id
BY DEF Generated, Object, Private, Public

(* An object of each class, and the marker among them.                        *)
LEMMA GeneratedClasses ==
    ASSUME NEW label \in Labels, NEW id
    PROVE  /\ \A o, p \in Generated(label, id) : o.class = p.class => o = p
           /\ \E o \in Generated(label, id) : o.class = Marker(label)
<1>1. CASE label = "AES"
  <2>1. Generated(label, id) = {Object("Secret", label, id)} /\ Marker(label) = "Secret"
    BY <1>1 DEF Generated, Marker, KeyPairs
  <2> QED
    BY <2>1 DEF Object
<1>2. CASE label # "AES"
  <2>1. Generated(label, id) = {Private(label, id), Public(label, id)}
    BY <1>2 DEF Generated
  <2>2. Marker(label) = "Private"
    BY <1>2 DEF Marker, KeyPairs
  <2>3. Private(label, id).class = "Private" /\ Public(label, id).class = "Public"
    BY DEF Private, Public, Object
  <2> QED
    BY <2>1, <2>2, <2>3
<1> QED
  BY <1>1, <1>2

(* ensure_* looks for one object only.  That is enough as long as every pair  *)
(* is complete: without the marker there is nothing of the key at all.        *)
LEMMA NothingThere ==
    ASSUME NEW label \in Labels, OneOfEach, ~torn,
           Found(objects, Marker(label), label) = {}
    PROVE  \A o \in objects : o.label # label
<1> SUFFICES ASSUME NEW o \in objects, o.label = label
             PROVE  FALSE
  OBVIOUS
<1>1. Generated(label, o.id) \subseteq objects
  BY DEF OneOfEach
<1>2. PICK m \in Generated(label, o.id) : m.class = Marker(label)
  BY GeneratedClasses
<1>3. m.label = label
  BY GeneratedFields
<1> QED
  BY <1>1, <1>2, <1>3 DEF Found

LEMMA MadeKept ==
    ASSUME Made, ProvNext
    PROVE  Made'
<1>1. CASE Kept
  BY <1>1 DEF Kept, Made, Generated, Object, Private, Public
<1>2. ASSUME NEW label \in Labels,
             objects' \subseteq objects \cup Generated(label, Unused(label))
      PROVE  Made'
  <2>1. \A o \in objects' : o \in Generated(o.label, o.id)
    BY <1>2, GeneratedFields DEF Made
  <2> QED
    BY <2>1 DEF Made, Generated, Object, Private, Public
<1>3. CASE Torn
  <2>1. PICK label \in Labels : \E half \in Generated(label, Unused(label)) :
                                   objects' = objects \cup {half}
    BY <1>3 DEF Torn
  <2> QED
    BY <2>1, <1>2
<1>4. ASSUME NEW label \in Labels, Ensured(label)
      PROVE  Made'
  BY <1>4, <1>2 DEF Ensured
<1> QED
  BY <1>1, <1>3, <1>4, TokenStep

LEMMA OneOfEachKept ==
    ASSUME OneOfEach, ProvNext
    PROVE  OneOfEach'
<1>1. CASE Kept
  BY <1>1 DEF Kept, OneOfEach, Duplicated, Generated, Object, Private, Public
<1>2. CASE Torn
  BY <1>2 DEF Torn, OneOfEach
<1>3. ASSUME NEW label \in Labels, Ensured(label)
      PROVE  OneOfEach'
  <2> SUFFICES ASSUME ~torn
               PROVE  OneOfEach'
    BY <1>3 DEF Ensured, OneOfEach
  <2> DEFINE new == Generated(label, Unused(label))
  <2>1. objects' = objects \cup new
    BY <1>3 DEF Ensured
  <2>2. \A o \in objects : o.label # label
    BY <1>3, NothingThere DEF Ensured
  <2>3. \A o \in new : o.label = label /\ o.id = Unused(label)
    BY GeneratedFields
  <2>4. \A o, p \in new : o.class = p.class => o = p
    BY GeneratedClasses
  <2>5. ~Duplicated /\ \A o \in objects : Generated(o.label, o.id) \subseteq objects
    BY DEF OneOfEach
  <2> HIDE DEF new
  <2>6. ~Duplicated'
    BY <2>1, <2>2, <2>3, <2>4, <2>5 DEF Duplicated
  <2>7. \A o \in objects' : Generated(o.label, o.id) \subseteq objects'
    BY <2>1, <2>3, <2>5 DEF new
  <2> QED
    BY <2>6, <2>7 DEF OneOfEach, Generated, Object, Private, Public
<1> QED
  BY <1>1, <1>2, <1>3, TokenStep

(* The chown comes last, and comes after one token was found or made.  Who    *)
(* has seen all tokens goes on only with one.                                 *)
LEMMA ScriptedKept ==
    ASSUME Scripted, ProvNext
    PROVE  Scripted'
<1>1. CASE Up
  BY <1>1, LabelsAreTypes DEF Up, Scripted
<1>2. CASE Initialize
  <2>1. PICK existing \in 0..tokens :
               /\ \/ existing > 1 /\ step' = "down" /\ UNCHANGED tokens
                  \/ existing = 1 /\ step' = "open" /\ UNCHANGED tokens
                  \/ /\ existing = 0 /\ tokens < MaxTokens
                     /\ step' = "open" /\ tokens' = tokens + 1
                  \/ existing = 0 /\ step' = "down" /\ UNCHANGED tokens
               /\ blind' = (step' = "open" /\ existing # tokens)
    BY <1>2, Zenon DEF Initialize
  <2>2. /\ tokens \in Nat /\ step = "labels" /\ ~completed /\ UNCHANGED completed
    BY <1>2, LabelsAreTypes DEF Initialize, Scripted
  <2>3. /\ tokens' \in Nat /\ step' \in {"down", "open"}
        /\ step' = "open" /\ existing = tokens => tokens' = 1
        /\ step' = "open" => tokens' > 0
    BY <2>1, <2>2
  <2>4. step' = "open" /\ existing # tokens => blind'
    BY <2>1, Zenon
  <2>5. step' = "open" => tokens' = 1 \/ blind'
    BY <2>3, <2>4, Zenon
  <2> QED
    BY <2>2, <2>3, <2>5, LabelsAreTypes, Zenon DEF Scripted
<1>3. CASE OpenToken
  BY <1>3, LabelsAreTypes DEF OpenToken, Scripted
<1>4. CASE Chown
  BY <1>4, LabelsAreTypes DEF Chown, Scripted
<1>8. CASE Chmod
  BY <1>8, LabelsAreTypes DEF Chmod, Scripted
<1>5. CASE Kill
  BY <1>5, LabelsAreTypes DEF Kill, Scripted
<1>6. ASSUME NEW label \in Labels, Ensure(label)
      PROVE  Scripted'
  <2>1. /\ step = label /\ step' \in Labels \cup {"chown"}
        /\ UNCHANGED <<tokens, blind, completed>>
    BY <1>6, AfterIsStep DEF Ensure
  <2> QED
    BY <2>1, LabelsAreTypes DEF Scripted
<1>7. CASE CheckStart \/ CheckKeypair \/ CheckRest
  BY <1>7 DEF CheckStart, CheckKeypair, CheckRest, initVars, Scripted
<1> QED
  BY <1>1, <1>2, <1>3, <1>4, <1>5, <1>6, <1>7, <1>8 DEF ProvNext

LEMMA KeypairsTyped ==
    /\ Len(ExpectedKeypairs) \in Nat
    /\ DOMAIN ExpectedKeypairs = 1..Len(ExpectedKeypairs)
    /\ \A n \in DOMAIN ExpectedKeypairs : ExpectedKeypairs[n] # "AES"
<1>1. ExpectedKeypairs \in Seq({"EC", "RSA"})
  BY KeysTyped
<1> QED
  BY <1>1

(* The verdict is of now, though the look at each key is of earlier: no key   *)
(* that was found complete is lost again.                                     *)
LEMMA CheckedKept ==
    ASSUME Made, Checked, HealthyMeansKeys, ProvNext
    PROVE  Checked' /\ HealthyMeansKeys'
<1> DEFINE Expects ==
             ExpectedSecrets \cup {ExpectedKeypairs[n] : n \in DOMAIN ExpectedKeypairs}
<1>1. \A label : Ready(label) => Ready(label)'
  BY VisibleGrows, ReadyKept
<1>2. HealthyMeansKeys <=> (healthy => \A label \in Expects : Ready(label))
  BY DEF HealthyMeansKeys, Ready
<1>3. HealthyMeansKeys' <=> (healthy' => \A label \in Expects : Ready(label)')
  BY DEF HealthyMeansKeys, Ready
<1>4. Checked' <=> /\ checking' \in Nat
                   /\ ~failed' => \A n \in DOMAIN ExpectedKeypairs :
                                     n < checking' => Ready(ExpectedKeypairs[n])'
  BY DEF Checked
<1> HIDE DEF Expects
<1>5. CASE UNCHANGED checkVars
  <2>1. HealthyMeansKeys'
    BY <1>1, <1>2, <1>3, <1>5 DEF checkVars
  <2>2. Checked'
    BY <1>1, <1>4, <1>5 DEF checkVars, Checked
  <2> QED
    BY <2>1, <2>2
<1>6. CASE CheckStart
  <2>1. HealthyMeansKeys'
    BY <1>1, <1>2, <1>3, <1>6 DEF CheckStart
  <2>2. checking' \in {0, 1}
    BY <1>6 DEF CheckStart
  <2>3. \A n \in DOMAIN ExpectedKeypairs : ~(n < checking')
    BY <2>2, KeypairsTyped
  <2> QED
    BY <1>4, <2>1, <2>2, <2>3
<1>7. CASE CheckKeypair
  <2>1. HealthyMeansKeys'
    BY <1>1, <1>2, <1>3, <1>7 DEF CheckKeypair
  <2>2. checking \in DOMAIN ExpectedKeypairs /\ checking' = checking + 1
    BY <1>7 DEF CheckKeypair
  <2>3. ~failed' => ~failed /\ PairUsable(ExpectedKeypairs[checking])
    BY <1>7 DEF CheckKeypair
  <2>4. ~failed' => Ready(ExpectedKeypairs[checking])
    BY <2>2, <2>3, KeypairsTyped, UsableIsReady
  <2>5. \A n \in DOMAIN ExpectedKeypairs : n < checking' => n < checking \/ n = checking
    BY <2>2, KeypairsTyped
  <2>6. ~failed' => \A n \in DOMAIN ExpectedKeypairs :
                       n < checking' => Ready(ExpectedKeypairs[n])
    BY <2>3, <2>4, <2>5 DEF Checked
  <2>7. checking' \in Nat
    BY <2>2, KeypairsTyped
  <2> QED
    BY <1>1, <1>4, <2>1, <2>6, <2>7
<1>8. CASE CheckRest
  <2>1. checking = Len(ExpectedKeypairs) + 1 /\ checking' = 0
    BY <1>8 DEF CheckRest
  <2>2. \A n \in DOMAIN ExpectedKeypairs : n < checking /\ ~(n < checking')
    BY <2>1, KeypairsTyped
  <2>3. healthy' => ~failed /\ SecretsThere
    BY <1>8, Zenon DEF CheckRest
  <2>4. SecretsThere => \A label \in ExpectedSecrets : Ready(label)
    BY KeysTyped, SecretIsReady DEF SecretsThere
  <2>5. healthy' => \A label \in Expects : Ready(label)
    BY <2>2, <2>3, <2>4 DEF Checked, Expects
  <2> QED
    BY <1>1, <1>3, <1>4, <2>1, <2>2, <2>5
<1>9. CASE Up \/ Initialize \/ OpenToken \/ Chown \/ Chmod \/ Kill
  BY <1>5, <1>9 DEF Up, Initialize, OpenToken, Chown, Chmod, Kill
<1>10. ASSUME NEW label \in Labels, Ensure(label)
       PROVE  Checked' /\ HealthyMeansKeys'
  BY <1>5, <1>10 DEF Ensure
<1> QED
  BY <1>6, <1>7, <1>8, <1>9, <1>10 DEF ProvNext

-----------------------------------------------------------------------------
LEMMA InitIInv == DeployInit => IInv
<1> SUFFICES ASSUME DeployInit
             PROVE  IInv
  OBVIOUS
<1>1. /\ objects = {} /\ step = "down" /\ completed = FALSE
      /\ checking = 0 /\ healthy = FALSE /\ tokens \in Nat
  BY BoundsTyped DEF DeployInit, ProvInit
<1>2. Made /\ OneOfEach /\ HealthyMeansKeys
  BY <1>1 DEF Made, OneOfEach, Duplicated, HealthyMeansKeys
<1>3. Scripted
  BY <1>1, LabelsAreTypes DEF Scripted
<1>4. Checked
  BY <1>1, KeypairsTyped DEF Checked
<1> QED
  BY <1>2, <1>3, <1>4 DEF IInv

LEMMA NextIInv == IInv /\ [DeployNext]_deployVars => IInv'
<1> SUFFICES ASSUME IInv, [DeployNext]_deployVars
             PROVE  IInv'
  OBVIOUS
<1>1. CASE ProvNext
  BY <1>1, MadeKept, ScriptedKept, OneOfEachKept, CheckedKept DEF IInv
<1>2. CASE UNCHANGED provVars
  BY <1>2, SMTT(60)
     DEF provVars, initVars, checkVars, IInv, Made, Scripted, OneOfEach, Duplicated,
              Checked, HealthyMeansKeys, Ready, Visible, Generated, Object, Private, Public
<1> QED
  BY <1>1, <1>2, OthersRead

LEMMA AlwaysIInv == DeploySpec => []IInv
BY InitIInv, NextIInv, PTL DEF DeploySpec

(* Provisioning is idempotent: for any list of keys and any number of runs and    *)
(* kills, no key is there twice and no pair is incomplete, unless a run was       *)
(* killed inside C_GenerateKeyPair.                                               *)
THEOREM ProvisionedOnce == DeploySpec => []OneOfEach
<1>1. IInv => OneOfEach
  BY DEF IInv
<1> QED
  BY <1>1, AlwaysIInv, PTL

(* A health check that has passed means that every expected key is complete and   *)
(* readable, although it looked at the keys one after the other while the init    *)
(* container may have been writing.                                               *)
THEOREM HealthyIsTrue == DeploySpec => []HealthyMeansKeys
<1>1. IInv => HealthyMeansKeys
  BY DEF IInv
<1> QED
  BY <1>1, AlwaysIInv, PTL

(* When the init container has ended with status 0 there is a token, and all of   *)
(* it is the proxy's, whatever earlier runs left.  There is only one, unless the  *)
(* run failed to list the tokens and `|| true` hid that: for any number of tokens *)
(* to begin with, of runs and of kills.                                           *)
THEOREM CompletedIsReadable == DeploySpec => []CompletedMeansReadable
<1>1. IInv => CompletedMeansReadable
  BY DEF IInv, Scripted, CompletedMeansReadable
<1> QED
  BY <1>1, AlwaysIInv, PTL

-----------------------------------------------------------------------------
(* Signatures.  Each mechanism has one form, however the content is given. *)

Supported == {"EcdsaSha256", "RsaPkcsSha256", "RsaPssSha256"}
D(m) == String(m, 1, FALSE)
W(m) == String(m, 1, TRUE)

FormType(n)       == IF n = "EcdsaSha256" THEN "EC" ELSE "RSA"
FormScheme(n)     == IF n = "EcdsaSha256" THEN "ecdsa"
                     ELSE IF n = "RsaPkcsSha256" THEN "pkcs1" ELSE "pss"
FormCovers(n, m)  == IF n = "RsaPkcsSha256" THEN W(m) ELSE D(m)
Form(key, n, m)   == [key |-> key, scheme |-> FormScheme(n), covers |-> FormCovers(n, m)]

\* The answer about signature s where t is expected, from a key of this type only.
Verdict(key, type, s, t) == {valid \in {s = t} : key.type = type}

LEMMA Forms ==
    ASSUME NEW m
    PROVE  /\ FormType("EcdsaSha256") = "EC" /\ FormScheme("EcdsaSha256") = "ecdsa"
           /\ FormType("RsaPkcsSha256") = "RSA" /\ FormScheme("RsaPkcsSha256") = "pkcs1"
           /\ FormType("RsaPssSha256") = "RSA" /\ FormScheme("RsaPssSha256") = "pss"
           /\ FormCovers("EcdsaSha256", m) = D(m) /\ FormCovers("RsaPkcsSha256", m) = W(m)
           /\ FormCovers("RsaPssSha256", m) = D(m)
BY DEF FormType, FormScheme, FormCovers

LEMMA HashesOfMessages ==
    ASSUME NEW m
    PROVE  /\ Sha256(Raw(m)) = D(m) /\ DigestInfo(D(m)) = W(m) /\ Stripped(W(m)) = D(m)
           /\ DigestLen(D(m)) /\ ~DigestLen(Raw(m)) /\ W(m).wrapped
<1>1. Sha256(Raw(m)) = D(m)
  BY DEF Raw, Sha256, D, String
<1>2. DigestInfo(D(m)) = W(m)
  BY DEF DigestInfo, D, W, String
<1>3. Stripped(W(m)) = D(m)
  BY DEF Stripped, D, W, String
<1>4. DigestLen(D(m)) /\ ~DigestLen(Raw(m)) /\ W(m).wrapped
  BY DEF DigestLen, Raw, D, W, String
<1> QED
  BY <1>1, <1>2, <1>3, <1>4

(* What an input is: a message, its digest, or something too short for one.   *)
LEMMA InputKinds ==
    ASSUME NEW i \in Inputs
    PROVE  \E m \in Messages :
              \/ i.kind = "Message" /\ i.bytes = Raw(m)
              \/ i.kind = "Digest" /\ i.bytes = D(m)
              \/ i.kind = "Digest" /\ i.bytes = Raw(m)
BY HashesOfMessages DEF Inputs

\* prepare takes an input with the content of m.
Content(i, m) == \/ i.kind = "Message" /\ i.bytes = Raw(m)
                 \/ i.kind = "Digest" /\ i.bytes = D(m)

LEMMA DigestOfContent ==
    ASSUME NEW i, NEW m, Content(i, m)
    PROVE  DigestOf(i) = {D(m)}
BY HashesOfMessages DEF Content, DigestOf

\* The operation op asks for a signature of the form of n over m.
Fits(op, n, m) ==
    /\ TypeOf(op.algorithm) = FormType(n)
    /\ VerificationDigest(op) = {D(m)}
    /\ \A key : Signature(key, op) = Form(key, n, m)

LEMMA OpFields ==
    ASSUME NEW a, NEW b
    PROVE  Op(a, b).algorithm = a /\ Op(a, b).payload = b
BY DEF Op

LEMMA FitsIf ==
    ASSUME NEW op, NEW n, NEW m,
           TypeOf(op.algorithm) = FormType(n), Scheme(op.algorithm) = FormScheme(n),
           Covered(op) = FormCovers(n, m), VerificationDigest(op) = {D(m)}
    PROVE  Fits(op, n, m)
BY Zenon DEF Fits, Signature, Form

LEMMA OperationsFit ==
    ASSUME NEW m
    PROVE  /\ Fits(Op("Ecdsa", D(m)), "EcdsaSha256", m)
           /\ Fits(Op("Sha256RsaPkcs", Raw(m)), "RsaPkcsSha256", m)
           /\ Fits(Op("RsaPkcs", W(m)), "RsaPkcsSha256", m)
           /\ Fits(Op("Sha256RsaPkcsPss", Raw(m)), "RsaPssSha256", m)
           /\ Fits(Op("RsaPkcsPss", D(m)), "RsaPssSha256", m)
<1> USE OpFields, HashesOfMessages
<1>1. /\ TypeOf("Ecdsa") = "EC"
      /\ \A a \in {"RsaPkcs", "Sha256RsaPkcs", "RsaPkcsPss", "Sha256RsaPkcsPss"} :
            TypeOf(a) = "RSA"
  BY DEF TypeOf
<1>2. /\ Scheme("Ecdsa") = "ecdsa"
      /\ Scheme("RsaPkcs") = "pkcs1" /\ Scheme("Sha256RsaPkcs") = "pkcs1"
      /\ Scheme("RsaPkcsPss") = "pss" /\ Scheme("Sha256RsaPkcsPss") = "pss"
  BY DEF Scheme
<1>3. /\ Covered(Op("Ecdsa", D(m))) = D(m)
      /\ Covered(Op("Sha256RsaPkcs", Raw(m))) = W(m)
      /\ Covered(Op("RsaPkcs", W(m))) = W(m)
      /\ Covered(Op("Sha256RsaPkcsPss", Raw(m))) = D(m)
      /\ Covered(Op("RsaPkcsPss", D(m))) = D(m)
  BY DEF Covered
<1>4. /\ VerificationDigest(Op("Ecdsa", D(m))) = {D(m)}
      /\ VerificationDigest(Op("Sha256RsaPkcs", Raw(m))) = {D(m)}
      /\ VerificationDigest(Op("Sha256RsaPkcsPss", Raw(m))) = {D(m)}
      /\ VerificationDigest(Op("RsaPkcsPss", D(m))) = {D(m)}
  BY DEF VerificationDigest
<1>5. VerificationDigest(Op("RsaPkcs", W(m))) = {D(m)}
  BY DEF VerificationDigest
<1>6. Fits(Op("Ecdsa", D(m)), "EcdsaSha256", m)
  BY <1>1, <1>2, <1>3, <1>4, Forms, FitsIf, SMTT(60)
<1>7. /\ Fits(Op("Sha256RsaPkcs", Raw(m)), "RsaPkcsSha256", m)
      /\ Fits(Op("RsaPkcs", W(m)), "RsaPkcsSha256", m)
  BY <1>1, <1>2, <1>3, <1>4, <1>5, Forms, FitsIf, SMTT(60)
<1>8. /\ Fits(Op("Sha256RsaPkcsPss", Raw(m)), "RsaPssSha256", m)
      /\ Fits(Op("RsaPkcsPss", D(m)), "RsaPssSha256", m)
  BY <1>1, <1>2, <1>3, <1>4, Forms, FitsIf, SMTT(60)
<1> QED
  BY <1>6, <1>7, <1>8

(* One operation is made of an input, and its signature fits the mechanism.   *)
LEMMA PreparedForm ==
    ASSUME NEW n \in Supported, NEW i, NEW m, Content(i, m)
    PROVE  \E op : Prepare(n, i) = {op} /\ Fits(op, n, m)
<1>1. CASE i.kind = "Message" /\ i.bytes = Raw(m)
  <2>1. Prepare(n, i) = FromMessage(n, Raw(m))
    BY <1>1 DEF Prepare
  <2>2. FromMessage(n, Raw(m)) =
           IF n = "EcdsaSha256" THEN {Op("Ecdsa", D(m))}
           ELSE IF n = "RsaPkcsSha256" THEN {Op("Sha256RsaPkcs", Raw(m))}
           ELSE {Op("Sha256RsaPkcsPss", Raw(m))}
    BY HashesOfMessages DEF FromMessage, Supported
  <2> QED
    BY <2>1, <2>2, OperationsFit DEF Supported
<1>2. CASE i.kind = "Digest" /\ i.bytes = D(m)
  <2>1. Prepare(n, i) = FromDigest(n, D(m))
    BY <1>2, HashesOfMessages DEF Prepare
  <2>2. FromDigest(n, D(m)) = IF n = "EcdsaSha256" THEN {Op("Ecdsa", D(m))}
                              ELSE IF n = "RsaPkcsSha256" THEN {Op("RsaPkcs", W(m))}
                              ELSE {Op("RsaPkcsPss", D(m))}
    BY HashesOfMessages DEF FromDigest, Supported
  <2> QED
    BY <2>1, <2>2, OperationsFit DEF Supported
<1> QED
  BY <1>1, <1>2 DEF Content

(* Nothing is made of an input that is no digest, or for another mechanism.   *)
LEMMA NothingPrepared ==
    ASSUME NEW n \in Mechanisms, NEW i \in Inputs,
           n \notin Supported \/ \A m \in Messages : ~Content(i, m)
    PROVE  Prepare(n, i) = {} /\ \A key, s : VerifyPublic(key, n, i, s) = {}
<1>1. CASE n \notin Supported
  <2>1. Prepare(n, i) = {}
    BY <1>1 DEF Supported, Prepare, FromMessage, FromDigest
  <2>2. \A key, s : VerifyPublic(key, n, i, s) = {}
    BY <1>1, Zenon DEF Supported, VerifyPublic
  <2> QED
    BY <2>1, <2>2
<1>2. CASE \A m \in Messages : ~Content(i, m)
  <2>1. PICK m \in Messages : i.kind = "Digest" /\ i.bytes = Raw(m)
    BY <1>2, InputKinds DEF Content
  <2>2. DigestOf(i) = {} /\ Prepare(n, i) = {}
    BY <2>1, HashesOfMessages DEF DigestOf, Prepare
  <2> QED
    BY <2>2 DEF VerifyPublic
<1> QED
  BY <1>1, <1>2

(* verify_public asks whether the signature has the form of the mechanism.    *)
LEMMA PublicForm ==
    ASSUME NEW n \in Supported, NEW i, NEW m, Content(i, m), NEW key, NEW s
    PROVE  VerifyPublic(key, n, i, s) = Verdict(key, FormType(n), s, Form(key, n, m))
<1>1. VerifyPublic(key, n, i, s) =
         IF n = "EcdsaSha256" THEN VerifyEcdsa(key, D(m), s)
         ELSE IF n = "RsaPkcsSha256" THEN VerifyRsa(key, D(m), s, FALSE)
         ELSE VerifyRsa(key, D(m), s, TRUE)
  <2>1. DigestOf(i) = {D(m)}
    BY DigestOfContent
  <2> QED
    BY <2>1, Zenon DEF VerifyPublic, Supported
<1>2. CASE n = "EcdsaSha256"
  <2>1. VerifyEcdsa(key, D(m), s) = Verdict(key, "EC", s, Form(key, "EcdsaSha256", m))
    BY Forms, Zenon DEF VerifyEcdsa, Verdict, Form
  <2> QED
    BY <1>1, <1>2, <2>1, Forms
<1>3. CASE n = "RsaPkcsSha256"
  <2>1. DigestInfo(D(m)) = W(m)
    BY HashesOfMessages
  <2>2. VerifyRsa(key, D(m), s, FALSE) = Verdict(key, "RSA", s, Form(key, "RsaPkcsSha256", m))
    BY <2>1, Forms, Zenon DEF VerifyRsa, Verdict, Form
  <2> QED
    BY <1>1, <1>3, <2>2, Forms, Zenon
<1>4. CASE n = "RsaPssSha256"
  <2>1. VerifyRsa(key, D(m), s, TRUE) = Verdict(key, "RSA", s, Form(key, "RsaPssSha256", m))
    BY Forms, Zenon DEF VerifyRsa, Verdict, Form
  <2> QED
    BY <1>1, <1>4, <2>1, Forms, Zenon
<1> QED
  BY <1>2, <1>3, <1>4 DEF Supported

(* The form tells keys, mechanisms and contents apart.                        *)
LEMMA FormInjective ==
    ASSUME NEW k, NEW l, NEW n \in Supported, NEW o \in Supported, NEW m, NEW p
    PROVE  Form(k, n, m) = Form(l, o, p) <=> k = l /\ n = o /\ m = p
<1>1. /\ Form(k, n, m).key = k /\ Form(l, o, p).key = l
      /\ Form(k, n, m).covers.of = m /\ Form(l, o, p).covers.of = p
  BY DEF Form, FormCovers, D, W, String
<1>2. Form(k, n, m).scheme = Form(l, o, p).scheme => n = o
  BY DEF Form, FormScheme, Supported
<1> QED
  BY <1>1, <1>2

(* Each mechanism has one form of signature, which prepare reaches from a message *)
(* and from a digest, and verify_public from its digest.                          *)
LEMMA AgreementHolds == Agreement
<1> SUFFICES ASSUME NEW m \in Mechanisms, NEW i \in Inputs, NEW op \in Prepare(m, i)
             PROVE  /\ VerificationDigest(op) = DigestOf(i)
                    /\ \A key, other \in Keys, n \in Mechanisms, j \in Inputs :
                          \A s \in TokenSign(key, op) :
                             /\ VerifyPublic(other, n, j, s)
                                   = UNION {TokenVerify(other, q, s) : q \in Prepare(n, j)}
                             /\ TRUE \in VerifyPublic(other, n, j, s)
                                   <=> other = key /\ n = m /\ SameContent(i, j)
  BY Zenon DEF Agreement
<1>1. m \in Supported /\ \E p \in Messages : Content(i, p)
  BY NothingPrepared
<1>2. PICK p \in Messages : Content(i, p)
  BY <1>1
<1>3. Fits(op, m, p) /\ DigestOf(i) = {D(p)}
  BY <1>1, <1>2, PreparedForm, DigestOfContent
<1>4. ASSUME NEW key \in Keys, NEW other \in Keys, NEW n \in Mechanisms, NEW j \in Inputs,
             NEW s \in TokenSign(key, op)
      PROVE  /\ VerifyPublic(other, n, j, s)
                   = UNION {TokenVerify(other, q, s) : q \in Prepare(n, j)}
             /\ TRUE \in VerifyPublic(other, n, j, s)
                   <=> other = key /\ n = m /\ SameContent(i, j)
  <2>1. s = Form(key, m, p) /\ key.type = FormType(m)
    BY <1>3 DEF TokenSign, Fits
  <2>2. CASE n \in Supported /\ \E r \in Messages : Content(j, r)
    <3>1. PICK r \in Messages : Content(j, r)
      BY <2>2
    <3>2. PICK q : Prepare(n, j) = {q} /\ Fits(q, n, r)
      BY <2>2, <3>1, PreparedForm
    <3>3. VerifyPublic(other, n, j, s) = Verdict(other, FormType(n), s, Form(other, n, r))
      BY <2>2, <3>1, PublicForm
    <3>4. UNION {TokenVerify(other, x, s) : x \in Prepare(n, j)} = TokenVerify(other, q, s)
      BY <3>2
    <3>5. TokenVerify(other, q, s) = Verdict(other, FormType(n), s, Form(other, n, r))
      BY <3>2, Zenon DEF TokenVerify, Fits, Verdict
    <3>6. s = Form(other, n, r) <=> other = key /\ n = m /\ r = p
      BY <1>1, <2>1, <2>2, FormInjective
    <3>7. SameContent(i, j) <=> r = p
      <4>1. DigestOf(j) = {D(r)}
        BY <3>1, DigestOfContent
      <4>2. D(r) = D(p) <=> r = p
        BY Zenon DEF D, String
      <4> QED
        BY <1>3, <4>1, <4>2, Zenon DEF SameContent
    <3>8. TRUE \in VerifyPublic(other, n, j, s)
             <=> s = Form(other, n, r) /\ other.type = FormType(n)
      BY <3>3, Zenon DEF Verdict
    <3>9. TRUE \in VerifyPublic(other, n, j, s)
             <=> other = key /\ n = m /\ SameContent(i, j)
      BY <2>1, <3>6, <3>7, <3>8, Zenon
    <3> QED
      BY <3>3, <3>4, <3>5, <3>9, Zenon
  <2>3. CASE n \notin Supported \/ \A r \in Messages : ~Content(j, r)
    <3>1. Prepare(n, j) = {} /\ VerifyPublic(other, n, j, s) = {}
      BY <2>3, NothingPrepared
    <3>2. n = m => ~SameContent(i, j)
      <4> SUFFICES ASSUME n = m
                   PROVE  ~SameContent(i, j)
        OBVIOUS
      <4>1. PICK r \in Messages : j.kind = "Digest" /\ j.bytes = Raw(r)
        BY <1>1, <2>3, InputKinds DEF Content
      <4>2. DigestOf(j) = {}
        BY <4>1, HashesOfMessages DEF DigestOf
      <4> QED
        BY <4>2 DEF SameContent
    <3> QED
      BY <3>1, <3>2
  <2> QED
    BY <2>2, <2>3, Zenon
<1> QED
  BY <1>3, <1>4, Zenon DEF Fits

(* Token and process agree on every signature, for any messages and keys, whether *)
(* they are given the message or its digest: a caller may sign with one of the    *)
(* two backends and verify with the other.                                        *)
THEOREM BackendsAlwaysAgree == DeploySpec => []BackendsAgree
<1>1. BackendsAgree
  BY AgreementHolds DEF BackendsAgree
<1> QED
  BY <1>1, PTL

-----------------------------------------------------------------------------
(* Points. *)

(* A value that begins with 4 and has the length of one of the three forms.  The  *)
(* second byte of a bare point is not looked at.                                  *)
LEMMA KeyMade ==
    ASSUME NEW v, v.b0 = 4,
           \/ v.len = 65 /\ v.point = 0
           \/ v.len = 67 /\ v.point = 2 /\ v.b1 = 65
           \/ v.len = 68 /\ v.point = 3 /\ v.b1 = 129 /\ v.b2 = 65
    PROVE  EcSpki(v) = {"EC"}
<1> DEFINE p == [from |-> v.point, n |-> 65]
<1>1. CASE v.len = 65 /\ v.point = 0
  <2>1. Unwrap(v) = Part(v, 0, 65)
    BY <1>1 DEF Unwrap
  <2>2. p \in Part(v, 0, 65)
    BY <1>1 DEF Part
  <2> QED
    BY <2>1, <2>2 DEF EcSpki, FromSec1
<1>2. CASE v.len = 67 /\ v.point = 2 /\ v.b1 = 65
  <2>1. Unwrap(v) = Part(v, 2, 65)
    BY <1>2 DEF Unwrap
  <2>2. p \in Part(v, 2, 65)
    BY <1>2 DEF Part
  <2> QED
    BY <2>1, <2>2 DEF EcSpki, FromSec1
<1>3. CASE v.len = 68 /\ v.point = 3 /\ v.b1 = 129 /\ v.b2 = 65
  <2>1. Unwrap(v) = Part(v, 3, 65)
    BY <1>3 DEF Unwrap
  <2>2. p \in Part(v, 3, 65)
    BY <1>3 DEF Part
  <2> QED
    BY <2>1, <2>2 DEF EcSpki, FromSec1
<1> QED
  BY <1>1, <1>2, <1>3

(* A part of 65 bytes lies where the point does only if all of the value is there. *)
(* 65 bytes of an OCTET STRING are taken from the first one on, where no point is. *)
LEMMA CutRefused ==
    ASSUME NEW v, v.len \in Nat,
           \/ v.len < 65 /\ v.point = 0
           \/ v.len < 67 /\ v.point = 2
           \/ v.len < 68 /\ v.point = 3
    PROVE  EcSpki(v) = {}
<1>1. ASSUME NEW p \in Unwrap(v), FromSec1(v, p)
      PROVE  FALSE
  <2>1. \/ v.len = 65 /\ p \in Part(v, 0, 65)
        \/ v.len # 65 /\ (p \in Part(v, 2, v.b1) \/ p \in Part(v, 3, v.b2))
    BY <1>1 DEF Unwrap
  <2>2. p.from = v.point /\ p.n = 65
    BY <1>1 DEF FromSec1
  <2>3. CASE v.len = 65 /\ p \in Part(v, 0, 65)
    <3>1. p.from = 0
      BY <2>3 DEF Part
    <3> QED
      BY <2>2, <2>3, <3>1
  <2>4. CASE p \in Part(v, 2, v.b1)
    <3>1. p.from = 2 /\ p.n = v.b1 /\ 2 + v.b1 <= v.len
      BY <2>4 DEF Part
    <3> QED
      BY <2>2, <3>1
  <2>5. CASE p \in Part(v, 3, v.b2)
    <3>1. p.from = 3 /\ p.n = v.b2 /\ 3 + v.b2 <= v.len
      BY <2>5 DEF Part
    <3> QED
      BY <2>2, <3>1
  <2> QED
    BY <2>1, <2>3, <2>4, <2>5
<1> QED
  BY <1>1, Zenon DEF EcSpki

LEMMA EveryPointHolds == EveryPoint
<1> SUFFICES ASSUME NEW v \in BarePoints \cup ShortForm \cup LongForm
             PROVE  /\ EcSpki(v) = {"EC"}
                    /\ \A n \in 0..(v.len - 1) : EcSpki([v EXCEPT !.len = n]) = {}
  BY Zenon DEF EveryPoint
<1>1. \E b, c : v = [len |-> v.len, b0 |-> 4, b1 |-> b, b2 |-> c, point |-> v.point]
  BY DEF BarePoints, ShortForm, LongForm
<1>2. /\ v.b0 = 4
      /\ \/ v.len = 65 /\ v.point = 0
         \/ v.len = 67 /\ v.point = 2 /\ v.b1 = 65
         \/ v.len = 68 /\ v.point = 3 /\ v.b1 = 129 /\ v.b2 = 65
  BY DEF BarePoints, ShortForm, LongForm
<1>3. ASSUME NEW n \in 0..(v.len - 1)
      PROVE  EcSpki([v EXCEPT !.len = n]) = {}
  <2> DEFINE cut == [v EXCEPT !.len = n]
  <2>1. cut.len = n /\ cut.point = v.point
    BY <1>1
  <2> HIDE DEF cut
  <2>2. /\ cut.len \in Nat
        /\ \/ cut.len < 65 /\ cut.point = 0
           \/ cut.len < 67 /\ cut.point = 2
           \/ cut.len < 68 /\ cut.point = 3
    BY <1>2, <1>3, <2>1
  <2>3. EcSpki(cut) = {}
    BY <2>2, CutRefused
  <2> QED
    BY <2>3 DEF cut
<1>4. EcSpki(v) = {"EC"}
  BY <1>2, KeyMade
<1> QED
  BY <1>3, <1>4

(* A module may return the point bare or as an OCTET STRING: ec_spki makes the key of *)
(* each form, of a bare point whatever its coordinates begin with, and makes none of  *)
(* a value that was cut short, be it to the 65 bytes of a bare point.                 *)
THEOREM PointAlwaysFound == DeploySpec => []PointFound
<1>1. PointFound
  BY EveryPointHolds DEF PointFound
<1> QED
  BY <1>1, PTL

-----------------------------------------------------------------------------
(* Requests. *)

Ops == {"sign", "verify", "encrypt", "decrypt", "get_public_key"}

AtMostOne(S) == S = {} \/ \E x : S = {x}

\* The signature was made by a private key among these objects.
Owned(signature, known) ==
    /\ AtMostOne(signature)
    /\ \A s \in signature : \E p \in known : p.class = "Private" /\ s.key = KeyOf(p)

Shaped(r) ==
    /\ r.op \in Ops /\ r.label \in Labels
    /\ r.op \in {"sign", "verify"} =>
          /\ r.mechanism \in Mechanisms
          /\ r.input = {} \/ \E i \in Inputs : r.input = {i}

\* A request in a handler.
Served(r, known) == Shaped(r) /\ (r.op = "verify" => Owned(r.signature, known))

\* What the handler with the lock has found is what its request asks for.
AsksFor(r, object) == object.class = ClassOf(r.op) /\ object.label = r.label

Members(q)   == {q[n] : n \in DOMAIN q}
NoRepeats(q) == q \in Seq(Tasks) /\ \A m, n \in DOMAIN q : q[m] = q[n] => m = n

\* The queue holds each waiting handler once, and not the one that has the lock.
Queued ==
    /\ NoRepeats(queue)
    /\ \A t \in Members(queue) : req[t] # NoRequest
    /\ \A h \in held : h.task \notin Members(queue)

\* The handlers, their requests, and the signature that a caller has.
Serving ==
    /\ req = [t \in Tasks |-> req[t]] /\ code = [t \in Tasks |-> code[t]]
    /\ \A t \in Tasks : req[t] = NoRequest \/ Served(req[t], objects)
    /\ Owned(issued, objects)
    /\ Queued
    /\ \A h \in held : /\ h.task \in Tasks /\ req[h.task] # NoRequest
                       /\ h.object \in objects /\ AsksFor(req[h.task], h.object)

LEMMA JoinQueue ==
    ASSUME NEW q, NoRepeats(q), NEW t \in Tasks, t \notin Members(q)
    PROVE  NoRepeats(Append(q, t)) /\ Members(Append(q, t)) \subseteq Members(q) \cup {t}
<1>1. q \in Seq(Tasks) /\ Len(q) \in Nat /\ DOMAIN q = 1..Len(q)
  BY DEF NoRepeats
<1>2. /\ Append(q, t) \in Seq(Tasks) /\ DOMAIN Append(q, t) = 1..(Len(q) + 1)
      /\ \A n \in 1..Len(q) : Append(q, t)[n] = q[n]
      /\ Append(q, t)[Len(q) + 1] = t
  BY <1>1
<1>3. \A n \in 1..(Len(q) + 1) : n \in 1..Len(q) \/ n = Len(q) + 1
  BY <1>1
<1>4. \A n \in 1..Len(q) : q[n] # t
  BY <1>1 DEF Members
<1>5. \A m, n \in 1..Len(q) : q[m] = q[n] => m = n
  BY <1>1 DEF NoRepeats
<1>6. ASSUME NEW m \in 1..(Len(q) + 1), NEW n \in 1..(Len(q) + 1),
             Append(q, t)[m] = Append(q, t)[n]
      PROVE  m = n
  BY <1>2, <1>3, <1>4, <1>5, <1>6
<1>7. Members(Append(q, t)) \subseteq Members(q) \cup {t}
  BY <1>1, <1>2, <1>3 DEF Members
<1> QED
  BY <1>2, <1>6, <1>7 DEF NoRepeats

LEMMA LeaveHead ==
    ASSUME NEW q, NoRepeats(q), q # <<>>
    PROVE  /\ Head(q) \in Members(q)
           /\ NoRepeats(Tail(q)) /\ Members(Tail(q)) \subseteq Members(q) \ {Head(q)}
<1>1. q \in Seq(Tasks) /\ Len(q) \in Nat /\ DOMAIN q = 1..Len(q) /\ Len(q) # 0
  BY DEF NoRepeats
<1>2. /\ Head(q) = q[1] /\ Tail(q) \in Seq(Tasks) /\ DOMAIN Tail(q) = 1..(Len(q) - 1)
      /\ \A n \in 1..(Len(q) - 1) : Tail(q)[n] = q[n + 1]
  BY <1>1
<1>3. 1 \in DOMAIN q
      /\ \A n \in 1..(Len(q) - 1) : n + 1 \in DOMAIN q /\ n \in Nat /\ n + 1 # 1
  BY <1>1
<1>4. \A m, n \in DOMAIN q : q[m] = q[n] => m = n
  BY DEF NoRepeats
<1>5. ASSUME NEW m \in 1..(Len(q) - 1), NEW n \in 1..(Len(q) - 1), Tail(q)[m] = Tail(q)[n]
      PROVE  m = n
  BY <1>2, <1>3, <1>4, <1>5
<1>6. Members(Tail(q)) \subseteq Members(q) \ {Head(q)}
  BY <1>2, <1>3, <1>4 DEF Members
<1> QED
  BY <1>2, <1>3, <1>5, <1>6 DEF NoRepeats, Members

LEMMA Concatenated ==
    ASSUME NEW S, NEW a \in Seq(S), NEW b \in Seq(S)
    PROVE  /\ a \o b \in Seq(S) /\ Len(a \o b) = Len(a) + Len(b)
           /\ \A k \in 1..(Len(a) + Len(b)) :
                 (a \o b)[k] = IF k <= Len(a) THEN a[k] ELSE b[k - Len(a)]
OBVIOUS

LEMMA LeaveQueue ==
    ASSUME NEW q, NoRepeats(q), NEW n \in DOMAIN q
    PROVE  LET left == SubSeq(q, 1, n - 1) \o SubSeq(q, n + 1, Len(q))
           IN  NoRepeats(left) /\ Members(left) \subseteq Members(q) \ {q[n]}
<1> DEFINE a == SubSeq(q, 1, n - 1)
           b == SubSeq(q, n + 1, Len(q))
           left == a \o b
           Was(k) == IF k < n THEN k ELSE k + 1
<1>1. q \in Seq(Tasks) /\ Len(q) \in Nat /\ DOMAIN q = 1..Len(q) /\ n \in 1..Len(q)
  BY DEF NoRepeats
<1>2. /\ a \in Seq(Tasks) /\ Len(a) = n - 1
      /\ \A k \in 1..(n - 1) : a[k] = q[k]
  <2>1. 1 \in Nat /\ n - 1 \in Nat /\ n - 1 <= Len(q)
    BY <1>1
  <2>2. a \in Seq(Tasks)
    BY <1>1, <2>1
  <2> QED
    BY <1>1, <2>1, <2>2
<1>3. /\ b \in Seq(Tasks) /\ Len(b) = Len(q) - n
      /\ \A k \in 1..(Len(q) - n) : b[k] = q[n + k]
  BY <1>1, SMTT(20)
<1> HIDE DEF a, b
<1>4. /\ left \in Seq(Tasks) /\ DOMAIN left = 1..(Len(q) - 1)
      /\ \A k \in 1..(Len(q) - 1) :
            left[k] = IF k <= n - 1 THEN a[k] ELSE b[k - (n - 1)]
  <2>1. Len(a) + Len(b) = Len(q) - 1 /\ Len(a) \in Nat /\ Len(b) \in Nat
    BY <1>1, <1>2, <1>3
  <2>2. left \in Seq(Tasks) /\ Len(left) = Len(a) + Len(b)
    BY <1>2, <1>3, Concatenated, Zenon
  <2>3. \A k \in 1..(Len(a) + Len(b)) :
           left[k] = IF k <= Len(a) THEN a[k] ELSE b[k - Len(a)]
    BY <1>2, <1>3, Concatenated, Zenon
  <2>4. DOMAIN left = 1..Len(left)
    BY <2>2
  <2> HIDE DEF left
  <2> QED
    BY <1>2, <2>1, <2>2, <2>3, <2>4, SMTT(20)
<1> HIDE DEF left
<1>5. \A k \in 1..(Len(q) - 1) : Was(k) \in DOMAIN q /\ Was(k) # n
  BY <1>1
<1>6. \A j, k \in 1..(Len(q) - 1) : Was(j) = Was(k) => j = k
  BY <1>1
<1>7. ASSUME NEW k \in 1..(Len(q) - 1)
      PROVE  left[k] = q[Was(k)]
  <2>1. CASE k < n
    <3>1. k \in 1..(n - 1) /\ k <= n - 1 /\ Was(k) = k
      BY <1>1, <2>1
    <3> QED
      BY <1>2, <1>4, <3>1
  <2>2. CASE ~(k < n)
    <3>1. /\ k - (n - 1) \in 1..(Len(q) - n) /\ ~(k <= n - 1)
          /\ Was(k) = n + (k - (n - 1))
      BY <1>1, <2>2
    <3>2. left[k] = b[k - (n - 1)]
      BY <1>4, <3>1, Zenon
    <3> QED
      BY <1>3, <3>1, <3>2, Zenon
  <2> QED
    BY <2>1, <2>2
<1> HIDE DEF Was
<1>8. \A j, k \in DOMAIN q : q[j] = q[k] => j = k
  BY DEF NoRepeats
<1>9. NoRepeats(left)
  <2>1. ASSUME NEW j \in 1..(Len(q) - 1), NEW k \in 1..(Len(q) - 1), left[j] = left[k]
        PROVE  j = k
    BY <1>5, <1>6, <1>7, <1>8, <2>1, Zenon
  <2> QED
    BY <1>4, <2>1 DEF NoRepeats
<1>10. Members(left) \subseteq Members(q) \ {q[n]}
  BY <1>4, <1>5, <1>7, <1>8 DEF Members
<1> QED
  BY <1>9, <1>10 DEF left, a, b

(* What the token is asked comes to what verify_public is asked: one operation at *)
(* most is prepared, and one answer at most is given.                             *)
LEMMA OneVerdict ==
    ASSUME NEW n \in Mechanisms, NEW i \in Inputs, NEW key, NEW s
    PROVE  /\ AtMostOne(Prepare(n, i))
           /\ \A v : v \in VerifyPublic(key, n, i, s)
                       <=> \E q \in Prepare(n, i) : v \in TokenVerify(key, q, s)
           /\ VerifyPublic(key, n, i, s) \in {{}, {TRUE}, {FALSE}}
<1>1. CASE n \in Supported /\ \E m \in Messages : Content(i, m)
  <2>1. PICK m \in Messages : Content(i, m)
    BY <1>1
  <2>2. PICK q : Prepare(n, i) = {q} /\ Fits(q, n, m)
    BY <1>1, <2>1, PreparedForm
  <2>3. VerifyPublic(key, n, i, s) = Verdict(key, FormType(n), s, Form(key, n, m))
    BY <1>1, <2>1, PublicForm
  <2>4. \A v : v \in TokenVerify(key, q, s)
                 <=> \E x \in Prepare(n, i) : v \in TokenVerify(key, x, s)
    BY <2>2, Zenon
  <2>5. TokenVerify(key, q, s) = Verdict(key, FormType(n), s, Form(key, n, m))
    BY <2>2, Zenon DEF TokenVerify, Fits, Verdict
  <2>6. ASSUME NEW b \in BOOLEAN, NEW type
        PROVE  {valid \in {b} : key.type = type} \in {{}, {TRUE}, {FALSE}}
    BY Zenon
  <2>7. Verdict(key, FormType(n), s, Form(key, n, m)) \in {{}, {TRUE}, {FALSE}}
    BY <2>6, Zenon DEF Verdict
  <2> QED
    BY <2>2, <2>3, <2>4, <2>5, <2>7, Zenon DEF AtMostOne
<1>2. CASE n \notin Supported \/ \A m \in Messages : ~Content(i, m)
  <2>1. Prepare(n, i) = {} /\ VerifyPublic(key, n, i, s) = {}
    BY <1>2, NothingPrepared
  <2> QED
    BY <2>1 DEF AtMostOne
<1> QED
  BY <1>1, <1>2, Zenon

LEMMA RequestShaped ==
    ASSUME NEW r \in Requests
    PROVE  /\ Shaped(r)
           /\ r.op = "verify" => \A s : /\ [r EXCEPT !.signature = s].op = "verify"
                                        /\ [r EXCEPT !.signature = s].signature = s
                                        /\ Shaped([r EXCEPT !.signature = s])
<1>1. r \in AllRequests
  BY RequestsTyped
<1> DEFINE In == {{}} \cup {{i} : i \in Inputs}
<1>2. \A x \in In : x = {} \/ \E i \in Inputs : x = {i}
  OBVIOUS
<1> HIDE DEF In
<1>3. CASE r \in [op : {"sign"}, label : Labels, mechanism : Mechanisms, input : In]
  BY <1>2, <1>3 DEF Shaped, Ops
<1>4. CASE r \in [op : {"verify"}, label : Labels, mechanism : Mechanisms, input : In,
                  signature : {{}}]
  <2>1. r.op = "verify" /\ r.label \in Labels /\ r.mechanism \in Mechanisms /\ r.input \in In
    BY <1>4
  <2>2. ASSUME NEW s
        PROVE  LET e == [r EXCEPT !.signature = s]
               IN  /\ e.op = r.op /\ e.label = r.label /\ e.mechanism = r.mechanism
                   /\ e.input = r.input /\ e.signature = s
    BY <1>4
  <2> QED
    BY <1>2, <2>1, <2>2 DEF Shaped, Ops
<1>5. CASE r \in [op : {"encrypt"}, label : Labels, gcm : BOOLEAN, fits : BOOLEAN]
  BY <1>5 DEF Shaped, Ops
<1>6. CASE r \in [op : {"decrypt"}, label : Labels, gcm : BOOLEAN, iv : BOOLEAN,
                  fits : BOOLEAN, authentic : BOOLEAN]
  BY <1>6 DEF Shaped, Ops
<1>7. CASE r \in [op : {"get_public_key"}, label : Labels]
  BY <1>7 DEF Shaped, Ops
<1> QED
  BY <1>1, <1>3, <1>4, <1>5, <1>6, <1>7, Zenon DEF AllRequests, In

LEMMA AskedOnce ==
    ASSUME NEW r, NEW o, NEW s, Sent(r) = {s}, NEW i \in Inputs, r.input = {i},
           r.mechanism \in Mechanisms
    PROVE  Verified(r, o) = VerifyPublic(KeyOf(o), r.mechanism, i, s)
<1>1. Prepared(r) = Prepare(r.mechanism, i)
  BY DEF Prepared
<1>3. ASSUME NEW v
      PROVE  v \in Verified(r, o)
                <=> \E q \in Prepared(r) : \E x \in Sent(r) : v \in TokenVerify(KeyOf(o), q, x)
  BY DEF Verified
<1>4. \A v : v \in Verified(r, o) <=> v \in VerifyPublic(KeyOf(o), r.mechanism, i, s)
  <2>1. \A v : v \in VerifyPublic(KeyOf(o), r.mechanism, i, s)
                 <=> \E q \in Prepare(r.mechanism, i) : v \in TokenVerify(KeyOf(o), q, s)
    BY OneVerdict, Zenon
  <2> QED
    BY <1>1, <1>3, <2>1, Zenon
<1> QED
  BY <1>4, Zenon

(* Every outcome of a token call; none of them is that the key is missing.        *)
LEMMA Outcomes ==
    ASSUME NEW r, Shaped(r), NEW o, NEW known, r.op = "verify" => Owned(r.signature, known)
    PROVE  /\ Outcome(r, o) # "NotFound"
           /\ Outcome(r, o) = "Invalid" => r.op = "verify" /\ Verified(r, o) = {FALSE}
<1>1. r.op = "verify" => Verified(r, o) \in {{}, {TRUE}, {FALSE}}
  <2> SUFFICES ASSUME r.op = "verify"
               PROVE  Verified(r, o) \in {{}, {TRUE}, {FALSE}}
    BY Zenon
  <2>1. PICK s : Sent(r) = {s}
    BY Zenon DEF Sent, Owned, AtMostOne
  <2>2. CASE r.input = {}
    <3>1. Prepared(r) = {}
      BY <2>2, Zenon DEF Prepared
    <3>2. Verified(r, o) = {}
      BY <3>1, Zenon DEF Verified
    <3> QED
      BY <3>2, Zenon
  <2>3. ASSUME NEW i \in Inputs, r.input = {i}
        PROVE  Verified(r, o) \in {{}, {TRUE}, {FALSE}}
    <3>1. r.mechanism \in Mechanisms
      BY DEF Shaped
    <3>2. Verified(r, o) = VerifyPublic(KeyOf(o), r.mechanism, i, s)
      BY <2>1, <2>3, <3>1, AskedOnce, Zenon
    <3>3. VerifyPublic(KeyOf(o), r.mechanism, i, s) \in {{}, {TRUE}, {FALSE}}
      BY <3>1, OneVerdict, Zenon
    <3> QED
      BY <3>2, <3>3, Zenon
  <2> QED
    BY <2>2, <2>3, Zenon DEF Shaped
<1>2. CASE r.op = "verify"
  <2>1. Outcome(r, o) = VerifyOutcome(r, o)
    BY <1>2, Zenon DEF Outcome
  <2>2. VerifyOutcome(r, o) =
           IF Verified(r, o) = {} THEN "Internal"
           ELSE IF Verified(r, o) = {TRUE} THEN "Ok" ELSE "Invalid"
    BY <1>1, <1>2, Zenon DEF VerifyOutcome
  <2> QED
    BY <1>1, <1>2, <2>1, <2>2, Zenon
<1>3. CASE r.op # "verify"
  BY <1>3, Zenon DEF Outcome, SignOutcome, EncryptOutcome, DecryptOutcome, GetPublicKeyOutcome,
              Shaped, Ops
<1> QED
  BY <1>2, <1>3, Zenon

-----------------------------------------------------------------------------
(* The steps of a handler. *)

\* No request is NoRequest, whatever signature comes with it.
Apart == \A r \in Requests : \A s : [r EXCEPT !.signature = s] # NoRequest

LEMMA OwnedGrows ==
    ASSUME NEW known, NEW more, known \subseteq more
    PROVE  /\ \A s : Owned(s, known) => Owned(s, more)
           /\ \A r : Served(r, known) => Served(r, more)
<1>1. \A s : Owned(s, known) => Owned(s, more)
  BY Zenon DEF Owned
<1> QED
  BY <1>1, Zenon DEF Served

(* The token may get more objects while the handlers are where they are.      *)
LEMMA TokenGrows ==
    ASSUME Serving, objects \subseteq objects', UNCHANGED <<queue, held, req, issued>>,
           code' = [t \in Tasks |-> code'[t]]
    PROVE  Serving'
<1>1. Queued'
  BY Zenon DEF Serving, Queued
<1>2. Owned(issued, objects)'
  BY OwnedGrows, Zenon DEF Serving
<1>3. \A t \in Tasks : req'[t] = NoRequest \/ Served(req'[t], objects')
  BY OwnedGrows, Zenon DEF Serving
<1>4. \A h \in held' : /\ h.task \in Tasks /\ req'[h.task] # NoRequest
                       /\ h.object \in objects' /\ AsksFor(req'[h.task], h.object)
  BY Zenon DEF Serving
<1>5. req' = [t \in Tasks |-> req'[t]]
  BY Zenon DEF Serving
<1> QED
  BY <1>1, <1>2, <1>3, <1>4, <1>5, Zenon DEF Serving

(* A handler ends: its task is in the queue no more, and does not have the lock. *)
LEMMA HandlerEnds ==
    ASSUME Serving, NEW t \in Tasks, req' = [req EXCEPT ![t] = NoRequest],
           code' = [u \in Tasks |-> code'[u]],
           NoRepeats(queue'), Members(queue') \subseteq Members(queue) \ {t},
           \A h \in held' : h \in held /\ h.task # t,
           Owned(issued', objects), UNCHANGED objects
    PROVE  Serving'
<1>1. req = [u \in Tasks |-> req[u]]
  BY DEF Serving
<1>2. req'[t] = NoRequest /\ \A u \in Tasks : u # t => req'[u] = req[u]
  BY <1>1
<1>3. req' = [u \in Tasks |-> req'[u]]
  BY <1>1
<1>4. Members(queue) \subseteq Tasks
  BY DEF Serving, Queued, NoRepeats, Members
<1>5. Queued'
  <2>1. \A u \in Members(queue') : u # t /\ u \in Members(queue) /\ u \in Tasks
    BY <1>4
  <2>2. \A u \in Members(queue') : req'[u] # NoRequest
    BY <1>2, <2>1, Zenon DEF Serving, Queued
  <2>3. \A h \in held' : h.task \notin Members(queue')
    BY <2>1, Zenon DEF Serving, Queued
  <2> QED
    BY <2>2, <2>3, Zenon DEF Queued, Members, NoRepeats
<1>6. \A u \in Tasks : req'[u] = NoRequest \/ Served(req'[u], objects')
  BY <1>2, Zenon DEF Serving
<1>7. \A h \in held' : /\ h.task \in Tasks /\ req'[h.task] # NoRequest
                       /\ h.object \in objects' /\ AsksFor(req'[h.task], h.object)
  BY <1>2, Zenon DEF Serving
<1> QED
  BY <1>3, <1>5, <1>6, <1>7, Zenon DEF Serving

(* A handler begins to wait. *)
LEMMA HandlerWaits ==
    ASSUME Serving, NEW t \in Tasks, req[t] = NoRequest,
           NEW r, r # NoRequest, Served(r, objects), req' = [req EXCEPT ![t] = r],
           queue' = Append(queue, t), UNCHANGED <<objects, held, code, issued>>
    PROVE  Serving'
<1>1. req = [u \in Tasks |-> req[u]]
  BY DEF Serving
<1>2. req'[t] = r /\ \A u \in Tasks : u # t => req'[u] = req[u]
  BY <1>1
<1>3. req' = [u \in Tasks |-> req'[u]]
  BY <1>1, Zenon
<1>4. t \notin Members(queue) /\ NoRepeats(queue) /\ \A h \in held : h.task # t
  BY Zenon DEF Serving, Queued
<1>5. NoRepeats(queue') /\ Members(queue') \subseteq Members(queue) \cup {t}
  BY <1>4, JoinQueue, Zenon
<1>6. Members(queue) \subseteq Tasks
  BY DEF Serving, Queued, NoRepeats, Members
<1>7. Queued'
  <2>1. \A u \in Members(queue') : u = t \/ (u # t /\ u \in Members(queue) /\ u \in Tasks)
    BY <1>5, <1>6
  <2>2. \A u \in Members(queue') : req'[u] # NoRequest
    BY <1>2, <2>1, Zenon DEF Serving, Queued
  <2>3. \A h \in held' : h.task \notin Members(queue')
    BY <1>4, <2>1, Zenon DEF Serving, Queued
  <2> QED
    BY <1>5, <2>2, <2>3, Zenon DEF Queued, Members, NoRepeats
<1>8. \A u \in Tasks : req'[u] = NoRequest \/ Served(req'[u], objects')
  BY <1>2, Zenon DEF Serving
<1>9. \A h \in held' : /\ h.task \in Tasks /\ req'[h.task] # NoRequest
                       /\ h.object \in objects' /\ AsksFor(req'[h.task], h.object)
  BY <1>2, <1>4, Zenon DEF Serving
<1>10. Owned(issued', objects') /\ code' = [u \in Tasks |-> code'[u]]
  BY Zenon DEF Serving
<1> QED
  BY <1>3, <1>7, <1>8, <1>9, <1>10, Zenon DEF Serving

(* A signature that is given to a caller was made by a private key on the token. *)
LEMMA GivenOwned ==
    ASSUME NEW r, NEW o \in objects, Served(r, objects), AsksFor(r, o), Owned(issued, objects)
    PROVE  Owned(Given(r, o), objects)
<1>1. CASE ~(r.op = "sign" /\ Signed(r, o) # {})
  BY <1>1, Zenon DEF Given
<1>2. CASE r.op = "sign" /\ Signed(r, o) # {}
  <2>1. Given(r, o) = Signed(r, o)
    BY <1>2, Zenon DEF Given
  <2>2. o.class = "Private"
    BY <1>2 DEF AsksFor, ClassOf
  <2>3. r.mechanism \in Mechanisms /\ (r.input = {} \/ \E i \in Inputs : r.input = {i})
    BY <1>2 DEF Served, Shaped
  <2>4. r.input # {}
    BY <1>2, Zenon DEF Signed, Prepared
  <2>5. PICK i \in Inputs : r.input = {i}
    BY <2>3, <2>4
  <2>6. Prepared(r) = Prepare(r.mechanism, i)
    BY <2>5 DEF Prepared
  <2>7. AtMostOne(Prepare(r.mechanism, i))
    BY <2>3, OneVerdict, Zenon
  <2>8. PICK q : Prepared(r) = {q}
    BY <1>2, <2>6, <2>7 DEF AtMostOne, Signed
  <2>9. Signed(r, o) = TokenSign(KeyOf(o), q)
    BY <2>8 DEF Signed
  <2>10. \A s \in Signed(r, o) : s = Signature(KeyOf(o), q)
    BY <2>9, Zenon DEF TokenSign
  <2>11. Signature(KeyOf(o), q).key = KeyOf(o)
    BY DEF Signature
  <2>12. Signed(r, o) = {Signature(KeyOf(o), q)}
    BY <1>2, <2>10
  <2> QED
    BY <2>1, <2>2, <2>10, <2>11, <2>12, Zenon DEF Owned, AtMostOne
<1> QED
  BY <1>1, <1>2, Zenon

LEMMA CallServes ==
    ASSUME Apart, Serving, NEW t \in Tasks, NEW r \in Requests, Call(t, r)
    PROVE  Serving'
<1>1. UNCHANGED <<objects, held, issued>> /\ req[t] = NoRequest
  BY Zenon DEF Call, provVars, initVars
<1>2. CASE Answer(t, "InvalidArgument") /\ UNCHANGED queue
  <2>1. /\ code' = [code EXCEPT ![t] = "InvalidArgument"]
        /\ req' = [req EXCEPT ![t] = NoRequest] /\ queue' = queue
    BY <1>2, Zenon DEF Answer
  <2>2. code = [u \in Tasks |-> code[u]]
    BY DEF Serving
  <2>3. code' = [u \in Tasks |-> code'[u]]
    BY <2>1, <2>2
  <2>4. t \notin Members(queue) /\ NoRepeats(queue) /\ \A h \in held : h.task # t
    BY <1>1, Zenon DEF Serving, Queued
  <2>5. Owned(issued', objects)
    BY <1>1, Zenon DEF Serving
  <2>6. Members(queue') \subseteq Members(queue) \ {t} /\ NoRepeats(queue')
    BY <2>1, <2>4, Zenon
  <2> QED
    BY <1>1, <2>1, <2>3, <2>4, <2>5, <2>6, HandlerEnds, Zenon
<1>3. CASE r.op # "verify" /\ req' = [req EXCEPT ![t] = r]
           /\ queue' = Append(queue, t) /\ UNCHANGED code
  <2>1. r # NoRequest
    BY RequestsTyped
  <2>2. Served(r, objects)
    BY <1>3, RequestShaped DEF Served
  <2> QED
    BY <1>1, <1>3, <2>1, <2>2, HandlerWaits, Zenon
<1>4. ASSUME NEW s \in {issued, {}}, r.op = "verify",
             req' = [req EXCEPT ![t] = [r EXCEPT !.signature = s]],
             queue' = Append(queue, t), UNCHANGED code
      PROVE  Serving'
  <2> DEFINE e == [r EXCEPT !.signature = s]
  <2>1. Owned(s, objects)
    BY <1>4, Zenon DEF Serving, Owned, AtMostOne
  <2>2. Shaped(e) /\ e.signature = s
    BY <1>4, RequestShaped, Zenon
  <2>3. e # NoRequest
    BY Zenon DEF Apart
  <2>4. req' = [req EXCEPT ![t] = e]
    BY <1>4
  <2> HIDE DEF e
  <2>5. Served(e, objects)
    BY <2>1, <2>2, Zenon DEF Served
  <2> QED
    BY <1>1, <1>4, <2>3, <2>4, <2>5, HandlerWaits, Zenon
<1> QED
  BY <1>2, <1>3, <1>4, Zenon DEF Call

LEMMA FindServes ==
    ASSUME Serving, NEW t \in Tasks, Find(t)
    PROVE  Serving'
<1>1. /\ held = {} /\ queue # <<>> /\ Head(queue) = t /\ queue' = Tail(queue)
      /\ UNCHANGED <<objects, issued>>
  BY Zenon DEF Find, provVars, initVars
<1>2. NoRepeats(queue)
  BY DEF Serving, Queued
<1>3. /\ t \in Members(queue) /\ NoRepeats(queue')
      /\ Members(queue') \subseteq Members(queue) \ {t}
  BY <1>1, <1>2, LeaveHead, Zenon
<1>4. Owned(issued', objects)
  BY <1>1, Zenon DEF Serving
<1>5. ASSUME NEW c, Answer(t, c), UNCHANGED held
      PROVE  Serving'
  <2>1. code' = [code EXCEPT ![t] = c] /\ req' = [req EXCEPT ![t] = NoRequest]
    BY <1>5, Zenon DEF Answer
  <2>2. code = [u \in Tasks |-> code[u]]
    BY DEF Serving
  <2>3. code' = [u \in Tasks |-> code'[u]]
    BY <2>1, <2>2
  <2>4. \A h \in held' : h \in held /\ h.task # t
    BY <1>1, <1>5
  <2> QED
    BY <1>1, <1>3, <1>4, <2>1, <2>3, <2>4, HandlerEnds, Zenon
<1>6. ASSUME NEW o \in Found(Visible, ClassOf(req[t].op), req[t].label),
             held' = {[task |-> t, object |-> o]}, UNCHANGED <<req, code>>
      PROVE  Serving'
  <2>1. o \in objects /\ AsksFor(req[t], o)
    BY DEF Found, Visible, AsksFor
  <2>2. req[t] # NoRequest
    BY <1>3, Zenon DEF Serving, Queued
  <2>3. \A h \in held' : h.task = t /\ h.object = o
    BY <1>6
  <2>4. Queued'
    <3>1. \A u \in Members(queue') : u # t /\ u \in Members(queue)
      BY <1>3
    <3>2. \A u \in Members(queue') : req'[u] # NoRequest
      BY <1>6, <3>1, Zenon DEF Serving, Queued
    <3>3. \A h \in held' : h.task \notin Members(queue')
      BY <2>3, <3>1, Zenon
    <3> QED
      BY <1>3, <3>2, <3>3, Zenon DEF Queued, Members, NoRepeats
  <2>5. \A h \in held' : /\ h.task \in Tasks /\ req'[h.task] # NoRequest
                         /\ h.object \in objects' /\ AsksFor(req'[h.task], h.object)
    BY <1>1, <1>6, <2>1, <2>2, <2>3, Zenon
  <2>6. /\ req' = [u \in Tasks |-> req'[u]] /\ code' = [u \in Tasks |-> code'[u]]
        /\ \A u \in Tasks : req'[u] = NoRequest \/ Served(req'[u], objects')
    BY <1>1, <1>6, Zenon DEF Serving
  <2> QED
    BY <1>1, <1>4, <2>4, <2>5, <2>6, Zenon DEF Serving
<1> QED
  BY <1>5, <1>6, Zenon DEF Find

LEMMA UseServes ==
    ASSUME Serving, NEW t \in Tasks, Use(t)
    PROVE  Serving'
<1>1. PICK h \in held :
         /\ h.task = t
         /\ \/ /\ Answer(t, Outcome(req[t], h.object))
               /\ issued' = Given(req[t], h.object)
            \/ /\ Answer(t, "Internal")
               /\ UNCHANGED issued
         /\ held' = {}
         /\ UNCHANGED <<provVars, proxy, queue>>
  BY Zenon DEF Use
<1>2. UNCHANGED <<objects, queue>> /\ held' = {}
  BY <1>1, Zenon DEF provVars, initVars
<1>3. /\ t \notin Members(queue) /\ NoRepeats(queue) /\ req[t] # NoRequest
      /\ h.object \in objects /\ AsksFor(req[t], h.object)
      /\ Served(req[t], objects) /\ Owned(issued, objects)
  BY <1>1, Zenon DEF Serving, Queued
<1>4. Owned(issued', objects)
  BY <1>1, <1>3, GivenOwned, Zenon
<1>5. PICK c : Answer(t, c)
  BY <1>1, Zenon
<1>6. code' = [code EXCEPT ![t] = c] /\ req' = [req EXCEPT ![t] = NoRequest]
  BY <1>5, Zenon DEF Answer
<1>7. code = [u \in Tasks |-> code[u]]
  BY DEF Serving
<1>8. code' = [u \in Tasks |-> code'[u]]
  BY <1>6, <1>7
<1>9. NoRepeats(queue') /\ Members(queue') \subseteq Members(queue) \ {t}
  BY <1>2, <1>3, Zenon
<1>10. \A x \in held' : x \in held /\ x.task # t
  BY <1>2
<1> QED
  BY <1>2, <1>4, <1>6, <1>8, <1>9, <1>10, HandlerEnds, Zenon

LEMMA DropServes ==
    ASSUME Serving, NEW t \in Tasks, Drop(t)
    PROVE  Serving'
<1>1. PICK n \in DOMAIN queue :
         /\ queue[n] = t
         /\ queue' = SubSeq(queue, 1, n - 1) \o SubSeq(queue, n + 1, Len(queue))
  BY Zenon DEF Drop
<1>2. UNCHANGED <<objects, held, code, issued>> /\ req' = [req EXCEPT ![t] = NoRequest]
  BY Zenon DEF Drop, provVars, initVars
<1>3. NoRepeats(queue)
  BY Zenon DEF Serving, Queued
<1>4. NoRepeats(queue') /\ Members(queue') \subseteq Members(queue) \ {t}
  BY <1>1, <1>3, LeaveQueue, Zenon
<1>5. t \in Members(queue)
  BY <1>1, Zenon DEF Members
<1>6. \A h \in held' : h \in held /\ h.task # t
  BY <1>2, <1>5, Zenon DEF Serving, Queued
<1>7. Owned(issued', objects) /\ code' = [u \in Tasks |-> code'[u]]
  BY <1>2, Zenon DEF Serving
<1> QED
  BY <1>2, <1>4, <1>6, <1>7, HandlerEnds, Zenon

LEMMA ServingKept ==
    ASSUME Apart, Serving, [DeployNext]_deployVars
    PROVE  Serving'
<1>1. CASE ProvNext /\ UNCHANGED singleVars
  <2>1. objects \subseteq objects'
    <3>1. CASE Kept
      BY <3>1 DEF Kept
    <3>2. CASE Torn
      BY <3>2 DEF Torn
    <3>3. ASSUME NEW label \in Labels, Ensured(label)
          PROVE  objects \subseteq objects'
      BY <3>3 DEF Ensured
    <3> QED
      BY <1>1, <3>1, <3>2, <3>3, TokenStep
  <2>2. UNCHANGED <<queue, held, req, code, issued>>
    BY <1>1, Zenon DEF singleVars, servVars
  <2>3. code' = [t \in Tasks |-> code'[t]]
    BY <2>2, Zenon DEF Serving
  <2> QED
    BY <2>1, <2>2, <2>3, TokenGrows
<1>2. ASSUME UNCHANGED <<objects, queue, held, req, issued>>,
             code' = [t \in Tasks |-> code'[t]]
      PROVE  Serving'
  BY <1>2, TokenGrows
<1>3. CASE SingleNext
  <2>1. CASE Connect \/ Signal \/ Exit
    <3>1. UNCHANGED <<objects, queue, held, req, issued, code>>
      BY <2>1, Zenon DEF Connect, Signal, Exit, provVars, initVars, servVars
    <3>2. code' = [t \in Tasks |-> code'[t]]
      BY <3>1, Zenon DEF Serving
    <3> QED
      BY <1>2, <3>1, <3>2, Zenon
  <2>2. ASSUME NEW t \in Tasks, Return(t)
        PROVE  Serving'
    <3>1. /\ UNCHANGED <<objects, queue, held, req, issued>>
          /\ code' = [code EXCEPT ![t] = "none"]
      BY <2>2, Zenon DEF Return, provVars, initVars
    <3>2. code = [u \in Tasks |-> code[u]]
      BY DEF Serving
    <3>3. code' = [u \in Tasks |-> code'[u]]
      BY <3>1, <3>2
    <3> QED
      BY <1>2, <3>1, <3>3, Zenon
  <2> QED
    BY <1>3, <2>1, <2>2, CallServes, FindServes, UseServes, DropServes, Zenon DEF SingleNext
<1>4. CASE UNCHANGED <<provVars, singleVars>>
  <2>1. UNCHANGED <<objects, queue, held, req, issued, code>>
    BY <1>4, Zenon DEF provVars, initVars, singleVars, servVars
  <2>2. code' = [t \in Tasks |-> code'[t]]
    BY <2>1, Zenon DEF Serving
  <2> QED
    BY <1>2, <2>1, <2>2, Zenon
<1>5. CeilingNext => UNCHANGED provVars
  BY Zenon DEF CeilingNext, RunPoint, Stop, Join, Prepares, Wait, Leave
<1> QED
  BY <1>1, <1>3, <1>4, <1>5, Zenon DEF DeployNext, deployVars

LEMMA InitServing == DeployInit => Serving
<1> SUFFICES ASSUME DeployInit
             PROVE  Serving
  OBVIOUS
<1>1. /\ queue = <<>> /\ held = {} /\ issued = {}
      /\ req = [t \in Tasks |-> NoRequest] /\ code = [t \in Tasks |-> "none"]
  BY DEF DeployInit, SingleInit
<1>2. NoRepeats(queue) /\ Members(queue) = {}
  BY <1>1 DEF NoRepeats, Members
<1>3. Queued
  BY <1>1, <1>2 DEF Queued
<1>4. Owned(issued, objects)
  BY <1>1 DEF Owned, AtMostOne
<1> QED
  BY <1>1, <1>3, <1>4, Zenon DEF Serving

-----------------------------------------------------------------------------
(* What a passed health check promises to the callers. *)

\* token-check looks for every demo key.
AllExpected ==
    Labels \subseteq ExpectedSecrets
                        \cup {ExpectedKeypairs[n] : n \in DOMAIN ExpectedKeypairs}

LEMMA HealthyReady ==
    ASSUME AllExpected, HealthyMeansKeys, healthy, NEW label \in Labels
    PROVE  Ready(label)
BY Zenon DEF AllExpected, HealthyMeansKeys, Ready

(* A key that is complete is found by whoever looks for one of its objects.   *)
LEMMA ReadyIsFound ==
    ASSUME NEW label, Ready(label), NEW class, Found(Visible, class, label) = {},
           NEW o \in Generated(label, 1)
    PROVE  o.class # class
<1>1. PICK x \in Visible : Generated(label, x.id) \subseteq Visible
  BY Zenon DEF Ready
<1>2. \A c, i : Object(c, label, i).class = c /\ Object(c, label, i).label = label
  BY Zenon DEF Object
<1>3. \E c : o = Object(c, label, 1) /\ Object(c, label, x.id) \in Generated(label, x.id)
  <2>1. CASE label = "AES"
    <3>1. \A i : Generated(label, i) = {Object("Secret", label, i)}
      BY <2>1, Zenon DEF Generated
    <3>2. o \in {Object("Secret", label, 1)}
      BY <3>1, Zenon
    <3> QED
      BY <3>1, <3>2, Zenon
  <2>2. CASE label # "AES"
    <3>1. \A i : Generated(label, i) = {Object("Private", label, i), Object("Public", label, i)}
      BY <2>2, Zenon DEF Generated, Private, Public
    <3>2. o \in {Object("Private", label, 1), Object("Public", label, 1)}
      BY <3>1, Zenon
    <3> QED
      BY <3>1, <3>2, Zenon
  <2> QED
    BY <2>1, <2>2
<1>4. PICK c : o = Object(c, label, 1) /\ Object(c, label, x.id) \in Visible
  BY <1>1, <1>3, Zenon
<1>5. Object(c, label, x.id).class = o.class /\ Object(c, label, x.id).label = label
  <2>1. Object(c, label, x.id).class = c /\ Object(c, label, x.id).label = label
    BY <1>2, Zenon
  <2>2. Object(c, label, 1).class = c
    BY <1>2, Zenon
  <2>3. o.class = Object(c, label, 1).class
    BY <1>4, Zenon
  <2> QED
    BY <2>1, <2>2, <2>3, Zenon
<1> QED
  BY <1>4, <1>5, Zenon DEF Found

(* As long as no key is there twice, the public key that is found belongs to  *)
(* the private key that has signed.                                           *)
LEMMA OnePublicKey ==
    ASSUME Made, ~Duplicated, NEW label, Ready(label),
           NEW p \in objects, p.class = "Private", p.label = label,
           NEW o \in objects, o.class = "Public", o.label = label
    PROVE  KeyOf(o) = KeyOf(p)
<1>1. label # "AES"
  <2> SUFFICES ASSUME label = "AES"
               PROVE  FALSE
    OBVIOUS
  <2>1. p = Object("Secret", p.label, p.id)
    BY Zenon DEF Made, Generated
  <2>2. Object("Secret", p.label, p.id).class = "Secret"
    BY Zenon DEF Object
  <2> QED
    BY <2>1, <2>2, Zenon
<1>2. PICK x \in Visible : Generated(label, x.id) \subseteq Visible
  BY Zenon DEF Ready
<1>3. Private(label, x.id) \in objects /\ Public(label, x.id) \in objects
  BY <1>1, <1>2 DEF Generated, Visible
<1>4. /\ Private(label, x.id).class = "Private" /\ Private(label, x.id).label = label
      /\ Private(label, x.id).id = x.id
      /\ Public(label, x.id).class = "Public" /\ Public(label, x.id).label = label
      /\ Public(label, x.id).id = x.id
  BY Zenon DEF Private, Public, Object
<1>5. p = Private(label, x.id)
  BY <1>3, <1>4 DEF Duplicated
<1>6. o = Public(label, x.id)
  BY <1>3, <1>4 DEF Duplicated
<1> QED
  BY <1>4, <1>5, <1>6, Zenon DEF KeyOf

(* Only the lock's holder and the first in the queue are answered.            *)
LEMMA WhoAnswers ==
    ASSUME Serving, [DeployNext]_deployVars, NEW t \in Tasks, Answered(t)
    PROVE  Find(t) \/ Use(t)
<1>1. /\ code = [u \in Tasks |-> code[u]]
      /\ code'[t] # code[t] /\ req[t] # NoRequest /\ code[t] = "none"
  BY DEF Answered, Serving
<1>2. \A u \in Tasks : \A c : code' = [code EXCEPT ![u] = c] => u = t
  BY <1>1
<1>3. ASSUME NEW u \in Tasks, Find(u) \/ Use(u)
      PROVE  u = t
  <2>1. code' = code \/ \E c : code' = [code EXCEPT ![u] = c]
    BY <1>3, Zenon DEF Find, Use, Answer
  <2> QED
    BY <1>1, <1>2, <2>1, Zenon
<1>4. ASSUME NEW u \in Tasks, NEW r \in Requests, Call(u, r)
      PROVE  FALSE
  <2>1. code' = code \/ (req[u] = NoRequest /\ \E c : code' = [code EXCEPT ![u] = c])
    BY <1>4, Zenon DEF Call, Answer
  <2> QED
    BY <1>1, <1>2, <2>1, Zenon
<1>5. ASSUME NEW u \in Tasks, Return(u) \/ Drop(u)
      PROVE  FALSE
  <2>1. code' = code \/ (code[u] # "none" /\ code' = [code EXCEPT ![u] = "none"])
    BY <1>5, Zenon DEF Return, Drop
  <2> QED
    BY <1>1, <1>2, <2>1, Zenon
<1>6. ~(Connect \/ Signal \/ Exit) /\ ~UNCHANGED singleVars
  BY <1>1, Zenon DEF Connect, Signal, Exit, servVars, singleVars
<1>7. SingleNext
  BY <1>6, Zenon DEF DeployNext, deployVars
<1> QED
  BY <1>3, <1>4, <1>5, <1>6, <1>7, Zenon DEF SingleNext

LEMMA HealthyStep ==
    ASSUME AllExpected, IInv, Serving, [DeployNext]_deployVars,
           NEW t \in Tasks, Answered(t), healthy
    PROVE  /\ code'[t] = "NotFound" =>
                 \A o \in Generated(req[t].label, 1) : o.class # ClassOf(req[t].op)
           /\ code'[t] = "Invalid" => Duplicated \/ ~Genuine(req[t])
<1>1. /\ Served(req[t], objects) /\ req[t].label \in Labels
      /\ code = [u \in Tasks |-> code[u]]
  BY Zenon DEF Answered, Serving, Served, Shaped
<1>2. Ready(req[t].label)
  BY <1>1, HealthyReady, Zenon DEF IInv
<1>3. \A c : Answer(t, c) => code'[t] = c
  <2>1. \A c : [code EXCEPT ![t] = c][t] = c
    BY <1>1
  <2> QED
    BY <2>1, Zenon DEF Answer
<1>4. CASE Find(t)
  <2>1. \/ code' = code
        \/ Found(Visible, ClassOf(req[t].op), req[t].label) = {} /\ Answer(t, "NotFound")
        \/ Answer(t, "Internal")
    BY <1>4, Zenon DEF Find
  <2>2. code' # code
    BY DEF Answered
  <2>3. code'[t] # "Invalid"
    BY <1>3, <2>1, <2>2
  <2>4. code'[t] = "NotFound" => Found(Visible, ClassOf(req[t].op), req[t].label) = {}
    BY <1>3, <2>1, <2>2
  <2> QED
    BY <1>2, <2>3, <2>4, ReadyIsFound, Zenon
<1>5. CASE Use(t)
  <2>1. PICK h \in held : /\ h.task = t
                          /\ Answer(t, Outcome(req[t], h.object)) \/ Answer(t, "Internal")
    BY <1>5, Zenon DEF Use
  <2>2. h.object \in objects /\ AsksFor(req[t], h.object)
    BY <2>1, Zenon DEF Serving
  <2>3. /\ Outcome(req[t], h.object) # "NotFound"
        /\ Outcome(req[t], h.object) = "Invalid" =>
              req[t].op = "verify" /\ Verified(req[t], h.object) = {FALSE}
    BY <1>1, Outcomes, Zenon DEF Served
  <2>4. code'[t] # "NotFound"
    BY <1>3, <2>1, <2>3
  <2>5. ASSUME code'[t] = "Invalid", ~Duplicated, Genuine(req[t])
        PROVE  FALSE
    <3>1. req[t].op = "verify" /\ Verified(req[t], h.object) = {FALSE}
      BY <1>3, <2>1, <2>3, <2>5, Zenon
    <3>2. PICK s \in req[t].signature, i \in req[t].input :
             s.key.type = req[t].label /\ TRUE \in VerifyPublic(s.key, req[t].mechanism, i, s)
      BY <2>5, Zenon DEF Genuine
    <3>3. req[t].mechanism \in Mechanisms /\ i \in Inputs /\ req[t].input = {i}
      BY <1>1, <3>1, <3>2 DEF Served, Shaped
    <3>4. Owned(req[t].signature, objects)
      BY <1>1, <3>1, Zenon DEF Served
    <3>5. req[t].signature = {s}
      BY <3>2, <3>4, Zenon DEF Owned, AtMostOne
    <3>6. PICK p \in objects : p.class = "Private" /\ s.key = KeyOf(p)
      BY <3>2, <3>4, Zenon DEF Owned
    <3>7. p.label = req[t].label
      <4>1. KeyOf(p).type = p.label
        BY Zenon DEF KeyOf
      <4> QED
        BY <3>2, <3>6, <4>1, Zenon
    <3>8. h.object.class = "Public" /\ h.object.label = req[t].label
      BY <2>2, <3>1 DEF AsksFor, ClassOf
    <3>9. KeyOf(h.object) = s.key
      BY <1>2, <2>2, <2>5, <3>6, <3>7, <3>8, OnePublicKey, Zenon DEF IInv
    <3>10. Verified(req[t], h.object) = VerifyPublic(s.key, req[t].mechanism, i, s)
      <4>1. Sent(req[t]) = {s}
        BY <3>5 DEF Sent
      <4>2. Verified(req[t], h.object) = VerifyPublic(KeyOf(h.object), req[t].mechanism, i, s)
        BY <3>3, <4>1, AskedOnce, Zenon
      <4> QED
        BY <3>9, <4>2, Zenon
    <3> QED
      BY <3>1, <3>2, <3>10, Zenon
  <2> QED
    BY <2>4, <2>5, Zenon
<1> QED
  BY <1>4, <1>5, WhoAnswers, Zenon

(* A health check that has passed is a promise to every later request, for any    *)
(* number of handlers and any keys that token-check covers: no handler finds a    *)
(* key missing, whatever the init container does meanwhile, and a signature that  *)
(* the proxy gave and that verify_public accepts is not refused by the token,     *)
(* unless a killed run has left a second public key.                              *)
THEOREM HealthyAnswersHold ==
    ASSUME AllExpected, Apart
    PROVE  DeploySpec => HealthyAnswers
<1>1. Serving /\ [DeployNext]_deployVars => Serving'
  BY ServingKept
<1>2. IInv /\ Serving /\ [DeployNext]_deployVars =>
         [\A t \in Tasks : Answered(t) /\ healthy =>
             /\ code'[t] = "NotFound" =>
                   \A o \in Generated(req[t].label, 1) : o.class # ClassOf(req[t].op)
             /\ code'[t] = "Invalid" => Duplicated \/ ~Genuine(req[t])]_deployVars
  BY HealthyStep, Zenon
<1> QED
  BY <1>1, <1>2, InitServing, AlwaysIInv, PTL DEF DeploySpec, HealthyAnswers
=============================================================================
