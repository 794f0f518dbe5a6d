-------------------------------- MODULE Crypto --------------------------------
(***************************************************************************)
(* What the proxy makes of a signature request (proxy/src/crypto.rs): the  *)
(* PKCS#11 operation that the token executes, the check of a signature in  *)
(* this process, and the point inside a CKA_EC_POINT.                      *)
(*                                                                         *)
(* A byte string is known by what it was made from: a message, how often   *)
(* it was hashed, and whether a DigestInfo was put around the digest.  A   *)
(* Result is a set: its one element, or empty for an error.                *)
(***************************************************************************)
EXTENDS Naturals

CONSTANTS
    Messages,   \* messages that callers sign
    KeyIds,     \* key pairs
    Bytes       \* bound: what a coordinate may begin with

ASSUME BytesTyped == Bytes \subseteq 0..255

Mechanisms == {"EcdsaSha256", "RsaPkcsSha256", "RsaPssSha256", "Unspecified", "Unknown"}

\* The bytes of a message, hashed n times, with a DigestInfo or without.
String(m, n, wrapped) == [of |-> m, hashed |-> n, wrapped |-> wrapped]

Raw(m)        == String(m, 0, FALSE)
Sha256(b)     == String(b.of, b.hashed + 1, b.wrapped)
DigestInfo(b) == String(b.of, b.hashed, TRUE)
Stripped(b)   == String(b.of, b.hashed, FALSE)

\* SigningInput: the message, its digest, or a digest of the wrong length.
Inputs == [kind : {"Message"}, bytes : {Raw(m) : m \in Messages}]
             \cup [kind : {"Digest"}, bytes : {Sha256(Raw(m)) : m \in Messages}
                                                 \cup {Raw(m) : m \in Messages}]

\* check_digest_len: only what was hashed has the length of a digest.
DigestLen(b) == b.hashed > 0 /\ ~b.wrapped

-----------------------------------------------------------------------------
(* prepare. *)

Op(algorithm, payload) == [algorithm |-> algorithm, payload |-> payload]

FromMessage(mechanism, message) ==
    CASE mechanism = "EcdsaSha256"   -> {Op("Ecdsa", Sha256(message))}
      [] mechanism = "RsaPkcsSha256" -> {Op("Sha256RsaPkcs", message)}
      [] mechanism = "RsaPssSha256"  -> {Op("Sha256RsaPkcsPss", message)}
      [] OTHER                       -> {}

\* Mutant: the digest goes to the mechanism that hashes what it is given.
FromDigest_Rehashed(mechanism, digest) ==
    CASE mechanism = "EcdsaSha256"   -> {Op("Ecdsa", digest)}
      [] mechanism = "RsaPkcsSha256" -> {Op("Sha256RsaPkcs", digest)}
      [] mechanism = "RsaPssSha256"  -> {Op("RsaPkcsPss", digest)}
      [] OTHER                       -> {}

FromDigest(mechanism, digest) ==
    CASE mechanism = "EcdsaSha256"   -> {Op("Ecdsa", digest)}
      [] mechanism = "RsaPkcsSha256" -> {Op("RsaPkcs", DigestInfo(digest))}
      [] mechanism = "RsaPssSha256"  -> {Op("RsaPkcsPss", digest)}
      [] OTHER                       -> {}

Prepare(mechanism, input) ==
    IF input.kind = "Message" THEN FromMessage(mechanism, input.bytes)
    ELSE {op \in FromDigest(mechanism, input.bytes) : DigestLen(input.bytes)}

-----------------------------------------------------------------------------
(* The token (external): C_Sign and C_Verify with a prepared operation. *)

KeyTypes == {"EC", "RSA"}
Keys     == [type : KeyTypes, id : KeyIds]

TypeOf(algorithm) == IF algorithm = "Ecdsa" THEN "EC" ELSE "RSA"

Scheme(algorithm) ==
    CASE algorithm = "Ecdsa" -> "ecdsa"
      [] algorithm \in {"RsaPkcs", "Sha256RsaPkcs"} -> "pkcs1"
      [] algorithm \in {"RsaPkcsPss", "Sha256RsaPkcsPss"} -> "pss"

\* What ends up under the signature: three of the mechanisms take it as it is.
Covered(op) ==
    CASE op.algorithm = "Sha256RsaPkcs"    -> DigestInfo(Sha256(op.payload))
      [] op.algorithm = "Sha256RsaPkcsPss" -> Sha256(op.payload)
      [] OTHER                             -> op.payload

Signature(key, op) == [key |-> key, scheme |-> Scheme(op.algorithm), covers |-> Covered(op)]

\* A key of the other type is an error of the call, in either direction.
TokenSign(key, op) == {s \in {Signature(key, op)} : key.type = TypeOf(op.algorithm)}

TokenVerify(key, op, signature) ==
    {valid \in {signature = Signature(key, op)} : key.type = TypeOf(op.algorithm)}

-----------------------------------------------------------------------------
(* verify_public: the same question, answered from the public key alone. *)

DigestOf(input) ==
    IF input.kind = "Message" THEN {Sha256(input.bytes)}
    ELSE {b \in {input.bytes} : DigestLen(b)}

\* ring for a message, p256 for a digest.
VerifyEcdsa(key, digest, signature) ==
    {valid \in {signature = [key |-> key, scheme |-> "ecdsa", covers |-> digest]} :
        key.type = "EC"}

\* The rsa crate puts the DigestInfo around the digest itself.
VerifyRsa(key, digest, signature, pss) ==
    {valid \in {signature = IF pss THEN [key |-> key, scheme |-> "pss", covers |-> digest]
                            ELSE [key |-> key, scheme |-> "pkcs1",
                                  covers |-> DigestInfo(digest)]} :
        key.type = "RSA"}

VerifyPublic(key, mechanism, input, signature) ==
    UNION {CASE mechanism = "EcdsaSha256"   -> VerifyEcdsa(key, d, signature)
             [] mechanism = "RsaPkcsSha256" -> VerifyRsa(key, d, signature, FALSE)
             [] mechanism = "RsaPssSha256"  -> VerifyRsa(key, d, signature, TRUE)
             [] OTHER                       -> {} : d \in DigestOf(input)}

\* PreparedOperation::verification_digest.
VerificationDigest(op) ==
    CASE op.algorithm \in {"Ecdsa", "RsaPkcsPss"} -> {op.payload}
      [] op.algorithm \in {"Sha256RsaPkcs", "Sha256RsaPkcsPss"} -> {Sha256(op.payload)}
      [] op.algorithm = "RsaPkcs" ->
            {Stripped(b) : b \in {c \in {op.payload} : c.wrapped}}

-----------------------------------------------------------------------------
(* unwrap_der_octet_string, on a value of `len` bytes that begins with b0, b1, b2,  *)
(* and in which the point begins at `point`.  The result is the part it takes for   *)
(* the point: its first byte and its length.                                        *)

Part(value, offset, n) ==
    {p \in {[from |-> offset, n |-> n]} : offset + n <= value.len}

\* Mutant: every value is taken for an OCTET STRING.
Unwrap_AlwaysDer(value) ==
    CASE value.len > 1 /\ value.b0 = 4 /\ value.b1 < 128 -> Part(value, 2, value.b1)
      [] value.len > 2 /\ value.b0 = 4 /\ value.b1 = 129 -> Part(value, 3, value.b2)
      [] OTHER -> {}

Unwrap(value) ==
    CASE value.len = 65 /\ value.b0 = 4 -> Part(value, 0, 65)
      [] value.len # 65 /\ value.len > 1 /\ value.b0 = 4 /\ value.b1 < 128 ->
            Part(value, 2, value.b1)
      [] value.len # 65 /\ value.len > 2 /\ value.b0 = 4 /\ value.b1 = 129 ->
            Part(value, 3, value.b2)
      [] OTHER -> {}

(* public_key_to_spki_der: the key as the attributes of its object describe it.     *)

\* The values that modules return for an uncompressed P-256 point, which begins with 4.
BarePoints == {[len |-> 65, b0 |-> 4, b1 |-> b, b2 |-> c, point |-> 0] : b, c \in Bytes}
ShortForm  == {[len |-> 67, b0 |-> 4, b1 |-> 65, b2 |-> 4, point |-> 2]}
LongForm   == {[len |-> 68, b0 |-> 4, b1 |-> 129, b2 |-> 65, point |-> 3]}

\* C_GetAttributeValue (external): SoftHSM wraps the point in the short form.
EcPoint == ShortForm
RsaAttributes == {"Modulus", "PublicExponent"}

\* PublicKey::from_sec1_bytes (external): the bytes have to be a point of the curve.
\* Those of the point are; the same bytes out of place are not.
FromSec1(value, part) == part = [from |-> value.point, n |-> 65]

\* ec_spki.
EcSpki(value) == {"EC" : p \in {q \in Unwrap(value) : FromSec1(value, q)}}

RsaSpki == {type \in {"RSA"} : {"Modulus", "PublicExponent"} \subseteq RsaAttributes}

SpkiDer(type) ==
    CASE type = "EC" -> UNION {EcSpki(v) : v \in EcPoint} [] type = "RSA" -> RsaSpki [] OTHER -> {}

-----------------------------------------------------------------------------
(* What the two ways to verify, and the two forms of a point, should amount to. *)

SameContent(i, j) == DigestOf(i) \cap DigestOf(j) # {}

\* verify_public answers what C_Verify would with what prepare makes of the request,
\* and yes exactly if key, mechanism and content are those that were signed.
Agreement ==
    \A m \in Mechanisms, i \in Inputs : \A op \in Prepare(m, i) :
        /\ VerificationDigest(op) = DigestOf(i)
        /\ \A key, other \in Keys, n \in Mechanisms, j \in Inputs :
              \A s \in TokenSign(key, op) :
                 /\ VerifyPublic(other, n, j, s)
                       = UNION {TokenVerify(other, q, s) : q \in Prepare(n, j)}
                 /\ TRUE \in VerifyPublic(other, n, j, s)
                       <=> other = key /\ n = m /\ SameContent(i, j)

\* The key is made of each form, and of no value that was cut short: not of one cut to
\* the length of a bare point either, which unwrap_der_octet_string takes for one.
EveryPoint ==
    \A v \in BarePoints \cup ShortForm \cup LongForm :
        /\ EcSpki(v) = {"EC"}
        /\ \A n \in 0..(v.len - 1) : EcSpki([v EXCEPT !.len = n]) = {}
===============================================================================
