---------------------------- MODULE MCDeployment ----------------------------
(* A small instance of Deployment for TLC. *)
EXTENDS Deployment

MCDemoKeys == <<"EC", "AES">>
MCKeypairs == <<"EC">>

Hello == {[kind |-> "Message", bytes |-> Raw("hello")]}
HelloDigest == {[kind |-> "Digest", bytes |-> Sha256(Raw("hello"))]}

\* A signature over a digest, checked by message; a ciphertext that is not authentic,
\* and a request that is refused at once: one for each class of object.
MCRequests ==
    {[op |-> "sign", label |-> "EC", mechanism |-> "EcdsaSha256",
      input |-> HelloDigest],
     [op |-> "verify", label |-> "EC", mechanism |-> "EcdsaSha256", input |-> Hello,
      signature |-> {}],
     [op |-> "decrypt", label |-> "AES", gcm |-> TRUE, iv |-> TRUE, fits |-> TRUE,
      authentic |-> FALSE],
     [op |-> "encrypt", label |-> "AES", gcm |-> FALSE, fits |-> TRUE]}
=============================================================================
