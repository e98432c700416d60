------------------------------- MODULE Encryptor -------------------------------
(***************************************************************************)
(* crypto::Encryptor (src/tcprelay/encryptor_openssl.cc): a stream cipher  *)
(* context. Bytes are 0..Base-1. What OpenSSL computes is abstracted to a  *)
(* key stream that depends on the initialisation vector and on how many    *)
(* bytes the context has already processed: a context that is one byte off *)
(* the sender's produces garbage, as the real one does.                    *)
(***************************************************************************)
EXTENDS Naturals, Sequences

CONSTANTS Base,           \* 256 in the code
          KeyStream(_, _) \* KeyStream(iv, i): what byte i is masked with

ASSUME BaseAssumption == Base \in Nat \ {0}

Byte == 0..(Base - 1)

\* Encryptor::Init with the flag do_encrypt_; pos counts the bytes processed.
NewEncryptor(iv, doEncrypt) == [iv |-> iv, do_encrypt |-> doEncrypt, pos |-> 0]

\* DoCrypt: every byte is masked by, or freed from, its place of the stream.
Crypt(e, input) ==
  [i \in 1..Len(input) |->
     LET k == KeyStream(e.iv, e.pos + i) % Base IN
     IF e.do_encrypt THEN (input[i] + k) % Base
                     ELSE (input[i] + (Base - k)) % Base]

\* Update moves the context on by the length of its input.
Advance(e, input) == [e EXCEPT !.pos = @ + Len(input)]
===============================================================================
