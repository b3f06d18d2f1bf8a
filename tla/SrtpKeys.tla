------------------------------ MODULE SrtpKeys ------------------------------
(***************************************************************************)
(* libsrtp_decrypt/srtp.c: srtp_setkey and srtp_setkeystring, the          *)
(* derivation of a session's six keys from a master key, at the two ends   *)
(* of a one-way stream that is keyed again from time to time.              *)
(*                                                                         *)
(* The pseudo-random function is ideal: a derived key is the master key    *)
(* and the 16-byte block that the counter mode begins with.                *)
(***************************************************************************)
EXTENDS Integers, Sequences, FiniteSets

CONSTANTS
  Ends,        \* the two sessions of a stream
  Sender,      \* the one that sends reports
  Masters,     \* master keys, each with its salt
  None,        \* no master
  Base,        \* the number of values of a byte
  XorByte(_, _), \* ^ on bytes
  Salt,        \* the salt of a master, 14 bytes
  KeyLengths,  \* the lengths of keys that are tried
  Batches,     \* how many reports are sent in a row
  Indexes,     \* bound: the indexes at which something else happens
  MaxFailures  \* bound on the calls that fail half-way

Byte == 0..(Base - 1)

ASSUME EndsAssumption == Sender \in Ends
ASSUME MastersAssumption == Salt \in [Masters -> [0..13 -> Byte]]
ASSUME ByteAssumption ==
  /\ Base \in Nat /\ Base > 5
  /\ \A x, y \in Byte : XorByte(x, y) \in Byte
  /\ \A x \in Byte : XorByte(x, 0) = x
  /\ \A x, y, z \in Byte : XorByte(x, y) = XorByte(x, z) => y = z
ASSUME IndexAssumption == Indexes \subseteq Nat /\ 0 \in Indexes
ASSUME BoundsAssumption == Batches \subseteq Nat /\ MaxFailures \in Nat

VARIABLES
  keys,        \* the six keys of each session, by their label
  rtcp_index,  \* of each session
  master,      \* history: the master that the last successful call was given,
               \* None if there was none or a later call failed half-way
  failures     \* history: the calls that failed half-way

vars == <<keys, rtcp_index, master, failures>>

\* SRTP_CRYPT, SRTP_AUTH, SRTP_SALT, SRTCP_CRYPT, SRTCP_AUTH, SRTCP_SALT
Labels == 0..5
RtpLabels == 0..2

KeyLength == 16
SaltLength == 14

-----------------------------------------------------------------------------
(* srtp_setkey *)

\* Mutant of do_derive: the label is left out.
do_deriveUnlabelled(salt, r, label) ==
  [b \in 0..15 |->
     XorByte(IF b < SaltLength THEN salt[b] ELSE 0,
             IF b > 15 - Len(r) THEN r[b - 15 + Len(r)] ELSE 0)]

\* do_derive: the first block that is encrypted, the salt with the label XORed
\* in before its last bytes and r at the end of the block.
do_derive(salt, r, label) ==
  [b \in 0..15 |->
     XorByte(IF b < SaltLength THEN salt[b] ELSE 0,
             IF b = 13 - Len(r) THEN label
             ELSE IF b > 15 - Len(r) THEN r[b - 15 + Len(r)] ELSE 0)]

\* The counter of the next block: gcry_cipher_encrypt adds 1 to all 16 bytes.
NextBlock(iv) ==
  [b \in 0..15 |->
     IF \E c \in (b + 1)..15 : iv[c] # Base - 1 THEN iv[b]
     ELSE IF iv[b] = Base - 1 THEN 0 ELSE iv[b] + 1]

\* Mutant of RtpR: the derivation follows the index of the session.
RtpRFollows(index) == <<0, 0, 0, 0, 0, index % Base>>

\* r for the RTP keys: the derivation rate is 0.
RtpR(index) == <<0, 0, 0, 0, 0, 0>>

\* r for the RTCP keys: htonl(s->rtcp_index)
RtcpR(index) ==
  <<index \div (Base * Base * Base), (index \div (Base * Base)) % Base,
    (index \div Base) % Base, index % Base>>

\* The key of a label: the pseudo-random function is keyed with the bytes of the
\* master key that it is given, and begins at the block of do_derive.
Derived(e, m, keylen, label) ==
  <<<<m, keylen>>,
    do_derive(Salt[m], IF label \in RtpLabels THEN RtpR(rtcp_index[e])
                                              ELSE RtcpR(rtcp_index[e]), label)>>

\* The keys after the first n derivations.
Rekeyed(e, m, keylen, n) ==
  [label \in Labels |-> IF label < n THEN Derived(e, m, keylen, label)
                                     ELSE keys[e][label]]

\* What gcry_cipher_setkey accepts for AES.
CipherKeyLengths == {16, 24, 32}

\* Otherwise EINVAL, and nothing changes.
GoodLengths(keylen, saltlen) == saltlen = SaltLength /\ keylen \in CipherKeyLengths

srtp_setkey(e, m, keylen, saltlen) ==
  /\ GoodLengths(keylen, saltlen)
  /\ keys' = [keys EXCEPT ![e] = Rekeyed(e, m, keylen, 6)]
  /\ master' = [master EXCEPT ![e] = <<m, keylen>>]
  /\ UNCHANGED <<rtcp_index, failures>>

\* One of the derivations fails (-1): the keys before it are the new ones.  A
\* salt (label 2 or 5) is written in place, so that it is lost too.
srtp_setkeyFails(e, m, keylen, saltlen) ==
  /\ GoodLengths(keylen, saltlen)
  /\ failures < MaxFailures
  /\ failures' = failures + 1
  /\ \E n \in 0..5 :
       \/ keys' = [keys EXCEPT ![e] = Rekeyed(e, m, keylen, n)]
       \/ /\ n \in {2, 5}
          /\ keys' = [keys EXCEPT ![e] =
                        [Rekeyed(e, m, keylen, n) EXCEPT ![n] = <<None>>]]
  /\ master' = [master EXCEPT ![e] = None]
  /\ UNCHANGED rtcp_index

-----------------------------------------------------------------------------
(* srtp_setkeystring *)

\* hexstring of a string with that many characters: the bytes, or -1.
hexstring(chars, hexdigits, outlen) ==
  IF chars > 2 * outlen \/ chars % 2 = 1 \/ ~hexdigits THEN -1 ELSE chars \div 2

\* EINVAL for what is not hexadecimal or too long, else srtp_setkey, with a key of
\* 16 bytes at most.
srtp_setkeystring(e, m, keychars, saltchars) ==
  srtp_setkey(e, m, hexstring(keychars, TRUE, KeyLength),
                    hexstring(saltchars, TRUE, SaltLength))

-----------------------------------------------------------------------------
\* The index has 31 bits.
Wrap == (Base * Base * Base * Base) \div 2

\* n calls of srtcp_send in a row, keyed or not, whatever comes of the encryption.
\* srtcp_recv, which ends in srtp_crypt, leaves the receiver's index as it is.
srtcp_send(n) ==
  LET index == (rtcp_index[Sender] + n) % Wrap
  IN  /\ index \in Indexes
      /\ rtcp_index' = [rtcp_index EXCEPT ![Sender] = index]
      /\ UNCHANGED <<keys, master, failures>>

srtp_create == [label \in Labels |-> <<None>>]

Init ==
  /\ keys = [e \in Ends |-> srtp_create]
  /\ rtcp_index = [e \in Ends |-> 0]
  /\ master = [e \in Ends |-> None]
  /\ failures = 0

Next ==
  \/ \E e \in Ends, m \in Masters :
       \/ \E keylen \in KeyLengths, saltlen \in {13, 14} :
            srtp_setkey(e, m, keylen, saltlen) \/ srtp_setkeyFails(e, m, keylen, saltlen)
       \/ \E keychars, saltchars \in 28..33 :
            srtp_setkeystring(e, m, keychars, saltchars)
  \/ \E n \in Batches : srtcp_send(n)

Spec == Init /\ [][Next]_vars

-----------------------------------------------------------------------------
(* Properties *)

\* The blocks of a key's derivation: an authentication key has 20 bytes, two
\* blocks.
Blocks(label, key) ==
  IF label \in {1, 4} THEN {key[2], NextBlock(key[2])} ELSE {key[2]}

\* No two keys of a session share a block of the pseudo-random function's
\* output, whatever the salt and the index of 31 bits it was keyed at: neither the
\* label's place (which depends on the length of r, srtp.c:246) nor the index,
\* which is XORed into the salt and reaches into the block counter (:248), nor the
\* carry of the counter into the bytes of the salt and of the label makes two
\* derivations meet.
DerivationsDisjoint ==
  \A e \in Ends : master[e] # None =>
    \A a, b \in Labels : a # b =>
      Blocks(a, keys[e][a]) \cap Blocks(b, keys[e][b]) = {}

\* Both ends of a stream that were given the same master have the same RTP
\* keys, whenever each of them was keyed, whatever failed before and however
\* many reports were sent (the derivation of srtp.c:295 does not depend on what
\* the session has done).
RtpKeysAgree ==
  \A e, f \in Ends :
    (master[e] # None /\ master[e] = master[f])
      => \A label \in RtpLabels : keys[e][label] = keys[f][label]
=============================================================================
