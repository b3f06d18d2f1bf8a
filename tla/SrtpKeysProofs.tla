--------------------------- MODULE SrtpKeysProofs ---------------------------
(* The keys of the two ends of a stream, for any number of ends, masters and *)
(* salts, for bytes of any size and for every index of a report.             *)
EXTENDS SrtpKeys, TLAPS

\* The block that the derivation of a label's key begins with.
Start(salt, label, index) ==
  do_derive(salt, IF label \in RtpLabels THEN RtpR(index) ELSE RtcpR(index), label)

\* The six keys of a session that was keyed with the master m at that index.
KeyedAt(e, m, keylen, index) ==
  /\ master[e] = <<m, keylen>>
  /\ \A label \in Labels :
       keys[e][label] = <<<<m, keylen>>, Start(Salt[m], label, index)>>

\* A session that was keyed has the keys of its master: of its own history they
\* have nothing but the one index that it was at.
KeyedFromMaster ==
  \A e \in Ends : master[e] # None =>
    \E m \in Masters, index \in Indexes : \E keylen : KeyedAt(e, m, keylen, index)

Types ==
  /\ DOMAIN keys = Ends
  /\ DOMAIN master = Ends
  /\ rtcp_index \in [Ends -> Indexes]

IInv == Types /\ KeyedFromMaster

-----------------------------------------------------------------------------
(* do_derive *)

\* The label's place is byte 7 for RTP and byte 9 for RTCP; the index reaches
\* neither of them nor byte 10 (srtp.c:246, :248).
LEMMA StartBytes ==
  ASSUME NEW salt \in [0..13 -> Byte], NEW label \in Labels, NEW index \in Nat
  PROVE  /\ Start(salt, label, index)[7] =
              XorByte(salt[7], IF label \in RtpLabels THEN label ELSE 0)
         /\ Start(salt, label, index)[9] =
              XorByte(salt[9], IF label \in RtpLabels THEN 0 ELSE label)
         /\ Start(salt, label, index)[10] = salt[10]
         /\ Start(salt, label, index)[15] =
              XorByte(0, IF label \in RtpLabels THEN 0 ELSE index % Base)
<1>0. 10 \in 0..13 /\ salt[10] \in Byte /\ XorByte(salt[10], 0) = salt[10]
  BY ByteAssumption
<1>1. CASE label \in RtpLabels
  <2>1. Start(salt, label, index) = do_derive(salt, <<0, 0, 0, 0, 0, 0>>, label)
    BY <1>1 DEF Start, RtpR
  <2>2. QED
    BY <1>0, <1>1, <2>1 DEF do_derive, SaltLength
<1>2. CASE label \notin RtpLabels
  <2> DEFINE x == index \div (Base * Base * Base)
             y == (index \div (Base * Base)) % Base
             z == (index \div Base) % Base
             w == index % Base
  <2>1. Start(salt, label, index) = do_derive(salt, <<x, y, z, w>>, label)
    BY <1>2 DEF Start, RtcpR
  <2> HIDE DEF x, y, z, w
  <2>2. /\ Start(salt, label, index)[7] = XorByte(salt[7], 0)
        /\ Start(salt, label, index)[9] = XorByte(salt[9], label)
        /\ Start(salt, label, index)[10] = XorByte(salt[10], 0)
        /\ Start(salt, label, index)[15] = XorByte(0, w)
    BY <2>1 DEF do_derive, SaltLength
  <2>3. QED
    BY <1>0, <1>2, <2>2 DEF w
<1>3. QED
  BY <1>1, <1>2

\* ^ with a label that is not 0 changes a byte.
LEMMA XorApart ==
  ASSUME NEW x \in Byte, NEW y \in Byte, NEW z \in Byte, y # z
  PROVE  XorByte(x, y) # XorByte(x, z)
  BY ByteAssumption

\* The last byte of an RTCP block is one.
LEMMA LastByte ==
  ASSUME NEW index \in Nat
  PROVE  XorByte(0, index % Base) \in Nat
<1>1. Base \in Nat /\ Base > 5
  BY ByteAssumption
<1>2. index % Base \in 0..(Base - 1)
  BY <1>1
<1>3. 0 \in 0..(Base - 1)
  BY <1>1
<1>4. XorByte(0, index % Base) \in 0..(Base - 1)
  BY <1>2, <1>3, ByteAssumption DEF Byte
<1>5. QED
  BY <1>1, <1>4

\* The labels are bytes.
LEMMA LabelsAreBytes == Labels \subseteq Byte /\ 0 \in Byte /\ RtpLabels \subseteq Labels
  BY ByteAssumption DEF Labels, RtpLabels, Byte

\* Two labels differ in one of the two bytes, whatever the index.
LEMMA StartsDiffer ==
  ASSUME NEW salt \in [0..13 -> Byte], NEW a \in Labels, NEW b \in Labels, a # b,
         NEW index \in Nat
  PROVE  \/ Start(salt, a, index)[7] # Start(salt, b, index)[7]
         \/ Start(salt, a, index)[9] # Start(salt, b, index)[9]
<1>1. salt[7] \in Byte /\ salt[9] \in Byte
  OBVIOUS
<1>2. \A x, y, z \in Byte : XorByte(x, y) = XorByte(x, z) => y = z
  BY ByteAssumption
<1>3. a \in Byte /\ b \in Byte /\ 0 \in Byte
  BY LabelsAreBytes
<1>4. CASE a \in RtpLabels /\ b \in RtpLabels
  BY <1>1, <1>2, <1>3, <1>4, StartBytes
<1>5. CASE ~(a \in RtpLabels /\ b \in RtpLabels)
  <2>1. (IF a \in RtpLabels THEN 0 ELSE a) # (IF b \in RtpLabels THEN 0 ELSE b)
    BY <1>5 DEF Labels, RtpLabels
  <2>2. QED
    BY <1>1, <1>2, <1>3, <2>1, StartBytes
<1>6. QED
  BY <1>4, <1>5

-----------------------------------------------------------------------------
(* The block counter *)

\* The second block of the RTP authentication key: the counter is 1, and
\* nothing else changes.
LEMMA SecondRtpBlock ==
  ASSUME NEW salt \in [0..13 -> Byte], NEW index \in Nat
  PROVE  \A c \in 7..10 :
           NextBlock(Start(salt, 1, index))[c] = Start(salt, 1, index)[c]
<1>1. 1 \in Labels /\ 1 \in RtpLabels
  BY DEF Labels, RtpLabels
<1>2. Start(salt, 1, index)[15] = 0
  BY <1>1, StartBytes, LabelsAreBytes, ByteAssumption
<1>3. 0 # Base - 1
  BY ByteAssumption
<1>4. \A c \in 7..10 : c \in 0..15 /\ 15 \in (c + 1)..15
  OBVIOUS
<1>5. QED
  BY <1>2, <1>3, <1>4 DEF NextBlock

\* The second block of the RTCP authentication key differs from the first in the
\* last byte, and in byte 10 or not in byte 9: the carry leaves zeros behind.
LEMMA NextBlockCarry ==
  ASSUME NEW iv, iv[15] \in Nat
  PROVE  /\ NextBlock(iv)[15] # iv[15]
         /\ NextBlock(iv)[9] = iv[9] \/ NextBlock(iv)[10] # iv[10]
<1>1. NextBlock(iv)[15] = IF iv[15] = Base - 1 THEN 0 ELSE iv[15] + 1
  BY DEF NextBlock
<1>2. Base \in Nat /\ Base > 5
  BY ByteAssumption
<1>3. CASE \E c \in 10..15 : iv[c] # Base - 1
  BY <1>1, <1>2, <1>3 DEF NextBlock
<1>4. CASE \A c \in 10..15 : iv[c] = Base - 1
  <2>1. NextBlock(iv)[10] = 0 /\ iv[10] = Base - 1
    BY <1>4 DEF NextBlock
  <2>2. QED
    BY <1>1, <1>2, <2>1
<1>5. QED
  BY <1>3, <1>4

\* The second block of an authentication key is not another key's first.
LEMMA SecondBlockApart ==
  ASSUME NEW salt \in [0..13 -> Byte], NEW a \in {1, 4}, NEW b \in Labels, a # b,
         NEW index \in Nat
  PROVE  NextBlock(Start(salt, a, index)) # Start(salt, b, index)
<1> DEFINE I(label) == Start(salt, label, index)
<1>0. 1 \in Labels /\ 4 \in Labels /\ 1 \in RtpLabels /\ 4 \notin RtpLabels
  BY DEF Labels, RtpLabels
<1>1. CASE a = 1
  <2>1. I(1)[7] # I(b)[7] \/ I(1)[9] # I(b)[9]
    BY <1>0, <1>1, StartsDiffer
  <2>2. NextBlock(I(1))[7] = I(1)[7] /\ NextBlock(I(1))[9] = I(1)[9]
    BY SecondRtpBlock
  <2>3. QED
    BY <1>1, <2>1, <2>2
<1>2. CASE a = 4 /\ b \notin RtpLabels
  <2>1. I(4)[15] = I(b)[15] /\ I(4)[15] = XorByte(0, index % Base)
    BY <1>0, <1>2, StartBytes
  <2>2. I(4)[15] \in Nat
    BY <2>1, LastByte
  <2>3. NextBlock(I(4))[15] # I(4)[15]
    BY <2>2, NextBlockCarry
  <2>4. QED
    BY <1>2, <2>1, <2>3
<1>3. CASE a = 4 /\ b \in RtpLabels
  <2>1. I(4)[15] \in Nat
    BY <1>0, StartBytes, LastByte
  <2>2. NextBlock(I(4))[9] = I(4)[9] \/ NextBlock(I(4))[10] # I(4)[10]
    BY <2>1, NextBlockCarry
  <2>3. I(4)[10] = I(b)[10]
    BY <1>0, StartBytes
  <2>4. I(4)[9] # I(b)[9]
    <3>1. I(4)[9] = XorByte(salt[9], 4) /\ I(b)[9] = XorByte(salt[9], 0)
      BY <1>0, <1>3, StartBytes
    <3>2. salt[9] \in Byte /\ 4 \in Byte /\ 0 \in Byte
      BY <1>0, LabelsAreBytes
    <3>3. QED
      BY <3>1, <3>2, XorApart
  <2>5. QED
    BY <1>3, <2>2, <2>3, <2>4
<1>4. QED
  BY <1>1, <1>2, <1>3

\* Nor do the two second blocks: the RTP one keeps bytes 9 and 10.
LEMMA SecondBlocksApart ==
  ASSUME NEW salt \in [0..13 -> Byte], NEW index \in Nat
  PROVE  NextBlock(Start(salt, 1, index)) # NextBlock(Start(salt, 4, index))
<1> DEFINE I(label) == Start(salt, label, index)
<1>0. 1 \in Labels /\ 4 \in Labels /\ 1 \in RtpLabels /\ 4 \notin RtpLabels
  BY DEF Labels, RtpLabels
<1>1. I(4)[15] \in Nat
  BY <1>0, StartBytes, LastByte
<1>2. NextBlock(I(4))[9] = I(4)[9] \/ NextBlock(I(4))[10] # I(4)[10]
  BY <1>1, NextBlockCarry
<1>3. NextBlock(I(1))[9] = I(1)[9] /\ NextBlock(I(1))[10] = I(1)[10]
  BY SecondRtpBlock
<1>4. I(4)[10] = I(1)[10]
  BY <1>0, StartBytes
<1>5. I(4)[9] # I(1)[9]
  <2>1. I(4)[9] = XorByte(salt[9], 4) /\ I(1)[9] = XorByte(salt[9], 0)
    BY <1>0, StartBytes
  <2>2. salt[9] \in Byte /\ 4 \in Byte /\ 0 \in Byte
    BY <1>0, LabelsAreBytes
  <2>3. QED
    BY <2>1, <2>2, XorApart
<1>6. QED
  BY <1>2, <1>3, <1>4, <1>5

\* No two derivations from one salt at one index share a block.
LEMMA BlocksApart ==
  ASSUME NEW salt \in [0..13 -> Byte], NEW a \in Labels, NEW b \in Labels, a # b,
         NEW index \in Nat, NEW m
  PROVE  Blocks(a, <<m, Start(salt, a, index)>>)
           \cap Blocks(b, <<m, Start(salt, b, index)>>) = {}
<1> DEFINE I(label) == Start(salt, label, index)
<1>1. /\ \A x \in Blocks(a, <<m, I(a)>>) :
            x = I(a) \/ (a \in {1, 4} /\ x = NextBlock(I(a)))
      /\ \A x \in Blocks(b, <<m, I(b)>>) :
            x = I(b) \/ (b \in {1, 4} /\ x = NextBlock(I(b)))
  BY DEF Blocks
<1>2. I(a) # I(b)
  BY StartsDiffer
<1>3. a \in {1, 4} => NextBlock(I(a)) # I(b)
  BY SecondBlockApart
<1>4. b \in {1, 4} => NextBlock(I(b)) # I(a)
  BY SecondBlockApart
<1>5. a \in {1, 4} /\ b \in {1, 4} => NextBlock(I(a)) # NextBlock(I(b))
  BY SecondBlocksApart
<1> HIDE DEF I
<1>6. ASSUME NEW x \in Blocks(a, <<m, I(a)>>), x \in Blocks(b, <<m, I(b)>>)
      PROVE  FALSE
  <2>1. x = I(a) \/ (a \in {1, 4} /\ x = NextBlock(I(a)))
    BY <1>1, <1>6
  <2>2. x = I(b) \/ (b \in {1, 4} /\ x = NextBlock(I(b)))
    BY <1>1, <1>6
  <2>3. QED
    BY <1>2, <1>3, <1>4, <1>5, <2>1, <2>2
<1> USE DEF I
<1>7. QED
  BY <1>6

-----------------------------------------------------------------------------
(* The invariant *)

\* A successful srtp_setkey leaves the session with the keys of its master.
LEMMA SetkeyKeeps ==
  ASSUME IInv, NEW e \in Ends, NEW m \in Masters, NEW keylen, NEW saltlen,
         srtp_setkey(e, m, keylen, saltlen)
  PROVE  IInv'
<1>1. Types'
  BY DEF IInv, Types, srtp_setkey
<1>2. ASSUME NEW f \in Ends, master'[f] # None
      PROVE  \E k \in Masters, index \in Indexes : \E n : KeyedAt(f, k, n, index)'
  <2>1. CASE f = e
    <3>1. keys'[f] = Rekeyed(e, m, keylen, 6) /\ master'[f] = <<m, keylen>>
      BY <2>1 DEF IInv, Types, srtp_setkey
    <3>2. \A label \in Labels :
            Rekeyed(e, m, keylen, 6)[label] = Derived(e, m, keylen, label)
      BY DEF Rekeyed, Labels
    <3>3. \A label \in Labels :
            Derived(e, m, keylen, label) =
              <<<<m, keylen>>, Start(Salt[m], label, rtcp_index[e])>>
      BY DEF Derived, Start
    <3>4. rtcp_index[e] \in Indexes
      BY DEF IInv, Types
    <3>5. KeyedAt(f, m, keylen, rtcp_index[e])'
           <=> /\ master'[f] = <<m, keylen>>
               /\ \A label \in Labels : keys'[f][label] =
                    <<<<m, keylen>>, Start(Salt[m], label, rtcp_index'[e])>>
      BY DEF KeyedAt
    <3>6. rtcp_index' = rtcp_index
      BY DEF srtp_setkey
    <3>7. KeyedAt(f, m, keylen, rtcp_index[e])'
      BY <3>1, <3>2, <3>3, <3>5, <3>6
    <3>8. QED
      BY <3>4, <3>6, <3>7 DEF KeyedAt
  <2>2. CASE f # e
    <3>1. keys'[f] = keys[f] /\ master'[f] = master[f]
      BY <2>2 DEF IInv, Types, srtp_setkey
    <3>2. QED
      BY <3>1, <1>2 DEF IInv, KeyedFromMaster, KeyedAt
  <2>3. QED
    BY <2>1, <2>2
<1>3. QED
  BY <1>1, <1>2 DEF IInv, KeyedFromMaster

\* A call that fails half-way leaves a session that counts as not keyed.
LEMMA FailureKeeps ==
  ASSUME IInv, NEW e \in Ends, NEW m \in Masters, NEW keylen, NEW saltlen,
         srtp_setkeyFails(e, m, keylen, saltlen)
  PROVE  IInv'
<1>1. PICK k : keys' = [keys EXCEPT ![e] = k]
  BY DEF srtp_setkeyFails
<1>2. Types'
  BY <1>1 DEF IInv, Types, srtp_setkeyFails
<1>3. ASSUME NEW f \in Ends, master'[f] # None
      PROVE  \E n \in Masters, index \in Indexes : \E l : KeyedAt(f, n, l, index)'
  <2>1. f # e
    BY <1>3 DEF IInv, Types, srtp_setkeyFails
  <2>2. keys'[f] = keys[f] /\ master'[f] = master[f]
    BY <1>1, <2>1 DEF IInv, Types, srtp_setkeyFails
  <2>3. QED
    BY <2>2, <1>3 DEF IInv, KeyedFromMaster, KeyedAt
<1>4. QED
  BY <1>2, <1>3 DEF IInv, KeyedFromMaster

LEMMA InitIInv == Init => IInv
  BY IndexAssumption DEF Init, IInv, Types, KeyedFromMaster

LEMMA NextIInv == IInv /\ [Next]_vars => IInv'
<1> SUFFICES ASSUME IInv, [Next]_vars PROVE IInv'
  OBVIOUS
<1>1. ASSUME NEW e \in Ends, NEW m \in Masters, NEW keylen \in KeyLengths,
             NEW saltlen \in {13, 14}, srtp_setkey(e, m, keylen, saltlen)
      PROVE  IInv'
  BY <1>1, SetkeyKeeps
<1>2. ASSUME NEW e \in Ends, NEW m \in Masters, NEW keychars \in 28..33,
             NEW saltchars \in 28..33, srtp_setkeystring(e, m, keychars, saltchars)
      PROVE  IInv'
  BY <1>2, SetkeyKeeps DEF srtp_setkeystring
<1>3. ASSUME NEW e \in Ends, NEW m \in Masters, NEW keylen \in KeyLengths,
             NEW saltlen \in {13, 14}, srtp_setkeyFails(e, m, keylen, saltlen)
      PROVE  IInv'
  BY <1>3, FailureKeeps
<1>4. ASSUME NEW n \in Batches, srtcp_send(n)
      PROVE  IInv'
  <2>1. PICK i \in Indexes : rtcp_index' = [rtcp_index EXCEPT ![Sender] = i]
    BY <1>4 DEF srtcp_send
  <2>2. Types'
    BY <1>4, <2>1 DEF IInv, Types, srtcp_send
  <2>3. QED
    BY <1>4, <2>2 DEF IInv, KeyedFromMaster, KeyedAt, srtcp_send
<1>5. CASE UNCHANGED vars
  BY <1>5 DEF IInv, Types, KeyedFromMaster, KeyedAt, vars
<1>6. QED
  BY <1>1, <1>2, <1>3, <1>4, <1>5 DEF Next

LEMMA Invariance == Spec => []IInv
  BY InitIInv, NextIInv, PTL DEF Spec

-----------------------------------------------------------------------------
(* The properties *)

\* No two of a session's six keys share a block of the pseudo-random function's
\* output, whatever the salt and the index of the report it was keyed at, the
\* carries of the block counter included (srtp.c:246, :248).
THEOREM KeysIndependent == Spec => []DerivationsDisjoint
<1>1. IInv => DerivationsDisjoint
  <2> SUFFICES ASSUME IInv, NEW e \in Ends, master[e] # None,
                      NEW a \in Labels, NEW b \in Labels, a # b
               PROVE  Blocks(a, keys[e][a]) \cap Blocks(b, keys[e][b]) = {}
    BY DEF DerivationsDisjoint
  <2>1. PICK m \in Masters, index \in Indexes : \E keylen : KeyedAt(e, m, keylen, index)
    BY DEF IInv, KeyedFromMaster
  <2>2. PICK keylen : KeyedAt(e, m, keylen, index)
    BY <2>1
  <2>3. /\ keys[e][a] = <<<<m, keylen>>, Start(Salt[m], a, index)>>
        /\ keys[e][b] = <<<<m, keylen>>, Start(Salt[m], b, index)>>
    BY <2>2 DEF KeyedAt
  <2>4. Salt[m] \in [0..13 -> Byte] /\ index \in Nat
    BY MastersAssumption, IndexAssumption
  <2>5. QED
    BY <2>3, <2>4, BlocksApart
<1>2. QED
  BY <1>1, Invariance, PTL

\* Two ends that were given the same master have the same RTP keys, however
\* often and whenever each was keyed, whatever failed in between and however
\* many reports were sent (srtp.c:266 to :313).
THEOREM RtpKeysAlwaysAgree == Spec => []RtpKeysAgree
<1>1. IInv => RtpKeysAgree
  <2> SUFFICES ASSUME IInv, NEW e \in Ends, NEW f \in Ends, master[e] # None,
                      master[e] = master[f], NEW label \in RtpLabels
               PROVE  keys[e][label] = keys[f][label]
    BY DEF RtpKeysAgree
  <2>1. label \in Labels
    BY LabelsAreBytes
  <2>2. PICK m, i, k : KeyedAt(e, m, k, i)
    BY DEF IInv, KeyedFromMaster
  <2>3. PICK n, j, l : KeyedAt(f, n, l, j)
    BY DEF IInv, KeyedFromMaster
  <2>4. m = n /\ k = l
    <3>1. <<m, k>> = <<n, l>>
      BY <2>2, <2>3 DEF KeyedAt
    <3>2. QED
      BY <3>1
  <2>5. Start(Salt[m], label, i) = Start(Salt[m], label, j)
    BY DEF Start, RtpR
  <2>6. QED
    BY <2>1, <2>2, <2>3, <2>4, <2>5 DEF KeyedAt
<1>2. QED
  BY <1>1, Invariance, PTL
=============================================================================
