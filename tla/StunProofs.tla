----------------------------- MODULE StunProofs -----------------------------
(***************************************************************************)
(* Proofs about Stun, for any attributes in any number, any datagrams and  *)
(* any calls.                                                              *)
(***************************************************************************)
EXTENDS Stun, TLAPS

-----------------------------------------------------------------------------
(* Rounding up to a multiple of 4 *)

\* attr_len + 3 & ~3 is RFC 5389's rounding.
LEMMA Rounding ==
  ASSUME NEW n \in Nat
  PROVE  /\ RoundedUp(n) = Padded(n)
         /\ Padded(n) \in Nat /\ n <= Padded(n) /\ Padded(n) <= n + 3
         /\ Padded(n) % 4 = 0
<1>1. /\ Padded(n) \in n..(n + 3) /\ Padded(n) % 4 = 0
  BY DEF Padded
<1>2. \A m \in n..(n + 3) : m % 4 = 0 => m = Padded(n)
  BY DEF Padded
<1>3. RoundedUp(n) = Padded(n)
  BY <1>1, <1>2 DEF RoundedUp
<1>4. QED
  BY <1>1, <1>3

LEMMA Quarter ==
  ASSUME NEW n \in Nat, n % 4 = 0
  PROVE  n \div 4 \in Nat /\ n = 4 * (n \div 4)
  OBVIOUS

\* The lengths of a reply fit their fields.
LEMMA Fits ==
  /\ LongestName \in Nat
  /\ \A n \in 0..(LongestName + 100) : to_u16(n) = n
  BY SMT DEF LongestName, to_u16

\* The padding that write_software_attribute adds is the same, and its length
\* for "test vector ", one less, rounds to the same.
LEMMA SoftwarePadding ==
  ASSUME NEW name \in SoftwareNames
  PROVE  LET len == IF name.vector THEN name.chars - 1 ELSE name.chars
             bytes == name.chars + ((4 - (name.chars % 4)) % 4)
         IN  /\ len \in Nat /\ to_u16(len) = len
             /\ bytes \in 0..(LongestName + 3)
             /\ RoundedUp(len) = bytes
<1> DEFINE len == IF name.vector THEN name.chars - 1 ELSE name.chars
           bytes == name.chars + ((4 - (name.chars % 4)) % 4)
<1>1. /\ name.chars \in 0..LongestName /\ name.vector \in BOOLEAN
      /\ name.vector => name.chars = 12
  BY NamesAssumption
<1>2. len \in 0..LongestName
  BY <1>1, Fits
<1>3. bytes \in 0..(LongestName + 3)
  BY <1>1, Fits
<1>4. Padded(len) = bytes
  <2>1. CASE name.vector
    <3>1. name.chars = 12 /\ len = 11
      BY <1>1, <2>1
    <3>2. QED
      BY <3>1 DEF Padded
  <2>2. CASE ~name.vector
    BY <1>1, <2>2, Fits DEF Padded
  <2>3. QED
    BY <2>1, <2>2
<1>5. to_u16(len) = len /\ len \in Nat
  BY <1>2, Fits
<1>6. QED
  BY <1>3, <1>4, <1>5, Rounding

-----------------------------------------------------------------------------
(* The reply *)

Attr(type, at, len, key, covers) ==
  [type |-> type, at |-> at, len |-> len, key |-> key, covers |-> covers]

Io(size, length, attrs) == [size |-> size, length |-> length, attrs |-> attrs]

LEMMA WriteIs ==
  ASSUME NEW size, NEW length, NEW attrs, NEW type, NEW len, NEW bytes, NEW key
  PROVE  Write(Io(size, length, attrs), type, len, bytes, key)
           = Io(size + 4 + bytes, length,
                attrs \cup {Attr(type, size, to_u16(len), key, length)})
  BY DEF Write, Io, Attr

LEMMA SetLengthIs ==
  ASSUME NEW size, NEW length, NEW attrs, NEW n \in 0..(LongestName + 100)
  PROVE  set_length(Io(size, length, attrs), n) = Io(size, n, attrs)
<1>1. to_u16(n) = n
  BY Fits
<1>2. QED
  BY <1>1 DEF set_length, Io

\* A reply with a software name of that length and that many bytes, attribute by
\* attribute.
Written(r, len, bytes, password) ==
  LET software == Attr("SOFTWARE", 20, len, {}, 12)
      address == Attr("XOR-MAPPED-ADDRESS", 24 + bytes, 8, {}, 12)
      integrity == Attr("MESSAGE-INTEGRITY", 36 + bytes, 20, password, 40 + bytes)
  IN  r = IF password = {}
          THEN Io(44 + bytes, 24 + bytes,
                  {software, address,
                   Attr("FINGERPRINT", 36 + bytes, 4, {}, 24 + bytes)})
          ELSE Io(68 + bytes, 48 + bytes,
                  {software, address, integrity,
                   Attr("FINGERPRINT", 60 + bytes, 4, {}, 48 + bytes)})

\* What reply writes for a request with attributes.
LEMMA ReplyIs ==
  ASSUME NEW name \in SoftwareNames, NEW password, request.length # 0
  PROVE  \E len \in Nat, bytes \in 0..(LongestName + 3) :
           /\ RoundedUp(len) = bytes
           /\ Written(reply(name, password), len, bytes, password)
<1> DEFINE len == IF name.vector THEN name.chars - 1 ELSE name.chars
           bytes == name.chars + ((4 - (name.chars % 4)) % 4)
           software == Attr("SOFTWARE", 20, len, {}, 12)
           address == Attr("XOR-MAPPED-ADDRESS", 24 + bytes, 8, {}, 12)
           integrity == Attr("MESSAGE-INTEGRITY", 36 + bytes, 20, password, 40 + bytes)
           addressed == write_xor_mapped_address_attr(
                          write_software_attribute(Serialized, name))
           signed == write_message_integrity(
                       set_length(addressed, addressed.size + 4), password)
           printed == write_fingerprint(set_length(signed, signed.size - 12))
<1>1. len \in Nat /\ to_u16(len) = len /\ bytes \in 0..(LongestName + 3) /\ RoundedUp(len) = bytes
  BY SoftwarePadding
<1> HIDE DEF bytes
<1> HIDE DEF len
<1>2. reply(name, password) = set_length(printed, printed.size - 20)
  BY DEF reply
<1>3. addressed = Io(36 + bytes, 12, {software, address})
  <2>1. Serialized = Io(20, 12, {})
    BY DEF Serialized, Io
  <2>2. write_software_attribute(Serialized, name) = Io(24 + bytes, 12, {software})
    <3>1. write_software_attribute(Serialized, name)
            = Write(Serialized, "SOFTWARE", len, bytes, {})
      BY DEF write_software_attribute, bytes, len
    <3>2. Write(Io(20, 12, {}), "SOFTWARE", len, bytes, {})
            = Io(20 + 4 + bytes, 12,
                 {} \cup {Attr("SOFTWARE", 20, to_u16(len), {}, 12)})
      BY WriteIs
    <3>3. to_u16(len) = len /\ 20 + 4 + bytes = 24 + bytes
      BY <1>1, Fits
    <3>4. QED
      BY <2>1, <3>1, <3>2, <3>3
  <2>3. to_u16(8) = 8 /\ 24 + bytes + 4 + 8 = 36 + bytes
    BY <1>1, Fits
  <2>4. QED
    BY <2>2, <2>3, WriteIs DEF write_xor_mapped_address_attr
<1> HIDE DEF addressed
<1>4. set_length(addressed, addressed.size + 4)
        = Io(36 + bytes, 40 + bytes, {software, address})
  <2>1. addressed.size + 4 = 40 + bytes /\ 40 + bytes \in 0..(LongestName + 100)
    BY <1>1, <1>3, Fits DEF Io
  <2>2. QED
    BY <1>3, <2>1, SetLengthIs
<1>5. CASE password = {}
  <2>1. signed = Io(36 + bytes, 40 + bytes, {software, address})
    BY <1>4, <1>5 DEF write_message_integrity
  <2> HIDE DEF signed
  <2>2. set_length(signed, signed.size - 12)
          = Io(36 + bytes, 24 + bytes, {software, address})
    <3>1. signed.size - 12 = 24 + bytes /\ 24 + bytes \in 0..(LongestName + 100)
      BY <1>1, <2>1, Fits DEF Io
    <3>2. QED
      BY <2>1, <3>1, SetLengthIs
  <2>3. printed = Io(44 + bytes, 24 + bytes, {software, address,
                     Attr("FINGERPRINT", 36 + bytes, 4, {}, 24 + bytes)})
    <3>1. to_u16(4) = 4 /\ 36 + bytes + 4 + 4 = 44 + bytes
      BY <1>1, Fits
    <3>2. QED
      BY <2>2, <3>1, WriteIs DEF write_fingerprint
  <2> HIDE DEF printed
  <2>4. printed.size - 20 = 24 + bytes /\ 24 + bytes \in 0..(LongestName + 100)
    BY <1>1, <2>3, Fits DEF Io
  <2>5. reply(name, password) = Io(44 + bytes, 24 + bytes, {software, address,
                     Attr("FINGERPRINT", 36 + bytes, 4, {}, 24 + bytes)})
    BY <1>2, <2>3, <2>4, SetLengthIs
  <2>6. QED
    BY <1>1, <1>5, <2>5 DEF Written
<1>6. CASE password # {}
  <2>1. signed = Io(60 + bytes, 40 + bytes, {software, address, integrity})
    <3>1. to_u16(20) = 20 /\ 36 + bytes + 4 + 20 = 60 + bytes
      BY <1>1, Fits
    <3>2. QED
      BY <1>4, <1>6, <3>1, WriteIs DEF write_message_integrity
  <2> HIDE DEF signed
  <2>2. set_length(signed, signed.size - 12)
          = Io(60 + bytes, 48 + bytes, {software, address, integrity})
    <3>1. signed.size - 12 = 48 + bytes /\ 48 + bytes \in 0..(LongestName + 100)
      BY <1>1, <2>1, Fits DEF Io
    <3>2. QED
      BY <2>1, <3>1, SetLengthIs
  <2>3. printed = Io(68 + bytes, 48 + bytes, {software, address, integrity,
                     Attr("FINGERPRINT", 60 + bytes, 4, {}, 48 + bytes)})
    <3>1. to_u16(4) = 4 /\ 60 + bytes + 4 + 4 = 68 + bytes
      BY <1>1, Fits
    <3>2. QED
      BY <2>2, <3>1, WriteIs DEF write_fingerprint
  <2> HIDE DEF printed
  <2>4. printed.size - 20 = 48 + bytes /\ 48 + bytes \in 0..(LongestName + 100)
    BY <1>1, <2>3, Fits DEF Io
  <2>5. reply(name, password) = Io(68 + bytes, 48 + bytes,
                     {software, address, integrity,
                       Attr("FINGERPRINT", 60 + bytes, 4, {}, 48 + bytes)})
    BY <1>2, <2>3, <2>4, SetLengthIs
  <2>6. QED
    BY <1>1, <1>6, <2>5 DEF Written
<1>7. QED
  BY <1>5, <1>6

\* What ReplyWellFormed says of one reply.
WellFormed(r) ==
  /\ \A a, b \in r.attrs : a.at = b.at => a = b
  /\ {a.at : a \in r.attrs} \cup {20 + r.length} = {20} \cup {EndOf(a) : a \in r.attrs}
  /\ \A a \in r.attrs :
       a.type \in {"MESSAGE-INTEGRITY", "FINGERPRINT"} => a.covers = EndOf(a) - 20

\* The keys of the signatures of a reply.
Signatures(r) == {a.key : a \in {a \in r.attrs : a.type = "MESSAGE-INTEGRITY"}}

LEMMA ReplyGood ==
  ASSUME NEW name \in SoftwareNames, NEW password, request.length # 0
  PROVE  /\ WellFormed(reply(name, password))
         /\ Signatures(reply(name, password))
              = IF password = {} THEN {} ELSE {password}
<1>1. PICK len \in Nat, bytes \in 0..(LongestName + 3) :
        RoundedUp(len) = bytes /\ Written(reply(name, password), len, bytes, password)
  BY ReplyIs
<1> DEFINE software == Attr("SOFTWARE", 20, len, {}, 12)
           address == Attr("XOR-MAPPED-ADDRESS", 24 + bytes, 8, {}, 12)
           integrity == Attr("MESSAGE-INTEGRITY", 36 + bytes, 20, password, 40 + bytes)
           r == reply(name, password)
<1>2. bytes \in Nat /\ RoundedUp(len) = bytes
  BY <1>1, Fits
<1>3. RoundedUp(8) = 8 /\ RoundedUp(20) = 20 /\ RoundedUp(4) = 4
  BY Rounding DEF Padded
<1>4. EndOf(software) = 24 + bytes /\ EndOf(address) = 36 + bytes
  BY <1>2, <1>3 DEF EndOf, Attr
<1>5. EndOf(integrity) = 60 + bytes
  BY <1>2, <1>3 DEF EndOf, Attr
<1>6. CASE password = {}
  <2> DEFINE print == Attr("FINGERPRINT", 36 + bytes, 4, {}, 24 + bytes)
  <2>1. r.attrs = {software, address, print} /\ r.length = 24 + bytes
    BY <1>1, <1>6 DEF Io, Written
  <2>2. EndOf(print) = 44 + bytes /\ print.covers = EndOf(print) - 20
    BY <1>2, <1>3 DEF EndOf, Attr
  <2>3. /\ software.at = 20 /\ address.at = 24 + bytes /\ print.at = 36 + bytes
        /\ software.type = "SOFTWARE" /\ address.type = "XOR-MAPPED-ADDRESS"
        /\ print.type = "FINGERPRINT"
    BY DEF Attr
  <2> HIDE DEF software, address, print, r
  <2>4. \A a, b \in r.attrs : a.at = b.at => a = b
    BY <1>2, <2>1, <2>3
  <2>5. {a.at : a \in r.attrs} \cup {20 + r.length} = {20} \cup {EndOf(a) : a \in r.attrs}
    <3>1. {a.at : a \in r.attrs} = {20, 24 + bytes, 36 + bytes}
      BY <2>1, <2>3
    <3>2. {EndOf(a) : a \in r.attrs} = {24 + bytes, 36 + bytes, 44 + bytes}
      BY <1>4, <2>1, <2>2
    <3>3. 20 + r.length = 44 + bytes
      BY <1>2, <2>1
    <3>4. QED
      BY <3>1, <3>2, <3>3
  <2>6. \A a \in r.attrs :
          a.type \in {"MESSAGE-INTEGRITY", "FINGERPRINT"} => a.covers = EndOf(a) - 20
    BY <2>1, <2>2, <2>3
  <2>7. Signatures(r) = {}
    BY <2>1, <2>3 DEF Signatures
  <2>8. QED
    BY <1>6, <2>4, <2>5, <2>6, <2>7 DEF WellFormed, r
<1>7. CASE password # {}
  <2> DEFINE print == Attr("FINGERPRINT", 60 + bytes, 4, {}, 48 + bytes)
  <2>1. r.attrs = {software, address, integrity, print} /\ r.length = 48 + bytes
    BY <1>1, <1>7 DEF Io, Written
  <2>2. /\ EndOf(print) = 68 + bytes /\ print.covers = EndOf(print) - 20
        /\ integrity.covers = EndOf(integrity) - 20
    BY <1>2, <1>3 DEF EndOf, Attr
  <2>3. /\ software.at = 20 /\ address.at = 24 + bytes
        /\ integrity.at = 36 + bytes /\ print.at = 60 + bytes
        /\ software.type = "SOFTWARE" /\ address.type = "XOR-MAPPED-ADDRESS"
        /\ integrity.type = "MESSAGE-INTEGRITY" /\ integrity.key = password
        /\ print.type = "FINGERPRINT"
    BY DEF Attr
  <2> HIDE DEF software, address, integrity, print, r
  <2>4. \A a, b \in r.attrs : a.at = b.at => a = b
    BY <1>2, <2>1, <2>3
  <2>5. {a.at : a \in r.attrs} \cup {20 + r.length} = {20} \cup {EndOf(a) : a \in r.attrs}
    <3>1. {a.at : a \in r.attrs} = {20, 24 + bytes, 36 + bytes, 60 + bytes}
      BY <2>1, <2>3
    <3>2. {EndOf(a) : a \in r.attrs}
            = {24 + bytes, 36 + bytes, 60 + bytes, 68 + bytes}
      BY <1>4, <1>5, <2>1, <2>2
    <3>3. 20 + r.length = 68 + bytes
      BY <1>2, <2>1
    <3>4. QED
      BY <3>1, <3>2, <3>3
  <2>6. \A a \in r.attrs :
          a.type \in {"MESSAGE-INTEGRITY", "FINGERPRINT"} => a.covers = EndOf(a) - 20
    BY <2>1, <2>2, <2>3
  <2>7. Signatures(r) = {password}
    BY <2>1, <2>3 DEF Signatures
  <2>8. QED
    BY <1>7, <2>4, <2>5, <2>6, <2>7 DEF WellFormed, r
<1>8. QED
  BY <1>6, <1>7

-----------------------------------------------------------------------------
(* The invariant *)

Exceptions == {"IndexError", "InvalidStunMessage", "NoStunAttributes"}
LaidWords == [type : AttrTypes, len : Nat, name : Usernames \cup {Nobody}, at : Nat]

StunTypeOK ==
  /\ calls \subseteq Usernames
  /\ request.size \in Nat /\ request.length \in Nat
  /\ \A i \in Nat : 4 * i + 4 <= request.size => request.words[i] \in AllWords
  /\ laidOut \in BOOLEAN
  /\ meant \subseteq LaidWords
  /\ step \in {"idle", "waiting", "reading", "sent"} \cup Exceptions
  /\ byte_step \in Nat /\ byte_step % 4 = 0
  /\ attributes \in [AttrTypes -> [at : Nat, len : Nat]]

\* An attribute that the client laid out is in the datagram, where it was put.
Placed(m) ==
  /\ m.at % 4 = 0 /\ EndOf(m) <= request.size
  /\ WordAt(m.at).type = m.type /\ WordAt(m.at).len = m.len
  /\ m.len # 0 => WordAt(m.at + 4).name = m.name

\* It is followed by another one, or by the end.
Chained(m) == EndOf(m) = request.size \/ \E n \in meant : n.at = EndOf(m)

LaidOK ==
  laidOut =>
    /\ request.fault = "none" /\ request.length = request.size
    /\ request.size % 4 = 0
    /\ \A m \in meant : Placed(m) /\ Chained(m)
    /\ \A m, n \in meant : m.at < n.at => EndOf(m) <= n.at
    /\ \A m, n \in meant : m.at = n.at => m = n
    /\ IF meant = {} THEN request.size = 0 ELSE \E m \in meant : m.at = 0

\* The loop of StunAttributes.new: of the client's attributes before pos, those
\* and only those are known, the last of each type.
ReadSoFar(pos) ==
  \A t \in AttrTypes :
    LET before == {m \in meant : m.type = t /\ m.at < pos}
    IN  \/ before = {} /\ attributes[t] = Absent
        \/ \E m \in before :
             /\ \A n \in before : n.at <= m.at
             /\ attributes[t] = [at |-> m.at + 4, len |-> m.len]

AtAttribute == byte_step = request.size \/ \E m \in meant : m.at = byte_step

StepOK ==
  /\ step = "idle" => laidOut
  /\ step \in {"idle", "waiting"} => byte_step = 0 /\ attributes = NoAttributes
  /\ step \in {"reading", "sent"} => request.length # 0
  /\ laidOut =>
       /\ step \notin {"IndexError", "InvalidStunMessage"}
       /\ step = "NoStunAttributes" => meant = {}
       /\ step = "reading" => AtAttribute /\ ReadSoFar(byte_step)
       /\ step = "sent" => ReadSoFar(request.size)

SentOK == step = "sent" => WellFormed(response)

SignedOK == (laidOut /\ step = "sent") => Signatures(response) = {{n} : n \in username \cap calls}

StunInv == StunTypeOK /\ LaidOK /\ StepOK /\ SentOK /\ SignedOK

LEMMA StunInitInv == Init => StunInv
<1> SUFFICES ASSUME Init PROVE StunInv
  OBVIOUS
<1>1. /\ request.size = 0 /\ request.length = 0 /\ request.fault = "none"
      /\ step = "idle" /\ byte_step = 0 /\ meant = {} /\ laidOut = TRUE
      /\ attributes = NoAttributes /\ calls = {}
  BY DEF Init, NoRequest, Request
<1>2. StunTypeOK
  BY <1>1 DEF StunTypeOK, NoAttributes, Absent, Exceptions
<1>3. LaidOK
  BY <1>1 DEF LaidOK
<1>4. StepOK /\ SentOK /\ SignedOK
  BY <1>1 DEF StepOK, SentOK, SignedOK
<1>5. QED
  BY <1>2, <1>3, <1>4 DEF StunInv

\* A client's attribute, and where it ends.
LEMMA LaidEnd ==
  ASSUME NEW m \in LaidWords
  PROVE  /\ m.at \in Nat /\ m.len \in Nat /\ m.type \in AttrTypes
         /\ EndOf(m) \in Nat /\ EndOf(m) = m.at + 4 + Padded(m.len)
         /\ Padded(m.len) \in Nat /\ m.len <= Padded(m.len)
         /\ Padded(m.len) % 4 = 0
<1>1. m.at \in Nat /\ m.len \in Nat /\ m.type \in AttrTypes
  BY DEF LaidWords
<1>2. QED
  BY <1>1, Rounding DEF EndOf

\* While the datagram stays what it is, so does what is known of it.
LEMMA DatagramKept ==
  ASSUME StunInv, UNCHANGED datagram
  PROVE  /\ LaidOK'
         /\ request'.size \in Nat /\ request'.length \in Nat
         /\ \A i \in Nat : 4 * i + 4 <= request'.size => request'.words[i] \in AllWords
         /\ laidOut' \in BOOLEAN /\ meant' \subseteq LaidWords
<1>1. request' = request /\ laidOut' = laidOut /\ meant' = meant
  BY DEF datagram
<1>2. LaidOK'
  BY <1>1 DEF StunInv, LaidOK, Placed, Chained, WordAt
<1>3. QED
  BY <1>1, <1>2 DEF StunInv, StunTypeOK

-----------------------------------------------------------------------------
(* The clients *)

LEMMA LayOutInv ==
  ASSUME StunInv, NEW a \in Attributes, LayOut(a)
  PROVE  StunInv'
<1> DEFINE at == request.size
           end == at + 4 + RoundedUp(a.len)
           laid == [type |-> a.type, len |-> a.len, name |-> a.name, at |-> at]
           q == at \div 4
           words == [i \in 0..(end \div 4 - 1) |->
                       IF i < q THEN request.words[i]
                       ELSE IF i = q THEN [a EXCEPT !.name = Nobody]
                       ELSE IF i = q + 1 THEN [Filler EXCEPT !.name = a.name]
                       ELSE Filler]
<1>1. a \in AllWords
  BY WordsAssumption
<1>2. a.len \in Nat /\ a.type \in AttrTypes /\ a.name \in Usernames \cup {Nobody}
  BY <1>1 DEF AllWords
<1>3. /\ step = "idle" /\ laidOut /\ laidOut' = laidOut /\ step' = step /\ calls' = calls
      /\ byte_step' = byte_step /\ attributes' = attributes
      /\ byte_step = 0 /\ attributes = NoAttributes
      /\ meant' = meant \cup {laid} /\ request' = Request("none", end, end, words)
  BY DEF LayOut, StunInv, StepOK, reader
<1>4. /\ request'.size = end /\ request'.length = end /\ request'.fault = "none"
      /\ request'.words = words
  BY <1>3 DEF Request
<1>5. PICK x : /\ x \in LaidWords /\ meant' = meant \cup {x}
               /\ x.at = at /\ x.len = a.len /\ x.type = a.type /\ x.name = a.name
  <2>1. laid \in LaidWords
    BY <1>2 DEF LaidWords, StunInv, StunTypeOK
  <2>2. QED
    BY <1>3, <2>1
<1>6. /\ at \in Nat /\ at % 4 = 0 /\ q \in Nat /\ at = 4 * q
  <2>1. at \in Nat /\ at % 4 = 0
    BY <1>3 DEF StunInv, StunTypeOK, LaidOK
  <2>2. QED
    BY <2>1, Quarter
<1>7. /\ EndOf(x) = end /\ end = at + 4 + Padded(a.len)
      /\ Padded(a.len) \in Nat /\ Padded(a.len) % 4 = 0 /\ a.len <= Padded(a.len)
      /\ end \in Nat /\ end % 4 = 0
  <2>1. /\ RoundedUp(a.len) = Padded(a.len)
        /\ Padded(a.len) \in Nat /\ Padded(a.len) % 4 = 0 /\ a.len <= Padded(a.len)
    BY <1>2, Rounding
  <2>2. EndOf(x) = end
    BY <1>5 DEF EndOf
  <2> HIDE DEF at
  <2>3. end = at + 4 + Padded(a.len) /\ end \in Nat /\ end % 4 = 0
    BY <1>6, <2>1
  <2>4. QED
    BY <2>1, <2>2, <2>3
<1>8. \A m \in meant : m \in LaidWords /\ Placed(m) /\ Chained(m)
  BY <1>3 DEF StunInv, StunTypeOK, LaidOK
<1> HIDE DEF laid, end, at
<1>9. /\ words[q] = [a EXCEPT !.name = Nobody]
      /\ a.len # 0 => words[q + 1] = [Filler EXCEPT !.name = a.name]
      /\ \A i \in Nat : i < q => words[i] = request.words[i]
  <2>1. q \in 0..(end \div 4 - 1) /\ \A i \in Nat : i < q => i \in 0..(end \div 4 - 1)
    BY <1>6, <1>7
  <2>2. a.len # 0 => q + 1 \in 0..(end \div 4 - 1)
    BY <1>2, <1>6, <1>7
  <2>3. q \in Nat /\ ~(q < q) /\ ~(q + 1 < q) /\ q + 1 # q
    BY <1>6
  <2> HIDE DEF q
  <2>4. QED
    BY <2>1, <2>2, <2>3
<1>10. StunTypeOK'
  <2>1. \A i \in Nat : 4 * i + 4 <= end => words[i] \in AllWords
    <3> SUFFICES ASSUME NEW i \in Nat, 4 * i + 4 <= end PROVE words[i] \in AllWords
      OBVIOUS
    <3>1. i \in 0..(end \div 4 - 1)
      BY <1>7
    <3>2. i < q => request.words[i] \in AllWords
      BY <1>6 DEF StunInv, StunTypeOK, at
    <3>3. [a EXCEPT !.name = Nobody] \in AllWords
      BY <1>1 DEF AllWords
    <3>4. Filler \in AllWords /\ [Filler EXCEPT !.name = a.name] \in AllWords
      BY <1>2, TypesAssumption DEF AllWords, Filler
    <3>5. QED
      BY <3>1, <3>2, <3>3, <3>4
  <2>2. QED
    BY <1>3, <1>4, <1>5, <1>7, <2>1 DEF StunInv, StunTypeOK
<1>11. \A m \in meant' : Placed(m)'
  <2>1. ASSUME NEW m \in meant PROVE Placed(m)'
    <3>1. m \in LaidWords /\ Placed(m)
      BY <1>8, <2>1
    <3>2. /\ m.at \in Nat /\ m.len \in Nat /\ EndOf(m) = m.at + 4 + Padded(m.len)
          /\ Padded(m.len) \in Nat /\ m.len <= Padded(m.len) /\ Padded(m.len) % 4 = 0
      BY <3>1, LaidEnd
    <3>3. m.at % 4 = 0 /\ EndOf(m) <= at
      BY <3>1 DEF Placed, at
    <3>4. m.at \div 4 \in Nat /\ m.at \div 4 < q
      BY <3>2, <3>3, <1>6
    <3>5. m.len # 0 => (m.at + 4) \div 4 \in Nat /\ (m.at + 4) \div 4 < q
      BY <3>2, <3>3, <1>6
    <3>6. /\ words[m.at \div 4] = request.words[m.at \div 4]
          /\ m.len # 0 => words[(m.at + 4) \div 4] = request.words[(m.at + 4) \div 4]
      BY <1>9, <3>4, <3>5
    <3>7. EndOf(m) <= end
      BY <1>6, <1>7, <3>2, <3>3
    <3>8. QED
      BY <1>4, <3>1, <3>3, <3>6, <3>7 DEF Placed, WordAt
  <2>2. Placed(x)'
    <3>1. at \div 4 = q /\ (at + 4) \div 4 = q + 1 /\ end <= end
      BY <1>6, <1>7
    <3>2. words[q].type = a.type /\ words[q].len = a.len
      BY <1>1, <1>9 DEF AllWords
    <3>3. a.len # 0 => words[q + 1].name = a.name
      BY <1>9 DEF Filler
    <3>4. QED
      BY <1>4, <1>5, <1>6, <1>7, <3>1, <3>2, <3>3 DEF Placed, WordAt
  <2>3. QED
    BY <1>5, <2>1, <2>2
<1>12. \A m \in meant' : Chained(m)'
  BY <1>3, <1>4, <1>5, <1>7, <1>8 DEF Chained, at
<1>13. /\ \A m, n \in meant' : m.at < n.at => EndOf(m) <= n.at
       /\ \A m, n \in meant' : m.at = n.at => m = n
  <2>1. \A m \in meant : m.at \in Nat /\ m.at < at /\ EndOf(m) <= at
    <3> SUFFICES ASSUME NEW m \in meant PROVE m.at \in Nat /\ m.at < at /\ EndOf(m) <= at
      OBVIOUS
    <3>1. EndOf(m) <= at /\ m \in LaidWords
      BY <1>8 DEF Placed, at
    <3>2. QED
      BY <1>6, <3>1, LaidEnd
  <2>2. /\ \A m, n \in meant : m.at < n.at => EndOf(m) <= n.at
        /\ \A m, n \in meant : m.at = n.at => m = n
    BY <1>3 DEF StunInv, LaidOK
  <2>3. QED
    BY <1>3, <1>5, <1>6, <2>1, <2>2
<1>14. \E m \in meant' : m.at = 0
  <2>1. CASE meant = {}
    BY <1>3, <1>5, <2>1 DEF StunInv, LaidOK, at
  <2>2. CASE meant # {}
    BY <1>3, <2>2 DEF StunInv, LaidOK
  <2>3. QED
    BY <2>1, <2>2
<1>15. LaidOK'
  BY <1>3, <1>4, <1>7, <1>11, <1>12, <1>13, <1>14 DEF LaidOK
<1>16. StepOK' /\ SentOK' /\ SignedOK'
  BY <1>3 DEF StepOK, SentOK, SignedOK
<1>17. QED
  BY <1>10, <1>15, <1>16 DEF StunInv

LEMMA ReceiveInv ==
  ASSUME StunInv, Receive
  PROVE  StunInv'
<1>1. /\ step = "idle" /\ step' = "waiting" /\ UNCHANGED datagram
      /\ byte_step' = byte_step /\ attributes' = attributes /\ calls' \subseteq Usernames
  BY DEF Receive, reader
<1>2. byte_step = 0 /\ attributes = NoAttributes
  BY <1>1 DEF StunInv, StepOK
<1>3. StunTypeOK'
  BY <1>1, DatagramKept DEF StunInv, StunTypeOK
<1>4. StepOK' /\ SentOK' /\ SignedOK'
  BY <1>1, <1>2 DEF StepOK, SentOK, SignedOK
<1>5. QED
  BY <1>1, <1>3, <1>4, DatagramKept DEF StunInv

LEMMA ReceiveAnyInv ==
  ASSUME StunInv, ReceiveAny
  PROVE  StunInv'
<1>1. /\ step = "idle" /\ step' = "waiting" /\ laidOut' = FALSE /\ meant' = meant
      /\ byte_step' = byte_step /\ attributes' = attributes /\ calls' \subseteq Usernames
  BY DEF ReceiveAny, reader
<1>2. byte_step = 0 /\ attributes = NoAttributes
  BY <1>1 DEF StunInv, StepOK
<1>3. PICK n \in 0..MaxWords : \E words \in [0..(n - 1) -> Words], size \in 0..(4 * n),
             fault \in {"none", "short", "cookie", "type"} :
           \E length \in {size, size + 4} :
             request' = Request(fault, length, size, words)
  BY DEF ReceiveAny
<1>4. PICK words \in [0..(n - 1) -> Words], size \in 0..(4 * n),
           fault \in {"none", "short", "cookie", "type"} :
           \E length \in {size, size + 4} :
             request' = Request(fault, length, size, words)
  BY <1>3
<1>5. /\ request'.size = size /\ request'.length \in {size, size + 4}
      /\ request'.words = words
  BY <1>4 DEF Request
<1>6. n \in Nat /\ size \in Nat /\ size <= 4 * n
  BY MaxAssumption
<1>7. \A i \in Nat : 4 * i + 4 <= size => words[i] \in AllWords
  <2>1. \A i \in Nat : 4 * i + 4 <= size => i \in 0..(n - 1)
    BY <1>6
  <2>2. QED
    BY <2>1, WordsAssumption
<1>8. StunTypeOK'
  <2>1. request'.size \in Nat /\ request'.length \in Nat
    BY <1>5, <1>6
  <2>2. \A i \in Nat : 4 * i + 4 <= request'.size => request'.words[i] \in AllWords
    BY <1>5, <1>7
  <2>3. QED
    BY <1>1, <2>1, <2>2 DEF StunInv, StunTypeOK
<1>9. LaidOK' /\ StepOK' /\ SentOK' /\ SignedOK'
  BY <1>1, <1>2 DEF LaidOK, StepOK, SentOK, SignedOK
<1>10. QED
  BY <1>8, <1>9 DEF StunInv

-----------------------------------------------------------------------------
(* The reader *)

LEMMA ReadHeaderInv ==
  ASSUME StunInv, ReadHeader
  PROVE  StunInv'
<1>1. /\ step = "waiting" /\ UNCHANGED datagram /\ calls' = calls
      /\ byte_step' = byte_step /\ attributes' = attributes
      /\ request' = request /\ laidOut' = laidOut /\ meant' = meant
  BY DEF ReadHeader, reader, datagram
<1>2. byte_step = 0 /\ attributes = NoAttributes
  BY <1>1 DEF StunInv, StepOK
<1>3. step' \in {"reading"} \cup Exceptions
  BY DEF ReadHeader, Exceptions
<1>4. StunTypeOK'
  BY <1>1, <1>3, DatagramKept DEF StunInv, StunTypeOK
<1>5. step' = "reading" => request.length # 0
  BY DEF ReadHeader
<1>6. ASSUME laidOut
      PROVE  /\ step' \notin {"IndexError", "InvalidStunMessage"}
             /\ step' = "NoStunAttributes" => meant = {}
             /\ AtAttribute' /\ ReadSoFar(byte_step)'
  <2>1. /\ request.fault = "none" /\ request.length = request.size
        /\ IF meant = {} THEN request.size = 0 ELSE \E m \in meant : m.at = 0
        /\ \A m \in meant : m \in LaidWords /\ EndOf(m) <= request.size
        /\ request.size \in Nat
    BY <1>6 DEF StunInv, LaidOK, StunTypeOK, Placed
  <2>2. ValidHeader
    BY <2>1 DEF ValidHeader
  <2>3. step' \notin {"IndexError", "InvalidStunMessage"}
    BY <2>1, <2>2 DEF ReadHeader
  <2>4. step' = "NoStunAttributes" => meant = {}
    <3> SUFFICES ASSUME step' = "NoStunAttributes", NEW m \in meant PROVE FALSE
      OBVIOUS
    <3>1. request.size = 0
      BY <2>1, <2>2 DEF ReadHeader
    <3>2. EndOf(m) <= 0 /\ m \in LaidWords
      BY <2>1, <3>1
    <3>3. QED
      BY <3>2, LaidEnd
  <2>5. AtAttribute'
    BY <1>1, <1>2, <2>1 DEF AtAttribute
  <2>6. \A m \in meant : ~(m.at < 0)
    BY <2>1, LaidEnd
  <2>7. ReadSoFar(byte_step)'
    BY <1>1, <1>2, <2>6 DEF ReadSoFar, NoAttributes
  <2>8. QED
    BY <2>3, <2>4, <2>5, <2>7
<1>7. StepOK'
  BY <1>1, <1>3, <1>5, <1>6 DEF StepOK, Exceptions
<1>8. SentOK' /\ SignedOK'
  BY <1>3 DEF SentOK, SignedOK, Exceptions
<1>9. QED
  BY <1>1, <1>4, <1>7, <1>8, DatagramKept DEF StunInv

\* The reader of a request that was laid out is at one of its attributes, and
\* finds it there.
LEMMA ReaderAt ==
  ASSUME StunInv, laidOut, step = "reading", byte_step < request.size
  PROVE  \E m \in meant :
           /\ m.at = byte_step /\ m \in LaidWords /\ Placed(m) /\ Chained(m)
           /\ WordAt(byte_step).type = m.type /\ WordAt(byte_step).len = m.len
<1>1. PICK m \in meant : m.at = byte_step
  BY DEF StunInv, StepOK, AtAttribute, StunTypeOK
<1>2. QED
  BY <1>1 DEF StunInv, LaidOK, StunTypeOK, Placed

LEMMA ReadAttributeInv ==
  ASSUME StunInv, ReadAttribute
  PROVE  StunInv'
<1> DEFINE w == WordAt(byte_step)
<1>1. /\ step = "reading" /\ step' = step /\ UNCHANGED datagram /\ calls' = calls
      /\ request' = request /\ laidOut' = laidOut /\ meant' = meant
      /\ byte_step < request.size /\ ~Overruns
      /\ attributes' = [attributes EXCEPT ![w.type] = [at |-> byte_step + 4, len |-> w.len]]
      /\ byte_step' = byte_step + 4 + Padded(w.len)
  BY DEF ReadAttribute, datagram
<1>2. byte_step \in Nat /\ byte_step % 4 = 0 /\ request.size \in Nat
  BY DEF StunInv, StunTypeOK
<1>3. w \in AllWords
  <2>1. byte_step + 4 <= request.size
    BY <1>1, <1>2 DEF Overruns
  <2>2. byte_step \div 4 \in Nat /\ 4 * (byte_step \div 4) + 4 <= request.size
    BY <1>2, <2>1, Quarter
  <2>3. QED
    BY <2>2 DEF WordAt, StunInv, StunTypeOK
<1>4. w.type \in AttrTypes /\ w.len \in Nat
  BY <1>3 DEF AllWords
<1>5. Padded(w.len) \in Nat /\ Padded(w.len) % 4 = 0
  BY <1>4, Rounding
<1> HIDE DEF w
<1>6. StunTypeOK'
  <2>1. byte_step' \in Nat /\ byte_step' % 4 = 0
    BY <1>1, <1>2, <1>5
  <2>2. attributes' \in [AttrTypes -> [at : Nat, len : Nat]]
    BY <1>1, <1>2, <1>4 DEF StunInv, StunTypeOK
  <2>3. QED
    BY <1>1, <2>1, <2>2, DatagramKept DEF StunInv, StunTypeOK
<1>7. ASSUME laidOut  PROVE AtAttribute' /\ ReadSoFar(byte_step)'
  <2>1. PICK m \in meant :
          /\ m.at = byte_step /\ m \in LaidWords /\ Placed(m) /\ Chained(m)
          /\ w.type = m.type /\ w.len = m.len
    BY <1>1, <1>7, ReaderAt DEF w
  <2>2. byte_step' = EndOf(m) /\ m.at < EndOf(m) /\ EndOf(m) \in Nat
    BY <1>1, <2>1, LaidEnd
  <2>3. AtAttribute'
    BY <1>1, <2>1, <2>2 DEF AtAttribute, Chained
  <2>4. \A n \in meant : n.at \in Nat /\ (n.at < EndOf(m) <=> n.at < m.at \/ n = m)
    <3> SUFFICES ASSUME NEW n \in meant
                 PROVE  n.at \in Nat /\ (n.at < EndOf(m) <=> n.at < m.at \/ n = m)
      OBVIOUS
    <3>1. n.at \in Nat /\ m.at \in Nat
      BY <2>1, LaidEnd DEF StunInv, StunTypeOK
    <3>2. (m.at < n.at => EndOf(m) <= n.at) /\ (m.at = n.at => m = n)
      BY <1>7 DEF StunInv, LaidOK
    <3>3. QED
      BY <2>2, <3>1, <3>2
  <2>5. ASSUME NEW t \in AttrTypes
        PROVE  LET before == {n \in meant : n.type = t /\ n.at < EndOf(m)}
               IN  \/ before = {} /\ attributes'[t] = Absent
                   \/ \E k \in before :
                        /\ \A n \in before : n.at <= k.at
                        /\ attributes'[t] = [at |-> k.at + 4, len |-> k.len]
    <3> DEFINE before == {n \in meant : n.type = t /\ n.at < EndOf(m)}
               earlier == {n \in meant : n.type = t /\ n.at < m.at}
    <3>1. CASE t = m.type
      <4>1. attributes'[t] = [at |-> m.at + 4, len |-> m.len]
        BY <1>1, <1>4, <2>1, <3>1 DEF StunInv, StunTypeOK
      <4>2. m \in before /\ \A n \in before : n.at <= m.at
        BY <2>2, <2>4, <3>1
      <4>3. QED
        BY <4>1, <4>2
    <3>2. CASE t # m.type
      <4>1. before = earlier
        BY <2>4, <3>2
      <4>2. attributes'[t] = attributes[t]
        BY <1>1, <1>4, <2>1, <3>2 DEF StunInv, StunTypeOK
      <4>3. \/ earlier = {} /\ attributes[t] = Absent
            \/ \E k \in earlier : /\ \A n \in earlier : n.at <= k.at
                                  /\ attributes[t] = [at |-> k.at + 4, len |-> k.len]
        BY <1>1, <1>7, <2>1 DEF StunInv, StepOK, ReadSoFar
      <4>4. QED
        BY <4>1, <4>2, <4>3
    <3>3. QED
      BY <3>1, <3>2
  <2>6. ReadSoFar(byte_step)'
    <3>1. meant' = meant
      BY <1>1
    <3> DEFINE known == attributes'
               end == EndOf(m)
    <3>2. byte_step' = end /\ attributes' = known
      BY <2>2
    <3>3. \A t \in AttrTypes :
            LET before == {n \in meant : n.type = t /\ n.at < end}
            IN  \/ before = {} /\ known[t] = Absent
                \/ \E k \in before :
                     /\ \A n \in before : n.at <= k.at
                     /\ known[t] = [at |-> k.at + 4, len |-> k.len]
      BY <2>5
    <3> HIDE DEF known, end
    <3>4. QED
      BY <3>1, <3>2, <3>3 DEF ReadSoFar
  <2>7. QED
    BY <2>3, <2>6
<1>8. StepOK'
  BY <1>1, <1>7 DEF StunInv, StepOK
<1>9. SentOK' /\ SignedOK'
  BY <1>1 DEF SentOK, SignedOK
<1>10. QED
  BY <1>1, <1>6, <1>8, <1>9, DatagramKept DEF StunInv

LEMMA ReadOverrunInv ==
  ASSUME StunInv, ReadOverrun
  PROVE  StunInv'
<1>1. /\ step = "reading" /\ step' = "IndexError" /\ UNCHANGED datagram /\ calls' = calls
      /\ laidOut' = laidOut /\ byte_step < request.size /\ Overruns
      /\ byte_step' = byte_step /\ attributes' = attributes
  BY DEF ReadOverrun, datagram, reader
<1>2. ~laidOut
  <2> SUFFICES ASSUME laidOut PROVE FALSE
    OBVIOUS
  <2>1. PICK m \in meant :
          /\ m.at = byte_step /\ m \in LaidWords /\ Placed(m)
          /\ WordAt(byte_step).len = m.len
    BY <1>1, ReaderAt
  <2>2. /\ EndOf(m) = m.at + 4 + Padded(m.len) /\ Padded(m.len) \in Nat
        /\ m.len <= Padded(m.len) /\ m.len \in Nat /\ m.at \in Nat
    BY <2>1, LaidEnd
  <2>3. EndOf(m) <= request.size /\ request.size \in Nat
    BY <2>1 DEF Placed, StunInv, StunTypeOK
  <2>4. byte_step + 4 <= request.size /\ byte_step + 4 + m.len <= request.size
    BY <2>1, <2>2, <2>3
  <2>5. QED
    BY <1>1, <2>1, <2>2, <2>3, <2>4 DEF Overruns
<1>3. StunTypeOK'
  BY <1>1, DatagramKept DEF StunInv, StunTypeOK, Exceptions
<1>4. StepOK' /\ SentOK' /\ SignedOK'
  BY <1>1, <1>2 DEF StepOK, SentOK, SignedOK
<1>5. QED
  BY <1>1, <1>3, <1>4, DatagramKept DEF StunInv

\* Once the loop has ended, all that the client laid out has been read.
LEMMA AllRead ==
  ASSUME StunInv, laidOut, step = "reading", byte_step >= request.size
  PROVE  ReadSoFar(request.size)
<1>1. ReadSoFar(byte_step) /\ AtAttribute /\ request.size \in Nat /\ byte_step \in Nat
  BY DEF StunInv, StepOK, StunTypeOK
<1>2. ASSUME NEW m \in meant, m.at = byte_step PROVE FALSE
  <2>1. EndOf(m) <= request.size /\ m \in LaidWords
    BY DEF StunInv, LaidOK, Placed, StunTypeOK
  <2>2. QED
    BY <1>1, <1>2, <2>1, LaidEnd
<1>3. byte_step = request.size
  BY <1>1, <1>2 DEF AtAttribute
<1>4. QED
  BY <1>1, <1>3

LEMMA SendReplyInv ==
  ASSUME StunInv, NEW name \in SoftwareNames, SendReply(name)
  PROVE  StunInv'
<1> DEFINE password == find_by_username(username)
<1>1. /\ step = "reading" /\ step' = "sent" /\ UNCHANGED datagram
      /\ request' = request /\ laidOut' = laidOut /\ meant' = meant /\ calls' = calls
      /\ byte_step' = byte_step /\ attributes' = attributes
      /\ byte_step >= request.size
      /\ response' = reply(name, password)
  BY DEF SendReply, datagram, reader
<1>2. request.length # 0
  BY <1>1 DEF StunInv, StepOK
<1>3. StunTypeOK'
  BY <1>1, DatagramKept DEF StunInv, StunTypeOK
<1>4. StepOK'
  <2>1. laidOut => ReadSoFar(request.size)
    BY <1>1, AllRead
  <2>2. ReadSoFar(request.size) => ReadSoFar(request.size)'
    BY <1>1 DEF ReadSoFar
  <2>3. QED
    BY <1>1, <1>2, <2>1, <2>2 DEF StepOK
<1>5. SentOK'
  <2>1. WellFormed(reply(name, password))
    BY <1>2, ReplyGood
  <2>2. QED
    BY <1>1, <2>1 DEF SentOK, WellFormed
<1>6. SignedOK'
  <2>1. Signatures(response') = IF password = {} THEN {} ELSE {password}
    BY <1>1, <1>2, ReplyGood
  <2>2. username' = username
    BY <1>1 DEF username, WordAt
  <2>3. password = username \cap calls
    BY DEF find_by_username
  <2>4. \A n1, n2 \in username : n1 = n2
    BY DEF username
  <2> HIDE DEF password
  <2>5. (IF password = {} THEN {} ELSE {password}) = {{n} : n \in password}
    BY <2>3, <2>4
  <2>6. Signatures(response)' = {{n} : n \in (username \cap calls)'}
    BY <1>1, <2>1, <2>2, <2>3, <2>5 DEF Signatures
  <2>7. QED
    BY <2>6 DEF SignedOK
<1>7. QED
  BY <1>1, <1>3, <1>4, <1>5, <1>6, DatagramKept DEF StunInv

LEMMA StunStepInv == StunInv /\ [Next]_vars => StunInv'
<1> SUFFICES ASSUME StunInv, [Next]_vars PROVE StunInv'
  OBVIOUS
<1>1. CASE UNCHANGED vars
  <2>1. /\ request' = request /\ laidOut' = laidOut /\ meant' = meant
        /\ calls' = calls /\ step' = step /\ response' = response
        /\ byte_step' = byte_step /\ attributes' = attributes /\ UNCHANGED datagram
    BY <1>1 DEF vars, datagram, reader
  <2>2. StunTypeOK'
    BY <2>1 DEF StunInv, StunTypeOK
  <2>3. StepOK'
    BY <2>1 DEF StunInv, StepOK, AtAttribute, ReadSoFar
  <2>4. SentOK'
    BY <2>1 DEF StunInv, SentOK, WellFormed
  <2>5. SignedOK'
    BY <2>1 DEF StunInv, SignedOK, Signatures, username, WordAt
  <2>6. QED
    BY <2>1, <2>2, <2>3, <2>4, <2>5, DatagramKept DEF StunInv
<1>2. ASSUME NEW a \in Attributes, LayOut(a)  PROVE StunInv'
  BY <1>2, LayOutInv
<1>3. CASE Receive
  BY <1>3, ReceiveInv
<1>4. CASE ReceiveAny
  BY <1>4, ReceiveAnyInv
<1>5. CASE ReadHeader
  BY <1>5, ReadHeaderInv
<1>6. CASE ReadAttribute
  BY <1>6, ReadAttributeInv
<1>7. CASE ReadOverrun
  BY <1>7, ReadOverrunInv
<1>8. ASSUME NEW name \in SoftwareNames, SendReply(name)  PROVE StunInv'
  BY <1>8, SendReplyInv
<1>9. CASE Forget
  <2>1. Init'
    BY <1>9 DEF Forget, Init
  <2>2. Init' => StunInv'
    BY StunInitInv, PTL
  <2>3. QED
    BY <2>1, <2>2
<1>10. QED
  BY <1>1, <1>2, <1>3, <1>4, <1>5, <1>6, <1>7, <1>8, <1>9 DEF Next

LEMMA StunInvariance == Spec => []StunInv
  BY StunInitInv, StunStepInv, PTL DEF Spec

-----------------------------------------------------------------------------
(* The properties *)

\* The last attribute of a type is the one that is known in the end.
LEMMA SentKnows ==
  ASSUME StunInv, laidOut, step = "sent", NEW m \in meant, IsLast(m)
  PROVE  attributes[m.type] = [at |-> m.at + 4, len |-> m.len]
<1> DEFINE before == {n \in meant : n.type = m.type /\ n.at < request.size}
<1>1. \A n \in meant : n \in LaidWords /\ n.at \in Nat /\ n.at < request.size
  <2> SUFFICES ASSUME NEW n \in meant
               PROVE  n \in LaidWords /\ n.at \in Nat /\ n.at < request.size
    OBVIOUS
  <2>1. n \in LaidWords /\ EndOf(n) <= request.size /\ request.size \in Nat
    BY DEF StunInv, StunTypeOK, LaidOK, Placed
  <2>2. QED
    BY <2>1, LaidEnd
<1>2. m \in before /\ m.type \in AttrTypes
  BY <1>1, LaidEnd
<1>3. PICK k \in before : /\ \A n \in before : n.at <= k.at
                          /\ attributes[m.type] = [at |-> k.at + 4, len |-> k.len]
  BY <1>2 DEF StunInv, StepOK, ReadSoFar
<1>4. k.at = m.at
  BY <1>1, <1>2, <1>3 DEF IsLast
<1>5. k = m
  BY <1>4, <1>3 DEF StunInv, LaidOK
<1>6. QED
  BY <1>3, <1>5

\* The username that Conv#username gives is the one that the client meant, if it
\* is one of a call.
LEMMA NamedCall ==
  ASSUME StunInv, laidOut, step = "sent"
  PROVE  username \cap calls = {m.name : m \in {m \in meant :
                      m.type = "USERNAME" /\ m.len # 0 /\ IsLast(m)}} \cap calls
<1> DEFINE named == {m.name : m \in {m \in meant :
                       m.type = "USERNAME" /\ m.len # 0 /\ IsLast(m)}}
<1>1. "USERNAME" \in AttrTypes /\ Nobody \notin calls
  BY TypesAssumption, UsernamesAssumption DEF StunInv, StunTypeOK
<1>2. ASSUME NEW m \in meant, m.type = "USERNAME", IsLast(m)
      PROVE  username = IF m.len = 0 THEN {Nobody} ELSE {m.name}
  <2>1. attributes["USERNAME"] = [at |-> m.at + 4, len |-> m.len]
    BY <1>2, SentKnows
  <2>2. m.at \in Nat /\ (m.len # 0 => WordAt(m.at + 4).name = m.name)
    BY LaidEnd DEF StunInv, StunTypeOK, LaidOK, Placed
  <2>3. attributes["USERNAME"] # Absent
    BY <2>1, <2>2 DEF Absent
  <2>4. QED
    BY <2>1, <2>2, <2>3 DEF username
<1>3. CASE \E m \in meant : m.type = "USERNAME" /\ IsLast(m)
  <2>1. PICK m \in meant : m.type = "USERNAME" /\ IsLast(m)
    BY <1>3
  <2>2. \A n \in meant : n.type = "USERNAME" /\ IsLast(n) => n = m
    <3> SUFFICES ASSUME NEW n \in meant, n.type = "USERNAME", IsLast(n) PROVE n = m
      OBVIOUS
    <3>1. n.at \in Nat /\ m.at \in Nat
      BY LaidEnd DEF StunInv, StunTypeOK
    <3>2. n.at = m.at
      BY <2>1, <3>1 DEF IsLast
    <3>3. QED
      BY <3>2 DEF StunInv, LaidOK
  <2>3. named = IF m.len = 0 THEN {} ELSE {m.name}
    BY <2>1, <2>2
  <2>4. username = IF m.len = 0 THEN {Nobody} ELSE {m.name}
    BY <1>2, <2>1
  <2>5. QED
    BY <1>1, <2>3, <2>4
<1>4. CASE ~\E m \in meant : m.type = "USERNAME" /\ IsLast(m)
  <2>1. named = {}
    BY <1>4
  <2>2. attributes["USERNAME"] = Absent
    <3> DEFINE before == {m \in meant : m.type = "USERNAME" /\ m.at < request.size}
    <3>1. \A m \in meant : m.type = "USERNAME" => m \in before
      <4> SUFFICES ASSUME NEW m \in meant PROVE m.at < request.size
        OBVIOUS
      <4>1. m \in LaidWords /\ EndOf(m) <= request.size /\ request.size \in Nat
        BY DEF StunInv, StunTypeOK, LaidOK, Placed
      <4>2. QED
        BY <4>1, LaidEnd
    <3>2. ~\E k \in before : \A n \in before : n.at <= k.at
      BY <1>4, <3>1 DEF IsLast
    <3>3. QED
      BY <1>1, <3>2 DEF StunInv, StepOK, ReadSoFar
  <2>3. username = {}
    BY <2>2 DEF username
  <2>4. QED
    BY <2>1, <2>3
<1>5. QED
  BY <1>3, <1>4

\* StunAttributes.new reads from a request that a client laid out exactly the
\* attributes that it put there, at their offsets, the last one of every type, and
\* raises on none (conv.cr:37 to :53): for any number of attributes, of any
\* lengths, in any order.
THEOREM AttributesParsed == Spec => []ParsesLaidOut
<1>1. StunInv => ParsesLaidOut
  <2> SUFFICES ASSUME StunInv, laidOut
               PROVE  /\ step \notin {"IndexError", "InvalidStunMessage"}
                      /\ step = "NoStunAttributes" => meant = {}
                      /\ step = "sent" =>
                           /\ \A m \in meant : IsLast(m) =>
                                attributes[m.type] = [at |-> m.at + 4, len |-> m.len]
                           /\ \A t \in AttrTypes \ {m.type : m \in meant} :
                                attributes[t] = Absent
    BY DEF ParsesLaidOut
  <2>1. /\ step \notin {"IndexError", "InvalidStunMessage"}
        /\ step = "NoStunAttributes" => meant = {}
    BY DEF StunInv, StepOK
  <2>2. ASSUME step = "sent", NEW t \in AttrTypes, t \notin {m.type : m \in meant}
        PROVE  attributes[t] = Absent
    <3>1. {m \in meant : m.type = t /\ m.at < request.size} = {}
      BY <2>2
    <3>2. ReadSoFar(request.size)
      BY <2>2 DEF StunInv, StepOK
    <3>3. QED
      BY <3>1, <3>2 DEF ReadSoFar
  <2>3. ASSUME step = "sent", NEW m \in meant, IsLast(m)
        PROVE  attributes[m.type] = [at |-> m.at + 4, len |-> m.len]
    BY <2>3, SentKnows
  <2>4. QED
    BY <2>1, <2>2, <2>3
<1>2. QED
  BY <1>1, StunInvariance, PTL

\* A client that goes through any reply by its lengths meets every attribute and
\* the end, and both hashes cover the length they are verified with (conv.cr:91,
\* :93 and :95): for any software name, with and without a password.
THEOREM RepliesWellFormed == Spec => []ReplyWellFormed
<1>1. StunInv => ReplyWellFormed
  BY DEF StunInv, SentOK, WellFormed, ReplyWellFormed
<1>2. QED
  BY <1>1, StunInvariance, PTL

\* A reply is signed with the password of the call that the last username of the
\* request names, and with no other (stun.cr:9), whatever else the request holds.
THEOREM RepliesSigned == Spec => []SignedForTheNamedCall
<1>1. StunInv => SignedForTheNamedCall
  <2> SUFFICES ASSUME StunInv, laidOut, step = "sent"
               PROVE  LET named == {m.name : m \in {m \in meant :
                                      m.type = "USERNAME" /\ m.len # 0 /\ IsLast(m)}}
                          hashes == {a \in response.attrs : a.type = "MESSAGE-INTEGRITY"}
                      IN  {a.key : a \in hashes} = {{n} : n \in named \cap calls}
    BY DEF SignedForTheNamedCall
  <2>1. Signatures(response) = {{n} : n \in username \cap calls}
    BY DEF StunInv, SignedOK
  <2>2. username \cap calls = {m.name : m \in {m \in meant :
                      m.type = "USERNAME" /\ m.len # 0 /\ IsLast(m)}} \cap calls
    BY NamedCall
  <2>3. QED
    BY <2>1, <2>2 DEF Signatures
<1>2. QED
  BY <1>1, StunInvariance, PTL
=============================================================================
