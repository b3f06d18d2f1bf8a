-------------------------------- MODULE Stun --------------------------------
(***************************************************************************)
(* The STUN responder of stun/: Stun.handle_stun_payload, which reads a    *)
(* binding request (header.cr, conv.cr), looks up the call its username    *)
(* names (graph/collection.cr) and builds the reply.  The turns of the     *)
(* loop over the attributes are steps; no other fiber runs between them.   *)
(*                                                                         *)
(* What follows the header of a request is a number of bytes and, for each *)
(* multiple of 4, what a reader finds there: the type and the length of an *)
(* attribute if one starts there, the name if the value of one does.       *)
(* Hashes are ideal: a hash is the key and the length field it covers.     *)
(***************************************************************************)
EXTENDS Integers, FiniteSets

CONSTANTS
  Usernames,      \* the usernames of calls, formed of two fragments
  Nobody,         \* a name of no call
  AttrTypes,      \* AttrType
  Words,          \* what may be found at a multiple of 4: [type, len, name]
  MaxWords,       \* bound on the words of a datagram nobody laid out
  Attributes,     \* the attributes that clients lay out: [type, len, name]
  MaxAttributes,  \* bound on the attributes of one request
  SoftwareNames   \* [chars, vector]: vector for "test vector " of the tests

AllWords == [type : AttrTypes, len : Nat, name : Usernames \cup {Nobody}]

ASSUME UsernamesAssumption == Nobody \notin Usernames
ASSUME TypesAssumption == {"USERNAME", "OTHER"} \subseteq AttrTypes
ASSUME WordsAssumption == Words \subseteq AllWords /\ Attributes \subseteq AllWords
ASSUME MaxAssumption == MaxWords \in Nat /\ MaxAttributes \in Nat

\* Names are ASCII, and short enough for a 16-bit length of the reply.
LongestName == 65000

ASSUME NamesAssumption ==
  \A n \in SoftwareNames :
    /\ n.chars \in 0..LongestName
    /\ n.vector \in BOOLEAN
    /\ n.vector => n.chars = 12

VARIABLES
  calls,      \* Collection's calls, by the username each answers to
  request,    \* the datagram: the first fault of its header, the header's
              \* length field, and the bytes and words after the header
  laidOut,    \* history: a client laid it out by the rules
  meant,      \* history: the attributes it laid out, each with its offset
  step,       \* "idle", "waiting", "reading", "sent" or an exception
  byte_step,
  attributes, \* @attributes: where the value of each type is and its length
  response    \* data_io

datagram == <<request, laidOut, meant>>
reader == <<byte_step, attributes>>
vars == <<calls, datagram, step, reader, response>>

-----------------------------------------------------------------------------
(* Reading a request *)

\* Mutant of Padded: the padding is not skipped.
PaddedNot(len) == len

\* attr_len + 3 & ~3
Padded(len) == ((len + 3) \div 4) * 4

WordAt(pos) == request.words[pos \div 4]

Absent == [at |-> 0, len |-> 0]
NoAttributes == [t \in AttrTypes |-> Absent]

\* StunHeader.new does not raise.
ValidHeader == request.fault = "none" /\ request.length = request.size

\* Stun::Conv.new, and Conv#username as far as the loop: it raises if there are
\* no attributes, so that it comes before the reply without them.
ReadHeader ==
  /\ step = "waiting"
  /\ step' = IF request.fault = "short" THEN "IndexError"
             ELSE IF ~ValidHeader THEN "InvalidStunMessage"
             ELSE IF request.length = 0 THEN "NoStunAttributes"
             ELSE "reading"
  /\ UNCHANGED <<calls, datagram, reader, response>>

\* The slice of an attribute's header or value leaves @data.
Overruns ==
  \/ byte_step + 4 > request.size
  \/ byte_step + 4 + WordAt(byte_step).len > request.size

\* One turn of the loop of StunAttributes.new.  Of several attributes of a type
\* the last one stays.
ReadAttribute ==
  /\ step = "reading"
  /\ byte_step < request.size
  /\ ~Overruns
  /\ LET w == WordAt(byte_step)
     IN  /\ attributes' = [attributes EXCEPT
                             ![w.type] = [at |-> byte_step + 4, len |-> w.len]]
         /\ byte_step' = byte_step + 4 + Padded(w.len)
  /\ UNCHANGED <<calls, datagram, step, response>>

\* A turn that raises.
ReadOverrun ==
  /\ step = "reading"
  /\ byte_step < request.size
  /\ Overruns
  /\ step' = "IndexError"
  /\ UNCHANGED <<calls, datagram, reader, response>>

\* Conv#username: the names of the USERNAME attribute, none or one.
username ==
  LET a == attributes["USERNAME"]
  IN  IF a = Absent THEN {}
      ELSE IF a.len = 0 THEN {Nobody}
      ELSE {WordAt(a.at).name}

-----------------------------------------------------------------------------
(* The reply: data_io has a size, a length field, and the attributes with    *)
(* their offset and declared length, their keys (none or one) and the length *)
(* field at the time they are written, which is the one that a hash covers.  *)

to_u16(n) == n % 65536

set_length(io, length) == [io EXCEPT !.length = to_u16(length)]

\* Writes the header of an attribute and the bytes of its value.
Write(io, type, len, bytes, key) ==
  [size |-> io.size + 4 + bytes,
   length |-> io.length,
   attrs |-> io.attrs \cup {[type |-> type, at |-> io.size, len |-> to_u16(len),
                             key |-> key, covers |-> io.length]}]

write_xor_mapped_address_attr(io) == Write(io, "XOR-MAPPED-ADDRESS", 8, 8, {})

write_software_attribute(io, name) ==
  Write(io, "SOFTWARE", IF name.vector THEN name.chars - 1 ELSE name.chars,
        name.chars + ((4 - (name.chars % 4)) % 4), {})

\* Nothing without a password.
write_message_integrity(io, password) ==
  IF password = {} THEN io ELSE Write(io, "MESSAGE-INTEGRITY", 20, 20, password)

write_fingerprint(io) == Write(io, "FINGERPRINT", 4, 4, {})

\* reply_header.serialize
Serialized == [size |-> 20, length |-> 12, attrs |-> {}]

\* Mutant of reply: the length is not set again before the fingerprint.
replyLengthOnce(name, password) ==
  LET addressed == write_xor_mapped_address_attr(
                     write_software_attribute(Serialized, name))
      signed == write_message_integrity(
                  set_length(addressed, addressed.size + 4), password)
      printed == write_fingerprint(signed)
  IN  set_length(printed, printed.size - 20)

\* Conv#reply
reply(name, password) ==
  LET addressed == write_xor_mapped_address_attr(
                     write_software_attribute(Serialized, name))
      signed == write_message_integrity(
                  set_length(addressed, addressed.size + 4), password)
      printed == write_fingerprint(set_length(signed, signed.size - 12))
  IN  IF request.length = 0
      THEN set_length(write_xor_mapped_address_attr(Serialized), 12)
      ELSE set_length(printed, printed.size - 20)

\* Mutant of find_by_username: any call will do.
find_by_usernameAny(names) == IF calls = {} THEN {} ELSE {CHOOSE c \in calls : TRUE}

\* The password of the call with that username, for which the username stands.
find_by_username(names) == names \cap calls

\* The rest of Stun.handle_stun_payload, once the loop has ended.
SendReply(name) ==
  /\ step = "reading"
  /\ byte_step >= request.size
  /\ response' = reply(name, find_by_username(username))
  /\ step' = "sent"
  /\ UNCHANGED <<calls, datagram, reader>>

-----------------------------------------------------------------------------
(* The clients.  RFC 5389: a value is followed by up to 3 bytes of padding.  *)

RoundedUp(n) == CHOOSE m \in n..(n + 3) : m % 4 = 0

Filler == [type |-> "OTHER", len |-> 0, name |-> Nobody]

Request(fault, length, size, words) ==
  [fault |-> fault, length |-> length, size |-> size, words |-> words]

NoRequest == Request("none", 0, 0, [i \in {} |-> Filler])

\* A client adds an attribute to its request: its header, and then its value if
\* it has one.
LayOut(a) ==
  LET at == request.size
      end == at + 4 + RoundedUp(a.len)
      words == [i \in 0..(end \div 4 - 1) |->
                  IF i < at \div 4 THEN request.words[i]
                  ELSE IF i = at \div 4 THEN [a EXCEPT !.name = Nobody]
                  ELSE IF i = at \div 4 + 1 THEN [Filler EXCEPT !.name = a.name]
                  ELSE Filler]
  IN  /\ step = "idle"
      /\ Cardinality(meant) < MaxAttributes
      /\ request' = Request("none", end, end, words)
      /\ meant' = meant \cup {[type |-> a.type, len |-> a.len, name |-> a.name, at |-> at]}
      /\ UNCHANGED <<calls, laidOut, step, reader, response>>

\* The request is sent and received.  Calls come and go between two datagrams.
Receive ==
  /\ step = "idle"
  /\ step' = "waiting"
  /\ calls' \in SUBSET Usernames
  /\ UNCHANGED <<datagram, reader, response>>

\* Any other datagram: a header that is too short, not STUN's, not a request or
\* with another length, or attributes that run over the end.
ReceiveAny ==
  /\ step = "idle"
  /\ meant = {}
  /\ step' = "waiting"
  /\ calls' \in SUBSET Usernames
  /\ laidOut' = FALSE
  /\ \E n \in 0..MaxWords : \E words \in [0..(n - 1) -> Words], size \in 0..(4 * n),
        fault \in {"none", "short", "cookie", "type"} :
       \E length \in {size, size + 4} :
         request' = Request(fault, length, size, words)
  /\ UNCHANGED <<meant, reader, response>>

Init ==
  /\ calls = {}
  /\ request = NoRequest
  /\ laidOut = TRUE
  /\ meant = {}
  /\ step = "idle"
  /\ byte_step = 0
  /\ attributes = NoAttributes
  /\ response = Serialized

\* Nothing of a datagram is kept.  (After an exception another fiber goes on.)
Forget ==
  /\ step \notin {"idle", "waiting", "reading"}
  /\ calls' = {}
  /\ request' = NoRequest
  /\ laidOut' = TRUE
  /\ meant' = {}
  /\ step' = "idle"
  /\ byte_step' = 0
  /\ attributes' = NoAttributes
  /\ response' = Serialized

Next ==
  \/ \E a \in Attributes : LayOut(a)
  \/ Receive
  \/ ReceiveAny
  \/ ReadHeader
  \/ ReadAttribute
  \/ ReadOverrun
  \/ \E name \in SoftwareNames : SendReply(name)
  \/ Forget

Spec == Init /\ [][Next]_vars

-----------------------------------------------------------------------------
(* Properties *)

\* The client's attribute m is its last one of that type.
IsLast(m) == \A n \in meant : n.type = m.type => n.at <= m.at

\* A request that a client laid out is never refused, and the attributes read
\* from it are the ones the client put there, each at its own offset, the last
\* one of every type, whatever their lengths and number (conv.cr:37 to :53).
ParsesLaidOut ==
  laidOut =>
    /\ step \notin {"IndexError", "InvalidStunMessage"}
    /\ step = "NoStunAttributes" => meant = {}
    /\ step = "sent" =>
         /\ \A m \in meant :
              IsLast(m) => attributes[m.type] = [at |-> m.at + 4, len |-> m.len]
         /\ \A t \in AttrTypes \ {m.type : m \in meant} : attributes[t] = Absent

\* Where an attribute ends for a client, which goes by its length.
EndOf(a) == a.at + 4 + RoundedUp(a.len)

\* A client that goes through a reply by the lengths of its attributes finds
\* each where it was written and ends where the header says, and each hash
\* covers the length field that a client puts in place before it verifies that
\* hash: up to the end of the hash's own attribute (conv.cr:91, :93 and :95).
ReplyWellFormed ==
  step = "sent" =>
    /\ \A a, b \in response.attrs : a.at = b.at => a = b
    /\ {a.at : a \in response.attrs} \cup {20 + response.length}
         = {20} \cup {EndOf(a) : a \in response.attrs}
    /\ \A a \in response.attrs :
         a.type \in {"MESSAGE-INTEGRITY", "FINGERPRINT"} => a.covers = EndOf(a) - 20

\* A reply is signed with the password of the call that the request named, and
\* is not signed if it named none of the calls of that moment (stun.cr:9).
SignedForTheNamedCall ==
  (laidOut /\ step = "sent") =>
    LET named == {m.name : m \in {m \in meant :
                    m.type = "USERNAME" /\ m.len # 0 /\ IsLast(m)}}
        hashes == {a \in response.attrs : a.type = "MESSAGE-INTEGRITY"}
    IN  {a.key : a \in hashes} = {{n} : n \in named \cap calls}
=============================================================================
