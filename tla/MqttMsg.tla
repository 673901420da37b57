------------------------------- MODULE MqttMsg -------------------------------
(***************************************************************************)
(* The MQTT-SN encoders of sensor/mqtt-msg.c: functions that write a message *)
(* into the 64 octets a caller keeps in its mqtt_connect_info_t.  The buffer *)
(* is used for one message after another, and most encoders do not clear it. *)
(* Any sequence of calls is possible.  Texts are sequences of octets; those  *)
(* too long for the buffer overrun it, which is not followed further.        *)
(***************************************************************************)
EXTENDS Widths, Sequences

CONSTANTS
  BufferSize,   \* of data[]
  PtrSize,      \* sizeof(info->buffer), what the memsets clear
  Callers,      \* who calls, each with
  Infos,        \* its mqtt_connect_info_t
  Texts         \* what they pass as data or dest

\* mqtt_connect_info_t, a char* being what it points to.
ConnectInfo ==
  [client_id : Seq(Octets), duration : Words, flags : Octets, gwid : Octets, msg_id : Words,
   protocol_id : Octets, radius : Octets, return_code : Octets, topic_id : Words,
   topic_name : Seq(Octets), will_message : Seq(Octets), will_topic : Seq(Octets)]

ASSUME MsgAssumption ==
  /\ Infos \in [Callers -> ConnectInfo] /\ Texts \subseteq Seq(Octets)
  /\ BufferSize \in 8 .. MaxOctet /\ PtrSize \in 0 .. 8

\* enum mqtt_message_type
Code == [advertise |-> 0, searchgw |-> 1, connect |-> 4, willtopic |-> 7, willmsg |-> 9,
         register |-> 10, regack |-> 11, publish |-> 12, puback |-> 13, pubcomp |-> 14,
         pubrec |-> 15, pubrel |-> 16, subscribe |-> 18, unsubscribe |-> 20, pingreq |-> 22,
         pingresp |-> 23, disconnect |-> 24, willtopicupd |-> 26, willmsgupd |-> 28]

VARIABLES
  data, length,   \* of info->buffer
  overran,        \* a write past data[]
  call            \* the last call, for the properties: its type, caller and text

msgVars == <<data, length, overran, call>>

NoCall == [type |-> "none"]
NoText == <<>>   \* of a message that ends with none

MsgInit ==
  /\ data = [k \in 0 .. BufferSize - 1 |-> 0] /\ length = 0 /\ overran = FALSE
  /\ call = NoCall

---------------------------------------------------------------------------
(* Writing.                                                                *)

Word(n) == <<n \div 256, n % 256>>

\* octets at the start of the buffer, the rest as it was.
Put(buffer, octets) ==
  [k \in DOMAIN buffer |-> IF k < Len(octets) THEN octets[k + 1] ELSE buffer[k]]

Cleared(n) == [k \in DOMAIN data |-> IF k < n THEN 0 ELSE data[k]]

Called(type, info, text) ==
  call' = [type |-> type, by |-> CHOOSE c \in Callers : Infos[c] = info, text |-> text]

Write(type, info, text, buffer, octets) ==
  /\ ~overran
  /\ Called(type, info, text)
  /\ overran' = (Len(octets) > BufferSize)
  /\ data' = Put(buffer, octets) /\ length' = Len(octets)

\* header_size and the two forms of a message that ends with a text; by tells
\* which text's length decides.
IsLong(by, fields) == Len(by) > 255 - (2 + Len(fields))

\* Mutant of Framed: the long form's length forgets its two more octets.
FramedShort(type, fields, text, by) ==
  IF IsLong(by, fields)
  THEN <<1>> \o Word(Len(text) + Len(fields) + 2) \o <<Code[type]>> \o fields \o text
  ELSE <<Len(text) + Len(fields) + 2, Code[type]>> \o fields \o text

Framed(type, fields, text, by) ==
  IF IsLong(by, fields)
  THEN <<1>> \o Word(Len(text) + Len(fields) + 4) \o <<Code[type]>> \o fields \o text
  ELSE <<Len(text) + Len(fields) + 2, Code[type]>> \o fields \o text

---------------------------------------------------------------------------
(* The encoders.                                                           *)

Plain(type, info, fields) ==
  Write(type, info, NoText, data, <<Len(fields) + 2, Code[type]>> \o fields)

Advertise(info) ==
  Write("advertise", info, NoText, Cleared(PtrSize),
        <<5, Code["advertise"], info.gwid>> \o Word(info.duration))

Searchgw(info) ==
  Write("searchgw", info, NoText, Cleared(PtrSize), <<3, Code["searchgw"], info.radius>>)

Connect(info) ==
  Write("connect", info, info.client_id, Cleared(BufferSize),
        Framed("connect", <<info.flags, info.protocol_id>> \o Word(info.duration),
               info.client_id, info.client_id))

Willtopic(info) ==
  Write("willtopic", info, info.will_topic, Cleared(PtrSize),
        Framed("willtopic", <<info.flags>>, info.will_topic, info.will_topic))

Willmsg(info) ==
  Write("willmsg", info, info.will_message, Cleared(PtrSize),
        Framed("willmsg", <<>>, info.will_message, info.will_message))

\* The length of the will message decides which form the topic's gets.
Register(info) ==
  Write("register", info, info.topic_name, Cleared(PtrSize),
        Framed("register", Word(info.topic_id) \o Word(info.msg_id),
               info.topic_name, info.will_message))

\* Octet 5 is written twice, and octet 6 stays what it was.
Acknowledge(type, info) ==
  Write(type, info, NoText, data,
        <<7, Code[type]>> \o Word(info.topic_id)
        \o <<info.msg_id \div 256, info.return_code, data[6]>>)

Regack(info) == Acknowledge("regack", info)
Puback(info) == Acknowledge("puback", info)

Publish(info, text) ==
  Write("publish", info, text, data,
        Framed("publish", <<info.flags>> \o Word(info.topic_id) \o Word(info.msg_id), text, text))

Pubrec(info) == Plain("pubrec", info, Word(info.msg_id))
Pubrel(info) == Plain("pubrel", info, Word(info.msg_id))
Pubcomp(info) == Plain("pubcomp", info, Word(info.msg_id))

ById(type, info) ==
  Write(type, info, NoText, data,
        <<7, Code[type], info.flags>> \o Word(info.msg_id) \o Word(info.topic_id))

\* The long form writes the message id where it then copies the name, and leaves two
\* octets before it as they were; it only comes with names that overrun the buffer.
ByName(type, info) ==
  LET name == info.topic_name
      long == IsLong(name, <<info.flags>> \o Word(info.msg_id))
      fields == <<info.flags>> \o IF long THEN <<data[5], data[6]>> ELSE Word(info.msg_id)
  IN Write(type, info, name, data, Framed(type, fields, name, name))

\* topic is "id" or "name"; any other does nothing.
Subscribe(info) == ById("subscribe", info) \/ ByName("subscribe", info)
Unsubscribe(info) == ById("unsubscribe", info) \/ ByName("unsubscribe", info)

\* The short form's first octet counts the client's name, not dest.
Pingreq(info, dest) ==
  LET octets == Framed("pingreq", <<>>, dest, dest)
  IN Write("pingreq", info, dest, data,
           IF IsLong(dest, <<>>) THEN octets
           ELSE [octets EXCEPT ![1] = (Len(info.client_id) + 2) % 256])

Pingresp(info) == Plain("pingresp", info, <<>>)
Disconnect(info) == Plain("disconnect", info, Word(info.duration))

Willtopicupd(info) ==
  Write("willtopicupd", info, info.will_topic, data,
        Framed("willtopicupd", <<info.flags>>, info.will_topic, info.will_topic))

\* The short form writes its length and type to octets 1 and 3, and the text over
\* the latter.
Willmsgupd(info) ==
  LET text == info.will_message
      n == Len(text) + 2
  IN IF IsLong(text, <<>>)
     THEN Write("willmsgupd", info, text, data, Framed("willmsgupd", <<>>, text, text))
     ELSE /\ ~overran /\ Called("willmsgupd", info, text)
          /\ overran' = (n > BufferSize) /\ length' = n
          /\ data' = [k \in DOMAIN data |->
                        IF k \in 2 .. n - 1 THEN text[k - 1]
                        ELSE CASE k = 1 -> n [] k = 3 -> Code["willmsgupd"] [] OTHER -> data[k]]

Encode(info) ==
  \/ Advertise(info) \/ Searchgw(info) \/ Connect(info)
  \/ Willtopic(info) \/ Willmsg(info) \/ Willtopicupd(info) \/ Willmsgupd(info)
  \/ Register(info) \/ Regack(info)
  \/ Puback(info) \/ Pubrec(info) \/ Pubrel(info) \/ Pubcomp(info)
  \/ Subscribe(info) \/ Unsubscribe(info)
  \/ Pingresp(info) \/ Disconnect(info)
  \/ \E text \in Texts : Publish(info, text) \/ Pingreq(info, text)

MsgNext == \E c \in Callers : Encode(Infos[c])

MsgSpec == MsgInit /\ [][MsgNext]_msgVars

---------------------------------------------------------------------------
(* Properties: a reader of the message that is sent.                       *)

Start == IF data[0] = 1 THEN 4 ELSE 2
Claimed == IF data[0] = 1 THEN 256 * data[1] + data[2] ELSE data[0]
Octet(k) == data[Start + k]
Number(k) == 256 * Octet(k) + Octet(k + 1)

\* The message's body is n octets and then the text.
EndsWith(n) ==
  /\ length = Start + n + Len(call.text)
  /\ \A k \in 1 .. Len(call.text) : Octet(n + k - 1) = call.text[k]

\* What MQTT-SN has in the body of each message.
Says(type, info) ==
  CASE type = "advertise" -> Octet(0) = info.gwid /\ Number(1) = info.duration /\ EndsWith(3)
    [] type = "searchgw" -> Octet(0) = info.radius /\ EndsWith(1)
    [] type = "connect" -> Octet(0) = info.flags /\ Octet(1) = info.protocol_id
                           /\ Number(2) = info.duration /\ EndsWith(4)
    [] type \in {"willtopic", "willtopicupd"} -> Octet(0) = info.flags /\ EndsWith(1)
    [] type \in {"willmsg", "pingreq", "pingresp"} -> EndsWith(0)
    [] type = "register" -> Number(0) = info.topic_id /\ Number(2) = info.msg_id /\ EndsWith(4)
    [] type = "publish" -> Octet(0) = info.flags /\ Number(1) = info.topic_id
                           /\ Number(3) = info.msg_id /\ EndsWith(5)
    [] type \in {"pubrec", "pubrel", "pubcomp"} -> Number(0) = info.msg_id /\ EndsWith(2)
    [] type \in {"subscribe", "unsubscribe"} ->
         Octet(0) = info.flags /\ Number(1) = info.msg_id
         /\ \/ call.text = NoText /\ Number(3) = info.topic_id /\ EndsWith(5)
            \/ call.text = info.topic_name /\ EndsWith(3)
    [] type = "disconnect" -> Number(0) = info.duration /\ EndsWith(2)
    [] type \in {"regack", "puback"} -> Number(0) = info.topic_id /\ EndsWith(5)

Mistaken == call.type = "pingreq" /\ Len(call.text) # Len(Infos[call.by].client_id)

\* Every encoder but one writes a message that says what was passed, over
\* whatever message was in the buffer before.  REGACK and PUBACK only get their
\* topic id right (lines 206 and 267), and a PINGREQ whose dest is not as long as
\* the client's own name has the length of another (line 431), even one that reads
\* as the start of a long form, before the right type and text.
ReadsBack ==
  call # NoCall /\ ~overran /\ call.type # "willmsgupd" =>
    IF Mistaken
    THEN /\ data[1] = Code["pingreq"] /\ length = Len(call.text) + 2
         /\ \A k \in 1 .. Len(call.text) : data[k + 1] = call.text[k]
    ELSE /\ data[Start - 1] = Code[call.type] /\ Claimed = length
         /\ Says(call.type, Infos[call.by])
=============================================================================
