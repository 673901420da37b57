---------------------------- MODULE MqttMsgProofs ----------------------------
(***************************************************************************)
(* Proof of ReadsBack, for any callers, texts and size of the buffer.       *)
(*                                                                         *)
(* Every encoder but the one of WILLMSGUPD and a PINGREQ with a wrong        *)
(* length writes octets that are a head, in one of two forms, some fields    *)
(* and a text (IsMessage).  Put in a buffer they fit in, over anything, they  *)
(* can be read back from it (Body), whichever form it is, since a reader      *)
(* finds it out from the first octet.  What each message says follows from    *)
(* where its fields are (FieldRead, NumberRead).                             *)
(***************************************************************************)
EXTENDS MqttMsg, SequenceTheorems, TLAPS

---------------------------------------------------------------------------
(* Octets, words and texts.                                                *)

LEMMA OctetInt == Octets \subseteq Int /\ \A x \in Octets : 0 <= x
<1>1. MaxOctet \in Int
  BY DEF MaxOctet
<1> QED
  BY <1>1 DEF Octets

LEMMA WordNat == Words \subseteq Nat
<1>1. MaxWord \in Int
  BY DEF MaxWord
<1> QED
  BY <1>1 DEF Words

LEMMA BufferRange == BufferSize \in Nat /\ 8 <= BufferSize /\ BufferSize <= 255
<1>1. MaxOctet \in Int /\ BufferSize \in 8 .. MaxOctet
  BY MsgAssumption DEF MaxOctet
<1>2. BufferSize \in Nat /\ 8 <= BufferSize /\ BufferSize <= MaxOctet
  BY <1>1
<1> QED
  BY <1>2 DEF MaxOctet

LEMMA Halves ==
  ASSUME NEW n \in Nat, NEW q \in Int, NEW r \in Int, q = n \div 256, r = n % 256
  PROVE  256 * q + r = n
OBVIOUS

LEMMA Joined ==
  ASSUME NEW a \in Seq(Int), NEW b \in Seq(Int)
  PROVE  /\ a \o b \in Seq(Int) /\ Len(a \o b) = Len(a) + Len(b)
         /\ \A j \in 1 .. Len(a) : (a \o b)[j] = a[j]
         /\ \A j \in 1 .. Len(b) : (a \o b)[Len(a) + j] = b[j]
<1> DEFINE c == a \o b
<1>1. /\ c \in Seq(Int) /\ Len(c) = Len(a) + Len(b)
      /\ \A j \in 1 .. Len(a) + Len(b) : c[j] = IF j <= Len(a) THEN a[j] ELSE b[j - Len(a)]
  BY ConcatProperties
<1>2. Len(a) \in Nat /\ Len(b) \in Nat
  OBVIOUS
<1> HIDE DEF c
<1>3. ASSUME NEW j \in 1 .. Len(a) PROVE c[j] = a[j]
  BY <1>1, <1>2
<1>4. ASSUME NEW j \in 1 .. Len(b) PROVE c[Len(a) + j] = b[j]
  <2> DEFINE k == Len(a) + j
  <2>1. k \in 1 .. Len(a) + Len(b) /\ ~(k <= Len(a)) /\ k - Len(a) = j
    BY <1>2
  <2> HIDE DEF k
  <2>2. c[k] = b[k - Len(a)]
    BY <1>1, <2>1
  <2> QED
    BY <2>1, <2>2 DEF k
<1> QED
  BY <1>1, <1>3, <1>4 DEF c

---------------------------------------------------------------------------
(* Messages and the buffer.                                                *)

\* The buffer is one all along.
IsBuffer(b) == b \in [0 .. BufferSize - 1 -> Int]

\* The message in the buffer is of a type, and its body is the fields, then the text.
Body(type, fields, text) ==
  /\ Start \in {2, 4} /\ data[Start - 1] = Code[type] /\ Claimed = length
  /\ length = Start + Len(fields) + Len(text)
  /\ \A j \in 1 .. Len(fields) : Octet(j - 1) = fields[j]
  /\ \A j \in 1 .. Len(text) : Octet(Len(fields) + j - 1) = text[j]

\* Octets that make up such a message, in the short or the long form.
IsMessage(octets, type, fields, text) ==
  LET n == Len(fields)
      m == Len(text)
      long == octets[1] = 1
      start == IF long THEN 4 ELSE 2
  IN /\ octets \in Seq(Int) /\ Len(octets) = start + n + m
     /\ IF long THEN octets[2] = Len(octets) \div 256 /\ octets[3] = Len(octets) % 256
                ELSE octets[1] = Len(octets)
     /\ octets[start] = Code[type]
     /\ \A j \in 1 .. n : octets[start + j] = fields[j]
     /\ \A j \in 1 .. m : octets[start + n + j] = text[j]

LEMMA PutFrame ==
  ASSUME NEW type, NEW fields \in Seq(Int), NEW text \in Seq(Int), NEW octets,
         IsMessage(octets, type, fields, text), NEW buffer, IsBuffer(buffer),
         Len(octets) <= BufferSize, data' = Put(buffer, octets), length' = Len(octets)
  PROVE  Body(type, fields, text)' /\ IsBuffer(data)'
<1> DEFINE n == Len(fields)  m == Len(text)  l == Len(octets)
           start == IF octets[1] = 1 THEN 4 ELSE 2
<1>1. n \in Nat /\ m \in Nat /\ l \in Nat /\ l = start + n + m /\ l <= BufferSize /\ start \in {2, 4}
  BY DEF IsMessage
<1>2. /\ octets[1] = 1 => octets[2] = l \div 256 /\ octets[3] = l % 256
      /\ octets[1] # 1 => octets[1] = l
      /\ octets[start] = Code[type]
      /\ \A j \in 1 .. n : octets[start + j] = fields[j]
      /\ \A j \in 1 .. m : octets[start + n + j] = text[j]
  BY Zenon DEF IsMessage
<1>3. (octets[1] = 1 => start = 4) /\ (octets[1] # 1 => start = 2)
  OBVIOUS
<1>4. data' = [k \in 0 .. BufferSize - 1 |-> IF k < l THEN octets[k + 1] ELSE buffer[k]]
  BY DEF IsBuffer, Put
<1>0. \A k \in 0 .. l - 1 : octets[k + 1] \in Int
  BY DEF IsMessage
<1> HIDE DEF n, m, l, start
<1>5. ASSUME NEW k \in Nat, k < l PROVE data'[k] = octets[k + 1]
  BY <1>1, <1>4, <1>5, BufferRange
<1>6. IsBuffer(data)'
  <2>1. ASSUME NEW k \in 0 .. BufferSize - 1
        PROVE  (IF k < l THEN octets[k + 1] ELSE buffer[k]) \in Int
    BY <1>0, <1>1, BufferRange DEF IsBuffer
  <2> QED
    BY <1>4, <2>1 DEF IsBuffer
<1>7. data'[0] = octets[1] /\ Start' = start
  <2>1. data'[0] = octets[1]
    BY <1>1, <1>5
  <2> QED
    BY <1>3, <2>1 DEF Start
<1>8. data'[Start' - 1] = Code[type]
  <2>1. start - 1 \in Nat /\ start - 1 < l /\ (start - 1) + 1 = start
    BY <1>1
  <2>2. data'[start - 1] = octets[(start - 1) + 1]
    BY <1>5, <2>1
  <2> QED
    BY <1>2, <1>7, <2>1, <2>2
<1>9. Claimed' = length'
  <2>1. length' = l
    BY DEF l
  <2>2. CASE octets[1] = 1
    <3>1. data'[1] = octets[2] /\ data'[2] = octets[3]
      BY <1>1, <1>3, <1>5, <2>2
    <3>2. octets[2] \in Int /\ octets[3] \in Int
      BY <1>1, <1>3, <2>2 DEF IsMessage, l
    <3>3. 256 * octets[2] + octets[3] = l
      BY <1>1, <1>2, <2>2, <3>2, Halves
    <3> QED
      BY <1>7, <2>1, <2>2, <3>1, <3>3 DEF Claimed
  <2>3. CASE octets[1] # 1
    BY <1>2, <1>7, <2>1, <2>3 DEF Claimed
  <2> QED
    BY <2>2, <2>3
<1>10. ASSUME NEW j \in 1 .. n PROVE Octet(j - 1)' = fields[j]
  <2> DEFINE k == start + (j - 1)
  <2>1. k \in Nat /\ k < l /\ k + 1 = start + j
    BY <1>1
  <2> HIDE DEF k
  <2>2. data'[k] = fields[j]
    BY <1>2, <1>5, <2>1, Zenon
  <2> QED
    BY <1>7, <2>2 DEF k, Octet
<1>11. ASSUME NEW j \in 1 .. m PROVE Octet(n + j - 1)' = text[j]
  <2> DEFINE k == start + (n + j - 1)
  <2>1. k \in Nat /\ k < l /\ k + 1 = start + n + j
    BY <1>1
  <2> HIDE DEF k
  <2>2. data'[k] = text[j]
    BY <1>2, <1>5, <2>1, Zenon
  <2> QED
    BY <1>7, <2>2 DEF k, Octet
<1>12. length' = Start' + n + m /\ Start' \in {2, 4}
  BY <1>1, <1>7 DEF l
<1> QED
  BY <1>6, <1>8, <1>9, <1>10, <1>11, <1>12 DEF Body, n, m

\* A head, the fields and the text make up a message if the head is right.
LEMMA HeadFrame ==
  ASSUME NEW type, NEW fields \in Seq(Int), NEW text \in Seq(Int), NEW head \in Seq(Int),
         \/ /\ Len(head) = 2 /\ head[1] # 1 /\ head[1] = Len(text) + Len(fields) + 2
            /\ head[2] = Code[type]
         \/ /\ Len(head) = 4 /\ head[1] = 1 /\ head[2] = (Len(text) + Len(fields) + 4) \div 256
            /\ head[3] = (Len(text) + Len(fields) + 4) % 256 /\ head[4] = Code[type]
  PROVE  IsMessage(head \o fields \o text, type, fields, text)
<1> DEFINE n == Len(fields)  m == Len(text)  h == Len(head)
           front == head \o fields  octets == front \o text
<1>1. n \in Nat /\ m \in Nat /\ h \in {2, 4}
  OBVIOUS
<1>2. /\ front \in Seq(Int) /\ Len(front) = h + n
      /\ \A j \in 1 .. h : front[j] = head[j]
      /\ \A j \in 1 .. n : front[h + j] = fields[j]
  BY Joined
<1> HIDE DEF front
<1>3. /\ octets \in Seq(Int) /\ Len(octets) = h + n + m
      /\ \A j \in 1 .. h + n : octets[j] = front[j]
      /\ \A j \in 1 .. m : octets[h + n + j] = text[j]
  <2>1. /\ octets \in Seq(Int) /\ Len(octets) = Len(front) + Len(text)
        /\ \A j \in 1 .. Len(front) : octets[j] = front[j]
        /\ \A j \in 1 .. Len(text) : octets[Len(front) + j] = text[j]
    BY <1>2, Joined, Zenon
  <2> QED
    BY <1>2, <2>1, Zenon
<1> HIDE DEF octets, n, m, h
<1>4. ASSUME NEW j \in 1 .. h PROVE octets[j] = head[j]
  <2>1. j \in 1 .. h + n
    BY <1>1
  <2> QED
    BY <1>2, <1>3, <2>1
<1>5. ASSUME NEW j \in 1 .. n PROVE octets[h + j] = fields[j]
  <2>1. h + j \in 1 .. h + n
    BY <1>1
  <2> QED
    BY <1>2, <1>3, <2>1
<1>6. CASE h = 2 /\ head[1] # 1 /\ head[1] = m + n + 2 /\ head[2] = Code[type]
  <2>1. octets[1] = head[1] /\ octets[2] = head[2]
    BY <1>4, <1>6
  <2>2. Len(octets) = 2 + n + m /\ octets[1] = Len(octets)
    BY <1>1, <1>3, <1>6, <2>1
  <2> QED
    BY <1>3, <1>5, <1>6, <2>1, <2>2 DEF IsMessage, n, m, octets, front
<1>7. CASE /\ h = 4 /\ head[1] = 1 /\ head[2] = (m + n + 4) \div 256
           /\ head[3] = (m + n + 4) % 256 /\ head[4] = Code[type]
  <2>1. octets[1] = head[1] /\ octets[2] = head[2] /\ octets[3] = head[3] /\ octets[4] = head[4]
    BY <1>4, <1>7
  <2>2. Len(octets) = 4 + n + m /\ Len(octets) = m + n + 4
    BY <1>1, <1>3, <1>7
  <2> QED
    BY <1>3, <1>5, <1>7, <2>1, <2>2 DEF IsMessage, n, m, octets, front
<1> QED
  BY <1>6, <1>7 DEF n, m, h

LEMMA ShortFrame ==
  ASSUME NEW type, Code[type] \in Int, NEW fields \in Seq(Int), NEW text \in Seq(Int)
  PROVE  IsMessage(<<Len(text) + Len(fields) + 2, Code[type]>> \o fields \o text, type, fields, text)
<1> DEFINE l == Len(text) + Len(fields) + 2  code == Code[type]  head == <<l, code>>
<1>1. l \in Int /\ l # 1 /\ code \in Int
  OBVIOUS
<1>2. l = Len(text) + Len(fields) + 2 /\ code = Code[type]
  OBVIOUS
<1> HIDE DEF l, code
<1>3. head \in Seq(Int) /\ Len(head) = 2 /\ head[1] = l /\ head[2] = code
  BY <1>1
<1> HIDE DEF head
<1>4. IsMessage(head \o fields \o text, type, fields, text)
  BY <1>1, <1>2, <1>3, HeadFrame
<1> QED
  BY <1>4 DEF head, l, code

LEMMA LongFrame ==
  ASSUME NEW type, Code[type] \in Int, NEW fields \in Seq(Int), NEW text \in Seq(Int)
  PROVE  IsMessage(<<1>> \o Word(Len(text) + Len(fields) + 4) \o <<Code[type]>> \o fields \o text,
                 type, fields, text)
<1> DEFINE l == Len(text) + Len(fields) + 4  code == Code[type]  a == l \div 256  b == l % 256
           head == <<1>> \o Word(l) \o <<code>>
<1>1. l \in Nat /\ code \in Int /\ a \in Int /\ b \in Int
  OBVIOUS
<1>2. l = Len(text) + Len(fields) + 4 /\ code = Code[type]
  OBVIOUS
<1>3. Word(l) = <<a, b>>
  BY DEF Word
<1>4. a = (Len(text) + Len(fields) + 4) \div 256 /\ b = (Len(text) + Len(fields) + 4) % 256
  OBVIOUS
<1> HIDE DEF l, code, a, b
<1>5. head = <<1>> \o <<a, b>> \o <<code>>
  BY <1>3
<1> HIDE DEF head
<1>6. head \in Seq(Int) /\ Len(head) = 4 /\ head[1] = 1 /\ head[2] = a /\ head[3] = b /\ head[4] = code
  BY <1>1, <1>5
<1>7. IsMessage(head \o fields \o text, type, fields, text)
  BY <1>2, <1>4, <1>6, HeadFrame
<1> QED
  BY <1>7 DEF head, l, code

LEMMA TextInt ==
  ASSUME NEW s \in Seq(Octets)
  PROVE  s \in Seq(Int)
<1> DEFINE n == Len(s)
<1>1. n \in Nat /\ s \in [1 .. n -> Octets]
  OBVIOUS
<1> HIDE DEF n
<1>2. s \in [1 .. n -> Int]
  BY <1>1, OctetInt
<1> QED
  BY <1>1, <1>2, SeqDef

\* What goes over the texts and the numbers of a caller.
LEMMA Passed ==
  ASSUME NEW c \in Callers
  PROVE  /\ Infos[c] \in ConnectInfo
         /\ Infos[c].client_id \in Seq(Int) /\ Infos[c].topic_name \in Seq(Int)
         /\ Infos[c].will_message \in Seq(Int) /\ Infos[c].will_topic \in Seq(Int)
         /\ Infos[c].duration \in Nat /\ Infos[c].msg_id \in Nat /\ Infos[c].topic_id \in Nat
         /\ Infos[c].flags \in Int /\ Infos[c].gwid \in Int /\ Infos[c].protocol_id \in Int
         /\ Infos[c].radius \in Int /\ Infos[c].return_code \in Int
<1>1. Infos[c] \in ConnectInfo
  BY MsgAssumption
<1>2. /\ Infos[c].client_id \in Seq(Octets) /\ Infos[c].topic_name \in Seq(Octets)
      /\ Infos[c].will_message \in Seq(Octets) /\ Infos[c].will_topic \in Seq(Octets)
      /\ Infos[c].duration \in Words /\ Infos[c].msg_id \in Words /\ Infos[c].topic_id \in Words
      /\ Infos[c].flags \in Octets /\ Infos[c].gwid \in Octets /\ Infos[c].protocol_id \in Octets
      /\ Infos[c].radius \in Octets /\ Infos[c].return_code \in Octets
  BY <1>1, Zenon DEF ConnectInfo
<1> QED
  BY <1>1, <1>2, TextInt, OctetInt, WordNat

\* The number of a word's two octets.
Pair(a, b) == 256 * a + b

LEMMA Halved ==
  ASSUME NEW n \in Nat
  PROVE  \E q, r \in Int : Word(n) = <<q, r>> /\ Pair(q, r) = n
<1> DEFINE q == n \div 256  r == n % 256
<1>1. q \in Int /\ r \in Int /\ q = n \div 256 /\ r = n % 256
  OBVIOUS
<1>2. Word(n) = <<q, r>>
  BY DEF Word
<1> HIDE DEF q, r
<1>3. Pair(q, r) = n
  BY <1>1, Halves DEF Pair
<1> QED
  BY <1>1, <1>2, <1>3

---------------------------------------------------------------------------
(* From a message in the buffer to what a reader finds.                    *)

\* The last call, as the properties know it.
Recorded(type, c, text) ==
  call.type = type /\ call.text = text /\ call.by \in Callers /\ Infos[call.by] = Infos[c]

LEMMA Records ==
  ASSUME NEW type, NEW c \in Callers, NEW text, Called(type, Infos[c], text)
  PROVE  Recorded(type, c, text)'
<1> DEFINE by == CHOOSE d \in Callers : Infos[d] = Infos[c]
<1>1. by \in Callers /\ Infos[by] = Infos[c]
  OBVIOUS
<1>2. call' = [type |-> type, by |-> by, text |-> text]
  BY DEF Called
<1> HIDE DEF by
<1> QED
  BY <1>1, <1>2 DEF Recorded

LEMMA Wrote ==
  ASSUME NEW type, NEW c \in Callers, NEW fields \in Seq(Int), NEW text \in Seq(Int),
         NEW buffer, IsBuffer(buffer), NEW octets, IsMessage(octets, type, fields, text),
         Write(type, Infos[c], text, buffer, octets), ~overran'
  PROVE  Body(type, fields, text)' /\ IsBuffer(data)' /\ Recorded(type, c, text)'
<1>1. Len(octets) \in Int
  BY DEF IsMessage
<1>5. ~(Len(octets) > BufferSize)
  BY Zenon DEF Write
<1>2. Len(octets) <= BufferSize
  BY <1>1, <1>5, BufferRange
<1>3. data' = Put(buffer, octets) /\ length' = Len(octets)
  BY DEF Write
<1>4. Called(type, Infos[c], text)
  BY DEF Write
<1> QED
  BY <1>2, <1>3, <1>4, PutFrame, Records

\* What a reader finds where the fields are.
LEMMA FieldRead ==
  ASSUME NEW type, NEW fields \in Seq(Int), NEW text, Body(type, fields, text)',
         NEW k \in 1 .. Len(fields)
  PROVE  Octet(k - 1)' = fields[k]
BY Zenon DEF Body

LEMMA NumberRead ==
  ASSUME NEW type, NEW fields \in Seq(Int), NEW text, Body(type, fields, text)',
         NEW k \in 1 .. Len(fields), k + 1 \in 1 .. Len(fields)
  PROVE  Number(k - 1)' = Pair(fields[k], fields[k + 1])
<1>1. k \in Int /\ (k + 1) - 1 = (k - 1) + 1
  OBVIOUS
<1>2. Octet(k - 1)' = fields[k] /\ Octet((k + 1) - 1)' = fields[k + 1]
  BY FieldRead, Zenon
<1>3. Octet((k - 1) + 1)' = fields[k + 1]
  BY <1>1, <1>2, Zenon
<1> QED
  BY <1>2, <1>3, Zenon DEF Number, Pair

LEMMA Octet0Read ==
  ASSUME NEW type, NEW fields \in Seq(Int), NEW text, Body(type, fields, text)', Len(fields) >= 1
  PROVE  Octet(0)' = fields[1]
BY FieldRead

LEMMA Octet1Read ==
  ASSUME NEW type, NEW fields \in Seq(Int), NEW text, Body(type, fields, text)', Len(fields) >= 2
  PROVE  Octet(1)' = fields[2]
BY FieldRead

LEMMA Number0Read ==
  ASSUME NEW type, NEW fields \in Seq(Int), NEW text, Body(type, fields, text)', Len(fields) >= 2
  PROVE  Number(0)' = Pair(fields[1], fields[2])
<1>1. Number(1 - 1)' = Pair(fields[1], fields[1 + 1])
  <2>1. 1 \in 1 .. Len(fields) /\ 1 + 1 \in 1 .. Len(fields)
    OBVIOUS
  <2> QED
    BY <2>1, NumberRead, Zenon
<1> QED
  BY <1>1

LEMMA Number1Read ==
  ASSUME NEW type, NEW fields \in Seq(Int), NEW text, Body(type, fields, text)', Len(fields) >= 3
  PROVE  Number(1)' = Pair(fields[2], fields[3])
<1>1. Number(2 - 1)' = Pair(fields[2], fields[2 + 1])
  <2>1. 2 \in 1 .. Len(fields) /\ 2 + 1 \in 1 .. Len(fields)
    OBVIOUS
  <2> QED
    BY <2>1, NumberRead, Zenon
<1> QED
  BY <1>1

LEMMA Number2Read ==
  ASSUME NEW type, NEW fields \in Seq(Int), NEW text, Body(type, fields, text)', Len(fields) >= 4
  PROVE  Number(2)' = Pair(fields[3], fields[4])
<1>1. Number(3 - 1)' = Pair(fields[3], fields[3 + 1])
  <2>1. 3 \in 1 .. Len(fields) /\ 3 + 1 \in 1 .. Len(fields)
    OBVIOUS
  <2> QED
    BY <2>1, NumberRead, Zenon
<1> QED
  BY <1>1

LEMMA Number3Read ==
  ASSUME NEW type, NEW fields \in Seq(Int), NEW text, Body(type, fields, text)', Len(fields) >= 5
  PROVE  Number(3)' = Pair(fields[4], fields[5])
<1>1. Number(4 - 1)' = Pair(fields[4], fields[4 + 1])
  <2>1. 4 \in 1 .. Len(fields) /\ 4 + 1 \in 1 .. Len(fields)
    OBVIOUS
  <2> QED
    BY <2>1, NumberRead, Zenon
<1> QED
  BY <1>1

LEMMA EndRead ==
  ASSUME NEW type, NEW c, NEW fields, NEW text, Body(type, fields, text)',
         Recorded(type, c, text)'
  PROVE  EndsWith(Len(fields))'
BY DEF Body, Recorded, EndsWith

\* A message reads back if its fields do.
LEMMA Reads ==
  ASSUME NEW type, NEW c, NEW fields, NEW text, Body(type, fields, text)',
         Recorded(type, c, text)', Says(type, Infos[c])', ~Mistaken'
  PROVE  ReadsBack'
BY DEF Body, Recorded, ReadsBack

---------------------------------------------------------------------------
(* The two ways the encoders put their octets together.                    *)

LEMMA Codes ==
  ASSUME NEW type \in DOMAIN Code
  PROVE  Code[type] \in Int
BY DEF Code

LEMMA PlainFrame ==
  ASSUME NEW type \in DOMAIN Code, NEW fields \in Seq(Int)
  PROVE  IsMessage(<<Len(fields) + 2, Code[type]>> \o fields, type, fields, NoText)
<1> DEFINE l == Len(fields) + 2  code == Code[type]  head == <<l, code>>
<1>1. l \in Int /\ l # 1 /\ l = Len(fields) + 2 /\ code = Code[type] /\ code \in Int
  BY Codes
<1>2. NoText \in Seq(Int) /\ Len(NoText) = 0
  BY DEF NoText
<1> HIDE DEF l, code
<1>3. head \in Seq(Int) /\ Len(head) = 2 /\ head[1] = l /\ head[2] = code
  BY <1>1
<1> HIDE DEF head
<1>4. IsMessage(head \o fields \o NoText, type, fields, NoText)
  <2>1. head[1] = Len(NoText) + Len(fields) + 2 /\ head[1] # 1
    BY <1>1, <1>2, <1>3
  <2> QED
    BY <1>1, <1>2, <1>3, <2>1, HeadFrame
<1>5. (head \o fields) \o NoText = head \o fields
  <2> DEFINE front == head \o fields
  <2>1. front \in Seq(Int)
    BY <1>3
  <2> HIDE DEF front
  <2>2. front \o NoText = front
    BY <2>1 DEF NoText
  <2> QED
    BY <2>2 DEF front
<1> QED
  BY <1>4, <1>5 DEF head, l, code

LEMMA FramedFrame ==
  ASSUME NEW type \in DOMAIN Code, NEW fields \in Seq(Int), NEW text \in Seq(Int), NEW by
  PROVE  IsMessage(Framed(type, fields, text, by), type, fields, text)
BY Codes, ShortFrame, LongFrame DEF Framed

LEMMA ClearedBuffer ==
  ASSUME NEW n \in Int, IsBuffer(data)
  PROVE  IsBuffer(Cleared(n))
BY DEF IsBuffer, Cleared

---------------------------------------------------------------------------
(* The encoders.                                                           *)

LEMMA ConnectReadsBack ==
  ASSUME NEW c \in Callers, IsBuffer(data), Connect(Infos[c]), ~overran'
  PROVE  ReadsBack' /\ IsBuffer(data)'
<1> DEFINE i == Infos[c]  text == i.client_id
           fields == <<i.flags, i.protocol_id>> \o Word(i.duration)
           octets == Framed("connect", fields, text, text)
<1>1. i.flags \in Int /\ i.protocol_id \in Int /\ i.duration \in Nat /\ text \in Seq(Int)
  BY Passed
<1>2. PICK q \in Int, r \in Int : Word(i.duration) = <<q, r>> /\ Pair(q, r) = i.duration
  BY <1>1, Halved
<1>3. /\ Write("connect", i, text, Cleared(BufferSize), octets)
      /\ fields = <<i.flags, i.protocol_id>> \o <<q, r>>
  BY <1>2 DEF Connect
<1> HIDE DEF i, text, fields
<1>4. /\ fields \in Seq(Int) /\ Len(fields) = 4 /\ fields[1] = i.flags
      /\ fields[2] = i.protocol_id /\ fields[3] = q /\ fields[4] = r
  BY <1>1, <1>3
<1>5. IsBuffer(Cleared(BufferSize)) /\ IsMessage(octets, "connect", fields, text)
  BY <1>1, <1>4, BufferRange, ClearedBuffer, FramedFrame DEF Code
<1> HIDE DEF octets
<1>6. Body("connect", fields, text)' /\ IsBuffer(data)' /\ Recorded("connect", c, text)'
  BY <1>1, <1>3, <1>4, <1>5, Wrote DEF i
<1>7. Octet(0)' = fields[1] /\ Octet(1)' = fields[2] /\ Number(2)' = Pair(fields[3], fields[4])
  <2>1. Len(fields) >= 1 /\ Len(fields) >= 2 /\ Len(fields) >= 4
    BY <1>4
  <2> QED
    BY <1>4, <1>6, <2>1, Octet0Read, Octet1Read, Number2Read
<1>8. EndsWith(4)'
  BY <1>4, <1>6, EndRead
<1>9. Says("connect", i)'
  BY <1>2, <1>4, <1>7, <1>8 DEF Says
<1> QED
  BY <1>6, <1>9, Reads DEF Mistaken, Recorded, i

LEMMA WillTopicReadsBack ==
  ASSUME NEW type \in {"willtopic", "willtopicupd"}, NEW c \in Callers,
         NEW buffer, IsBuffer(buffer),
         Write(type, Infos[c], Infos[c].will_topic, buffer,
               Framed(type, <<Infos[c].flags>>, Infos[c].will_topic, Infos[c].will_topic)),
         ~overran'
  PROVE  ReadsBack' /\ IsBuffer(data)'
<1> DEFINE i == Infos[c]  text == i.will_topic  fields == <<i.flags>>
           octets == Framed(type, fields, text, text)
<1>1. i.flags \in Int /\ text \in Seq(Int)
  BY Passed
<1>2. Write(type, i, text, buffer, octets)
  OBVIOUS
<1> HIDE DEF i, text
<1>3. fields \in Seq(Int) /\ Len(fields) = 1 /\ fields[1] = i.flags
  BY <1>1
<1> HIDE DEF fields
<1>4. IsMessage(octets, type, fields, text)
  BY <1>1, <1>3, FramedFrame DEF Code
<1> HIDE DEF octets
<1>5. Body(type, fields, text)' /\ IsBuffer(data)' /\ Recorded(type, c, text)'
  BY <1>1, <1>2, <1>3, <1>4, Wrote DEF i
<1>6. Octet(0)' = i.flags
  <2>1. Len(fields) >= 1
    BY <1>3
  <2> QED
    BY <1>3, <1>5, <2>1, Octet0Read
<1>7. EndsWith(1)'
  BY <1>3, <1>5, EndRead
<1>8. Says(type, i)'
  BY <1>6, <1>7 DEF Says
<1> QED
  BY <1>5, <1>8, Reads DEF Mistaken, Recorded, i

LEMMA WillmsgReadsBack ==
  ASSUME NEW c \in Callers, IsBuffer(data), Willmsg(Infos[c]), ~overran'
  PROVE  ReadsBack' /\ IsBuffer(data)'
<1> DEFINE i == Infos[c]  text == i.will_message  fields == <<>>
           octets == Framed("willmsg", fields, text, text)
<1>1. text \in Seq(Int)
  BY Passed
<1>2. Write("willmsg", i, text, Cleared(PtrSize), octets)
  BY DEF Willmsg
<1> HIDE DEF i, text
<1>3. fields \in Seq(Int) /\ Len(fields) = 0
  OBVIOUS
<1> HIDE DEF fields
<1>4. IsBuffer(Cleared(PtrSize)) /\ IsMessage(octets, "willmsg", fields, text)
  <2>1. "willmsg" \in DOMAIN Code
    BY DEF Code
  <2>2. IsBuffer(Cleared(PtrSize))
    BY MsgAssumption, ClearedBuffer
  <2> QED
    BY <1>1, <1>3, <2>1, <2>2, FramedFrame
<1> HIDE DEF octets
<1>5. Body("willmsg", fields, text)' /\ IsBuffer(data)' /\ Recorded("willmsg", c, text)'
  BY <1>1, <1>2, <1>3, <1>4, Wrote DEF i
<1>6. EndsWith(0)'
  BY <1>3, <1>5, EndRead
<1>7. Says("willmsg", i)'
  BY <1>6 DEF Says
<1> QED
  BY <1>5, <1>7, Reads DEF Mistaken, Recorded, i

\* The length of another text may choose the form: the fields and the text are the same.
LEMMA RegisterReadsBack ==
  ASSUME NEW c \in Callers, IsBuffer(data), Register(Infos[c]), ~overran'
  PROVE  ReadsBack' /\ IsBuffer(data)'
<1> DEFINE i == Infos[c]  text == i.topic_name
           fields == Word(i.topic_id) \o Word(i.msg_id)
           octets == Framed("register", fields, text, i.will_message)
<1>1. i.topic_id \in Nat /\ i.msg_id \in Nat /\ text \in Seq(Int)
  BY Passed
<1>2. PICK q \in Int, r \in Int : Word(i.topic_id) = <<q, r>> /\ Pair(q, r) = i.topic_id
  BY <1>1, Halved
<1>3. PICK s \in Int, t \in Int : Word(i.msg_id) = <<s, t>> /\ Pair(s, t) = i.msg_id
  BY <1>1, Halved
<1>4. /\ Write("register", i, text, Cleared(PtrSize), octets)
      /\ fields = <<q, r>> \o <<s, t>>
  BY <1>2, <1>3 DEF Register
<1> HIDE DEF i, text, fields
<1>5. /\ fields \in Seq(Int) /\ Len(fields) = 4
      /\ fields[1] = q /\ fields[2] = r /\ fields[3] = s /\ fields[4] = t
  BY <1>4
<1>6. IsBuffer(Cleared(PtrSize)) /\ IsMessage(octets, "register", fields, text)
  BY <1>1, <1>5, MsgAssumption, ClearedBuffer, FramedFrame DEF Code
<1> HIDE DEF octets
<1>7. Body("register", fields, text)' /\ IsBuffer(data)' /\ Recorded("register", c, text)'
  BY <1>1, <1>4, <1>5, <1>6, Wrote DEF i
<1>8. Number(0)' = Pair(fields[1], fields[2]) /\ Number(2)' = Pair(fields[3], fields[4])
  <2>1. Len(fields) >= 2 /\ Len(fields) >= 4
    BY <1>5
  <2>2. Number(0)' = Pair(fields[1], fields[2])
    BY <1>5, <1>7, <2>1, Number0Read
  <2>3. Number(2)' = Pair(fields[3], fields[4])
    BY <1>5, <1>7, <2>1, Number2Read
  <2> QED
    BY <2>2, <2>3
<1>9. EndsWith(4)'
  BY <1>5, <1>7, EndRead
<1>10. Says("register", i)'
  BY <1>2, <1>3, <1>5, <1>8, <1>9 DEF Says
<1> QED
  BY <1>7, <1>10, Reads DEF Mistaken, Recorded, i

LEMMA PublishReadsBack ==
  ASSUME NEW c \in Callers, NEW text \in Texts, IsBuffer(data), Publish(Infos[c], text), ~overran'
  PROVE  ReadsBack' /\ IsBuffer(data)'
<1> DEFINE i == Infos[c]
           fields == <<i.flags>> \o Word(i.topic_id) \o Word(i.msg_id)
           octets == Framed("publish", fields, text, text)
<1>1. i.flags \in Int /\ i.topic_id \in Nat /\ i.msg_id \in Nat /\ text \in Seq(Int)
  BY Passed, TextInt, MsgAssumption
<1>2. PICK q \in Int, r \in Int : Word(i.topic_id) = <<q, r>> /\ Pair(q, r) = i.topic_id
  BY <1>1, Halved
<1>3. PICK s \in Int, t \in Int : Word(i.msg_id) = <<s, t>> /\ Pair(s, t) = i.msg_id
  BY <1>1, Halved
<1>4. /\ Write("publish", i, text, data, octets)
      /\ fields = <<i.flags>> \o <<q, r>> \o <<s, t>>
  BY <1>2, <1>3 DEF Publish
<1> HIDE DEF i, fields
<1>5. /\ fields \in Seq(Int) /\ Len(fields) = 5 /\ fields[1] = i.flags
      /\ fields[2] = q /\ fields[3] = r /\ fields[4] = s /\ fields[5] = t
  BY <1>1, <1>4
<1>6. IsMessage(octets, "publish", fields, text)
  BY <1>1, <1>5, FramedFrame DEF Code
<1> HIDE DEF octets
<1>7. Body("publish", fields, text)' /\ IsBuffer(data)' /\ Recorded("publish", c, text)'
  BY <1>1, <1>4, <1>5, <1>6, Wrote DEF i
<1>8. /\ Octet(0)' = fields[1] /\ Number(1)' = Pair(fields[2], fields[3])
      /\ Number(3)' = Pair(fields[4], fields[5])
  <2>1. Len(fields) >= 1 /\ Len(fields) >= 3 /\ Len(fields) >= 5
    BY <1>5
  <2> QED
    BY <1>5, <1>7, <2>1, Octet0Read, Number1Read, Number3Read
<1>9. EndsWith(5)'
  BY <1>5, <1>7, EndRead
<1>10. Says("publish", i)'
  BY <1>2, <1>3, <1>5, <1>8, <1>9 DEF Says
<1> QED
  BY <1>7, <1>10, Reads DEF Mistaken, Recorded, i

\* A PUBREC, a PUBREL and a PUBCOMP are their message id, a DISCONNECT is its duration.
LEMMA WordReadsBack ==
  ASSUME NEW type \in {"pubrec", "pubrel", "pubcomp", "disconnect"}, NEW c \in Callers,
         NEW n, n = IF type = "disconnect" THEN Infos[c].duration ELSE Infos[c].msg_id,
         IsBuffer(data), Plain(type, Infos[c], Word(n)), ~overran'
  PROVE  ReadsBack' /\ IsBuffer(data)'
<1> DEFINE i == Infos[c]  fields == Word(n)
           octets == <<Len(fields) + 2, Code[type]>> \o fields
<1>1. n \in Nat
  BY Passed
<1>2. PICK q \in Int, r \in Int : fields = <<q, r>> /\ Pair(q, r) = n
  BY <1>1, Halved
<1>3. Write(type, i, NoText, data, octets)
  BY DEF Plain
<1> HIDE DEF fields
<1>4. fields \in Seq(Int) /\ Len(fields) = 2 /\ fields[1] = q /\ fields[2] = r
  BY <1>2
<1>5. type \in DOMAIN Code /\ NoText \in Seq(Int)
  BY DEF Code, NoText
<1>6. IsMessage(octets, type, fields, NoText)
  BY <1>4, <1>5, PlainFrame
<1> HIDE DEF octets, i
<1>7. Body(type, fields, NoText)' /\ IsBuffer(data)' /\ Recorded(type, c, NoText)'
  BY <1>3, <1>4, <1>5, <1>6, Wrote DEF i
<1>8. Number(0)' = n
  <2>1. Len(fields) >= 2
    BY <1>4
  <2>2. Number(0)' = Pair(fields[1], fields[2])
    BY <1>4, <1>7, <2>1, Number0Read
  <2> QED
    BY <1>2, <1>4, <2>2
<1>9. EndsWith(2)'
  BY <1>4, <1>7, EndRead
<1>10. Says(type, i)'
  BY <1>8, <1>9 DEF Says, i
<1> QED
  BY <1>7, <1>10, Reads DEF Mistaken, Recorded, i

LEMMA PingrespReadsBack ==
  ASSUME NEW c \in Callers, IsBuffer(data), Pingresp(Infos[c]), ~overran'
  PROVE  ReadsBack' /\ IsBuffer(data)'
<1> DEFINE fields == <<>>  octets == <<Len(fields) + 2, Code["pingresp"]>> \o fields
<1>1. Write("pingresp", Infos[c], NoText, data, octets)
  BY DEF Pingresp, Plain
<1>2. fields \in Seq(Int) /\ Len(fields) = 0 /\ "pingresp" \in DOMAIN Code /\ NoText \in Seq(Int)
  BY DEF Code, NoText
<1> HIDE DEF fields
<1>3. IsMessage(octets, "pingresp", fields, NoText)
  BY <1>2, PlainFrame
<1> HIDE DEF octets
<1>4. Body("pingresp", fields, NoText)' /\ IsBuffer(data)' /\ Recorded("pingresp", c, NoText)'
  BY <1>1, <1>2, <1>3, Wrote
<1>5. EndsWith(0)'
  BY <1>2, <1>4, EndRead
<1>6. Says("pingresp", Infos[c])'
  BY <1>5 DEF Says
<1> QED
  BY <1>4, <1>6, Reads DEF Mistaken, Recorded

LEMMA ByIdReadsBack ==
  ASSUME NEW type \in {"subscribe", "unsubscribe"}, NEW c \in Callers, IsBuffer(data),
         ById(type, Infos[c]), ~overran'
  PROVE  ReadsBack' /\ IsBuffer(data)'
<1> DEFINE i == Infos[c]  code == Code[type]
           octets == <<7, code, i.flags>> \o Word(i.msg_id) \o Word(i.topic_id)
<1>1. /\ i.flags \in Int /\ i.topic_id \in Nat /\ i.msg_id \in Nat /\ NoText \in Seq(Int)
      /\ type \in DOMAIN Code /\ code \in Int
  BY Passed DEF Code, NoText
<1>2. PICK q \in Int, r \in Int : Word(i.msg_id) = <<q, r>> /\ Pair(q, r) = i.msg_id
  BY <1>1, Halved
<1>3. PICK s \in Int, t \in Int : Word(i.topic_id) = <<s, t>> /\ Pair(s, t) = i.topic_id
  BY <1>1, Halved
<1> DEFINE fields == <<i.flags, q, r, s, t>>
<1>4. /\ Write(type, i, NoText, data, octets)
      /\ octets = <<7, code, i.flags>> \o <<q, r>> \o <<s, t>>
  BY <1>2, <1>3 DEF ById
<1> HIDE DEF i, code, octets
<1>5. /\ fields \in Seq(Int) /\ Len(fields) = 5 /\ fields[1] = i.flags
      /\ fields[2] = q /\ fields[3] = r /\ fields[4] = s /\ fields[5] = t
  BY <1>1
<1>6. octets = <<Len(fields) + 2, code>> \o fields
  BY <1>1, <1>4
<1> HIDE DEF fields
<1>7. IsMessage(octets, type, fields, NoText)
  BY <1>1, <1>5, <1>6, PlainFrame DEF code
<1>8. Body(type, fields, NoText)' /\ IsBuffer(data)' /\ Recorded(type, c, NoText)'
  BY <1>1, <1>4, <1>5, <1>7, Wrote DEF i
<1>9. Octet(0)' = i.flags /\ Number(1)' = i.msg_id /\ Number(3)' = i.topic_id
  <2>1. Len(fields) >= 1 /\ Len(fields) >= 3 /\ Len(fields) >= 5
    BY <1>5
  <2>2. Octet(0)' = fields[1]
    BY <1>5, <1>8, <2>1, Octet0Read
  <2>3. Number(1)' = Pair(fields[2], fields[3])
    BY <1>5, <1>8, <2>1, Number1Read
  <2>4. Number(3)' = Pair(fields[4], fields[5])
    BY <1>5, <1>8, <2>1, Number3Read
  <2> QED
    BY <1>2, <1>3, <1>5, <2>2, <2>3, <2>4
<1>10. EndsWith(5)' /\ call'.text = NoText
  BY <1>5, <1>8, EndRead DEF Recorded
<1>11. Says(type, i)'
  BY <1>9, <1>10 DEF Says
<1> QED
  BY <1>8, <1>11, Reads DEF Mistaken, Recorded, i

LEMMA ByNameReadsBack ==
  ASSUME NEW type \in {"subscribe", "unsubscribe"}, NEW c \in Callers, IsBuffer(data),
         ByName(type, Infos[c]), ~overran'
  PROVE  ReadsBack' /\ IsBuffer(data)'
<1> DEFINE i == Infos[c]  text == i.topic_name
           fields == <<i.flags>> \o Word(i.msg_id)
           octets == Framed(type, fields, text, text)
<1>1. i.flags \in Int /\ i.msg_id \in Nat /\ text \in Seq(Int)
  BY Passed
<1>2. PICK q \in Int, r \in Int : Word(i.msg_id) = <<q, r>> /\ Pair(q, r) = i.msg_id
  BY <1>1, Halved
<1>3. ~IsLong(text, fields)
  <2> SUFFICES ASSUME IsLong(text, fields) PROVE FALSE
    OBVIOUS
  <2> DEFINE stale == <<i.flags>> \o <<data[5], data[6]>>
             frame == Framed(type, stale, text, text)
  <2>1. Write(type, i, text, data, frame)
    BY DEF ByName
  <2>2. data[5] \in Int /\ data[6] \in Int
    BY BufferRange DEF IsBuffer
  <2>3. stale \in Seq(Int) /\ Len(stale) = 3 /\ Len(fields) = 3
    BY <1>1, <1>2, <2>2
  <2> HIDE DEF i, text, fields, stale
  <2>4. Len(text) \in Nat /\ Len(text) > 250
    BY <1>1, <2>3 DEF IsLong
  <2>5. IsMessage(frame, type, stale, text)
    BY <1>1, <2>3, FramedFrame DEF Code
  <2> HIDE DEF frame
  <2>6. Len(frame) \in Nat /\ Len(frame) > 255
    <3>1. Len(frame) = 2 + 3 + Len(text) \/ Len(frame) = 4 + 3 + Len(text)
      BY <2>3, <2>5 DEF IsMessage
    <3> QED
      BY <2>4, <3>1
  <2>7. ~(Len(frame) > BufferSize)
    BY <2>1, Zenon DEF Write
  <2> QED
    BY <2>6, <2>7, BufferRange
<1>4. Write(type, i, text, data, octets) /\ fields = <<i.flags>> \o <<q, r>> /\ text = i.topic_name
  BY <1>2, <1>3 DEF ByName
<1> HIDE DEF i, text, fields
<1>5. /\ fields \in Seq(Int) /\ Len(fields) = 3 /\ fields[1] = i.flags
      /\ fields[2] = q /\ fields[3] = r
  BY <1>1, <1>4
<1>6. IsMessage(octets, type, fields, text)
  BY <1>1, <1>5, FramedFrame DEF Code
<1> HIDE DEF octets
<1>7. Body(type, fields, text)' /\ IsBuffer(data)' /\ Recorded(type, c, text)'
  BY <1>1, <1>4, <1>5, <1>6, Wrote DEF i
<1>8. Octet(0)' = i.flags /\ Number(1)' = i.msg_id
  <2>1. Len(fields) >= 1 /\ Len(fields) >= 3
    BY <1>5
  <2>2. Octet(0)' = fields[1] /\ Number(1)' = Pair(fields[2], fields[3])
    BY <1>5, <1>7, <2>1, Octet0Read, Number1Read
  <2> QED
    BY <1>2, <1>5, <2>2
<1>9. EndsWith(3)' /\ call'.text = i.topic_name
  BY <1>4, <1>5, <1>7, EndRead DEF Recorded
<1>10. Says(type, i)'
  BY <1>8, <1>9 DEF Says
<1> QED
  BY <1>7, <1>10, Reads DEF Mistaken, Recorded, i

LEMMA AcknowledgeReadsBack ==
  ASSUME NEW type \in {"regack", "puback"}, NEW c \in Callers, IsBuffer(data),
         Acknowledge(type, Infos[c]), ~overran'
  PROVE  ReadsBack' /\ IsBuffer(data)'
<1> DEFINE i == Infos[c]  code == Code[type]  x == i.msg_id \div 256  y == i.return_code
           octets == <<7, code>> \o Word(i.topic_id) \o <<x, y, data[6]>>
<1>1. /\ i.topic_id \in Nat /\ NoText \in Seq(Int) /\ type \in DOMAIN Code /\ code \in Int
      /\ i.msg_id \in Nat /\ y \in Int
  BY Passed DEF Code, NoText
<1>2. x \in Int
  BY <1>1
<1>2a. PICK z \in Int : z = data[6]
  BY BufferRange DEF IsBuffer
<1>3. PICK q \in Int, r \in Int : Word(i.topic_id) = <<q, r>> /\ Pair(q, r) = i.topic_id
  BY <1>1, Halved
<1> DEFINE fields == <<q, r, x, y, z>>
<1>4. Write(type, i, NoText, data, octets) /\ octets = <<7, code>> \o <<q, r>> \o <<x, y, z>>
  BY <1>2a, <1>3 DEF Acknowledge
<1> HIDE DEF i, code, octets, x, y
<1>5. fields \in Seq(Int) /\ Len(fields) = 5 /\ fields[1] = q /\ fields[2] = r
  BY <1>1, <1>2
<1>6. octets = <<Len(fields) + 2, code>> \o fields
  BY <1>1, <1>2, <1>4
<1> HIDE DEF fields
<1>7. IsMessage(octets, type, fields, NoText)
  BY <1>1, <1>5, <1>6, PlainFrame DEF code
<1>8. Body(type, fields, NoText)' /\ IsBuffer(data)' /\ Recorded(type, c, NoText)'
  BY <1>1, <1>4, <1>5, <1>7, Wrote DEF i
<1>9. Number(0)' = i.topic_id
  <2>1. Len(fields) >= 2
    BY <1>5
  <2>2. Number(0)' = Pair(fields[1], fields[2])
    BY <1>5, <1>8, <2>1, Number0Read
  <2> QED
    BY <1>3, <1>5, <2>2
<1>10. EndsWith(5)'
  BY <1>5, <1>8, EndRead
<1>11. Says(type, i)'
  BY <1>9, <1>10 DEF Says
<1> QED
  BY <1>8, <1>11, Reads DEF Mistaken, Recorded, i

LEMMA AdvertiseReadsBack ==
  ASSUME NEW c \in Callers, IsBuffer(data), Advertise(Infos[c]), ~overran'
  PROVE  ReadsBack' /\ IsBuffer(data)'
<1> DEFINE i == Infos[c]  code == Code["advertise"]
           octets == <<5, code, i.gwid>> \o Word(i.duration)
<1>1. /\ i.gwid \in Int /\ i.duration \in Nat /\ NoText \in Seq(Int)
      /\ "advertise" \in DOMAIN Code /\ code \in Int
  BY Passed DEF Code, NoText
<1>2. PICK q \in Int, r \in Int : Word(i.duration) = <<q, r>> /\ Pair(q, r) = i.duration
  BY <1>1, Halved
<1> DEFINE fields == <<i.gwid, q, r>>
<1>3. /\ Write("advertise", i, NoText, Cleared(PtrSize), octets)
      /\ octets = <<5, code, i.gwid>> \o <<q, r>>
  BY <1>2 DEF Advertise
<1> HIDE DEF i, code, octets
<1>4. /\ fields \in Seq(Int) /\ Len(fields) = 3 /\ fields[1] = i.gwid
      /\ fields[2] = q /\ fields[3] = r
  BY <1>1
<1>5. octets = <<Len(fields) + 2, code>> \o fields
  BY <1>1, <1>3
<1> HIDE DEF fields
<1>6. IsMessage(octets, "advertise", fields, NoText)
  BY <1>1, <1>4, <1>5, PlainFrame DEF code
<1>7. IsBuffer(Cleared(PtrSize))
  BY MsgAssumption, ClearedBuffer
<1>8. Body("advertise", fields, NoText)' /\ IsBuffer(data)' /\ Recorded("advertise", c, NoText)'
  BY <1>1, <1>3, <1>4, <1>6, <1>7, Wrote DEF i
<1>9. Octet(0)' = i.gwid /\ Number(1)' = i.duration
  <2>1. Len(fields) >= 1 /\ Len(fields) >= 3
    BY <1>4
  <2>2. Octet(0)' = fields[1] /\ Number(1)' = Pair(fields[2], fields[3])
    BY <1>4, <1>8, <2>1, Octet0Read, Number1Read
  <2> QED
    BY <1>2, <1>4, <2>2
<1>10. EndsWith(3)'
  BY <1>4, <1>8, EndRead
<1>11. Says("advertise", i)'
  BY <1>9, <1>10 DEF Says
<1> QED
  BY <1>8, <1>11, Reads DEF Mistaken, Recorded, i

LEMMA SearchgwReadsBack ==
  ASSUME NEW c \in Callers, IsBuffer(data), Searchgw(Infos[c]), ~overran'
  PROVE  ReadsBack' /\ IsBuffer(data)'
<1> DEFINE i == Infos[c]  code == Code["searchgw"]  fields == <<i.radius>>
           octets == <<3, code, i.radius>>
<1>1. i.radius \in Int /\ NoText \in Seq(Int) /\ "searchgw" \in DOMAIN Code /\ code \in Int
  BY Passed DEF Code, NoText
<1>2. Write("searchgw", i, NoText, Cleared(PtrSize), octets)
  BY DEF Searchgw
<1> HIDE DEF i, code
<1>3. fields \in Seq(Int) /\ Len(fields) = 1 /\ fields[1] = i.radius
  BY <1>1
<1>4. octets = <<Len(fields) + 2, code>> \o fields
  BY <1>1
<1> HIDE DEF octets, fields
<1>5. IsMessage(octets, "searchgw", fields, NoText)
  BY <1>1, <1>3, <1>4, PlainFrame DEF code
<1>6. IsBuffer(Cleared(PtrSize))
  BY MsgAssumption, ClearedBuffer
<1>7. Body("searchgw", fields, NoText)' /\ IsBuffer(data)' /\ Recorded("searchgw", c, NoText)'
  BY <1>1, <1>2, <1>3, <1>5, <1>6, Wrote DEF i
<1>8. Octet(0)' = i.radius
  <2>1. Len(fields) >= 1
    BY <1>3
  <2> QED
    BY <1>3, <1>7, <2>1, Octet0Read
<1>9. EndsWith(1)'
  BY <1>3, <1>7, EndRead
<1>10. Says("searchgw", i)'
  BY <1>8, <1>9 DEF Says
<1> QED
  BY <1>7, <1>10, Reads DEF Mistaken, Recorded, i

LEMMA SmallRest ==
  ASSUME NEW n \in Nat, n < 256
  PROVE  n % 256 = n
OBVIOUS

\* The long form overruns the buffer; the short one reads back if its length is its own.
LEMMA PingreqReadsBack ==
  ASSUME NEW c \in Callers, NEW dest \in Texts, IsBuffer(data), Pingreq(Infos[c], dest), ~overran'
  PROVE  ReadsBack' /\ IsBuffer(data)'
<1> DEFINE i == Infos[c]  n == Len(i.client_id)  m == Len(dest)  code == Code["pingreq"]
           fields == <<>>  octets == Framed("pingreq", fields, dest, dest)
           sent == IF IsLong(dest, fields) THEN octets ELSE [octets EXCEPT ![1] = (n + 2) % 256]
<1>1. /\ n \in Nat /\ m \in Nat /\ code \in Int /\ "pingreq" \in DOMAIN Code
      /\ dest \in Seq(Int) /\ fields \in Seq(Int) /\ Len(fields) = 0
  BY Passed, TextInt, MsgAssumption DEF Code
<1>2. Write("pingreq", i, dest, data, sent)
  BY DEF Pingreq
<1>3. Recorded("pingreq", c, dest)'
  BY <1>2, Records DEF Write
<1>4. overran' = (Len(sent) > BufferSize) /\ data' = Put(data, sent) /\ length' = Len(sent)
  BY <1>2 DEF Write
<1>5. IsLong(dest, fields) <=> m > 255 - (2 + Len(fields))
  BY DEF IsLong
<1>6. IsMessage(octets, "pingreq", fields, dest)
  BY <1>1, FramedFrame
<1>7. ~IsLong(dest, fields)
  <2>1. SUFFICES ASSUME IsLong(dest, fields) PROVE FALSE
    OBVIOUS
  <2>2. sent = octets
    BY <2>1
  <2>3. Len(octets) >= 2 + m
    BY <1>1, <1>6 DEF IsMessage
  <2>4. m > 253
    BY <1>1, <1>5, <2>1
  <2> HIDE DEF octets, sent, m
  <2>5. Len(sent) > BufferSize
    BY <1>1, <1>6, <2>2, <2>3, <2>4, BufferRange DEF IsMessage
  <2> QED
    BY <1>4, <2>5
<1>8. octets = <<Len(dest) + Len(fields) + 2, code>> \o fields \o dest
  BY <1>7 DEF Framed
<1>9. sent = [octets EXCEPT ![1] = (n + 2) % 256]
  BY <1>7
<1>10. m <= 253
  BY <1>1, <1>5, <1>7
<1>11. /\ octets \in Seq(Int) /\ Len(octets) = m + 2 /\ octets[1] = m + 2 /\ octets[2] = code
       /\ \A j \in 1 .. m : octets[2 + j] = dest[j]
  <2> DEFINE l == Len(dest) + Len(fields) + 2  head == <<l, code>>  front == head \o fields
  <2>1. l = m + 2 /\ l \in Int
    BY <1>1
  <2> HIDE DEF l, m, code
  <2>2. front \in Seq(Int) /\ Len(front) = 2 /\ front[1] = l /\ front[2] = code
    BY <1>1, <2>1
  <2>3. octets = front \o dest
    BY <1>8 DEF m, l, code
  <2> HIDE DEF front, octets, fields
  <2>4. /\ octets \in Seq(Int) /\ Len(octets) = Len(front) + Len(dest)
        /\ \A j \in 1 .. Len(front) : octets[j] = front[j]
        /\ \A j \in 1 .. Len(dest) : octets[Len(front) + j] = dest[j]
    BY <1>1, <2>2, <2>3, Joined
  <2> QED
    BY <1>1, <2>1, <2>2, <2>4 DEF m
<1> HIDE DEF octets, sent, n, m, code, fields, i
<1>12. CASE n = m
  <2>1. (n + 2) % 256 = octets[1]
    <3>1. n + 2 \in Nat /\ n + 2 < 256 /\ n + 2 = octets[1]
      BY <1>1, <1>10, <1>11, <1>12
    <3> QED
      BY <3>1, SmallRest
  <2>2. sent = octets
    BY <1>9, <1>11, <2>1
  <2>3. Body("pingreq", fields, dest)' /\ IsBuffer(data)'
    BY <1>1, <1>2, <1>6, <2>2, Wrote DEF i
  <2>4. EndsWith(0)'
    BY <1>1, <1>3, <2>3, EndRead
  <2>5. Says("pingreq", Infos[c])'
    BY <2>4 DEF Says
  <2>6. ~Mistaken'
    BY <1>3, <1>12 DEF Mistaken, Recorded, n, m, i
  <2> QED
    BY <1>3, <2>3, <2>5, <2>6, Reads
<1>13. CASE n # m
  <2>1. (n + 2) % 256 \in Int
    BY <1>1
  <2>2. /\ sent \in Seq(Int) /\ Len(sent) = m + 2 /\ sent[2] = code
        /\ \A j \in 1 .. m : sent[2 + j] = dest[j]
    <3> DEFINE x == (n + 2) % 256
    <3>1. sent = [octets EXCEPT ![1] = x] /\ x \in Int
      BY <1>9, <2>1
    <3> HIDE DEF x
    <3>2. octets \in [1 .. m + 2 -> Int]
      BY <1>11
    <3>3. sent \in [1 .. m + 2 -> Int] /\ \A k \in 2 .. m + 2 : sent[k] = octets[k]
      BY <1>1, <3>1, <3>2
    <3>4. m + 2 \in Nat /\ 2 \in 2 .. m + 2 /\ \A j \in 1 .. m : 2 + j \in 2 .. m + 2
      BY <1>1
    <3>5. sent \in Seq(Int)
      BY <3>3, <3>4, SeqDef
    <3>6. Len(sent) = m + 2
      BY <3>3, <3>4, <3>5
    <3> QED
      BY <1>11, <3>3, <3>4, <3>5, <3>6
  <2>3. m + 2 <= BufferSize
    <3>1. ~(Len(sent) > BufferSize)
      BY <1>4, Zenon
    <3> QED
      BY <1>1, <2>2, <3>1, BufferRange
  <2>4. data' = [k \in 0 .. BufferSize - 1 |-> IF k < m + 2 THEN sent[k + 1] ELSE data[k]]
    BY <1>4, <2>2 DEF Put, IsBuffer
  <2>5. IsBuffer(data)'
    <3>1. \A k \in 0 .. BufferSize - 1 : (IF k < m + 2 THEN sent[k + 1] ELSE data[k]) \in Int
      BY <1>1, <2>2, BufferRange DEF IsBuffer
    <3> QED
      BY <2>4, <3>1 DEF IsBuffer
  <2>6. data'[1] = code
    BY <1>1, <2>2, <2>3, <2>4, BufferRange
  <2>7. ASSUME NEW k \in 1 .. m PROVE data'[k + 1] = dest[k]
    <3>1. k + 1 \in 0 .. BufferSize - 1 /\ k + 1 < m + 2 /\ (k + 1) + 1 = 2 + k
      BY <1>1, <2>3, BufferRange
    <3>2. data'[k + 1] = sent[(k + 1) + 1]
      BY <2>4, <3>1
    <3> QED
      BY <2>2, <3>1, <3>2
  <2>8. Mistaken'
    BY <1>3, <1>13 DEF Mistaken, Recorded, n, m, i
  <2> QED
    BY <1>3, <1>4, <2>2, <2>5, <2>6, <2>7, <2>8 DEF ReadsBack, Recorded, m, code
<1> QED
  BY <1>12, <1>13

LEMMA WillmsgupdTyped ==
  ASSUME NEW c \in Callers, IsBuffer(data), Willmsgupd(Infos[c]), ~overran'
  PROVE  ReadsBack' /\ IsBuffer(data)'
<1> DEFINE i == Infos[c]  text == i.will_message  n == Len(text) + 2  fields == <<>>
           octets == Framed("willmsgupd", fields, text, text)
<1>1. text \in Seq(Int) /\ fields \in Seq(Int) /\ n \in Int /\ "willmsgupd" \in DOMAIN Code
  BY Passed DEF Code
<1>2. IsBuffer(data)' /\ Recorded("willmsgupd", c, text)'
  <2>1. CASE IsLong(text, fields)
    <3>1. Write("willmsgupd", Infos[c], text, data, octets)
      BY <2>1 DEF Willmsgupd
    <3>2. IsMessage(octets, "willmsgupd", fields, text)
      BY <1>1, FramedFrame
    <3> HIDE DEF octets, fields, text
    <3> QED
      BY <1>1, <3>1, <3>2, Wrote
  <2>2. CASE ~IsLong(text, fields)
    <3> DEFINE code == Code["willmsgupd"]
               octet(k) == IF k \in 2 .. n - 1 THEN text[k - 1]
                           ELSE CASE k = 1 -> n [] k = 3 -> code [] OTHER -> data[k]
    <3>1. Called("willmsgupd", Infos[c], text) /\ data' = [k \in DOMAIN data |-> octet(k)]
      BY <2>2 DEF Willmsgupd
    <3>2. code \in Int
      BY <1>1, Codes
    <3>3. ASSUME NEW k \in 0 .. BufferSize - 1, k \in 2 .. n - 1 PROVE text[k - 1] \in Int
      BY <1>1, <3>3
    <3> HIDE DEF text, n, code
    <3>4. ASSUME NEW k \in 0 .. BufferSize - 1 PROVE octet(k) \in Int
      BY <1>1, <3>2, <3>3 DEF IsBuffer
    <3>5. DOMAIN data = 0 .. BufferSize - 1
      BY DEF IsBuffer
    <3> HIDE DEF octet
    <3>6. IsBuffer(data)'
      BY <3>1, <3>4, <3>5 DEF IsBuffer
    <3> QED
      BY <3>1, <3>6, Records
  <2> QED
    BY <2>1, <2>2
<1> QED
  BY <1>2 DEF Recorded, ReadsBack

---------------------------------------------------------------------------
(* The theorem.                                                            *)

\* Until a call overruns the buffer, it is one and the message in it reads back.
MsgInv == ~overran => IsBuffer(data) /\ ReadsBack

LEMMA EncodeReadsBack ==
  ASSUME NEW c \in Callers, MsgInv, Encode(Infos[c])
  PROVE  MsgInv'
<1> SUFFICES ASSUME ~overran' PROVE ReadsBack' /\ IsBuffer(data)'
  BY DEF MsgInv
<1>0. ~overran
  BY DEF Encode, Advertise, Searchgw, Connect, Willtopic, Willmsg, Willtopicupd, Willmsgupd,
         Register, Regack, Puback, Pubrec, Pubrel, Pubcomp, Subscribe, Unsubscribe, Pingresp,
         Disconnect, Publish, Pingreq, Plain, ById, ByName, Acknowledge, Write
<1>1. IsBuffer(data)
  BY <1>0 DEF MsgInv
<1>2. CASE Advertise(Infos[c])
  BY <1>1, <1>2, AdvertiseReadsBack
<1>3. CASE Searchgw(Infos[c])
  BY <1>1, <1>3, SearchgwReadsBack
<1>4. CASE Connect(Infos[c])
  BY <1>1, <1>4, ConnectReadsBack
<1>5. CASE Willtopic(Infos[c])
  <2>1. IsBuffer(Cleared(PtrSize))
    BY <1>1, MsgAssumption, ClearedBuffer
  <2> QED
    BY <1>5, <2>1, WillTopicReadsBack DEF Willtopic
<1>6. CASE Willmsg(Infos[c])
  BY <1>1, <1>6, WillmsgReadsBack
<1>7. CASE Willtopicupd(Infos[c])
  BY <1>1, <1>7, WillTopicReadsBack DEF Willtopicupd
<1>8. CASE Willmsgupd(Infos[c])
  BY <1>1, <1>8, WillmsgupdTyped
<1>9. CASE Register(Infos[c])
  BY <1>1, <1>9, RegisterReadsBack
<1>10. CASE Regack(Infos[c]) \/ Puback(Infos[c])
  BY <1>1, <1>10, AcknowledgeReadsBack DEF Regack, Puback
<1>11. CASE Pubrec(Infos[c]) \/ Pubrel(Infos[c]) \/ Pubcomp(Infos[c])
  BY <1>1, <1>11, WordReadsBack DEF Pubrec, Pubrel, Pubcomp
<1>12. CASE Disconnect(Infos[c])
  BY <1>1, <1>12, WordReadsBack DEF Disconnect
<1>13. CASE Subscribe(Infos[c]) \/ Unsubscribe(Infos[c])
  BY <1>1, <1>13, ByIdReadsBack, ByNameReadsBack DEF Subscribe, Unsubscribe
<1>14. CASE Pingresp(Infos[c])
  BY <1>1, <1>14, PingrespReadsBack
<1>15. ASSUME NEW text \in Texts, Publish(Infos[c], text) PROVE ReadsBack' /\ IsBuffer(data)'
  BY <1>1, <1>15, PublishReadsBack
<1>16. ASSUME NEW text \in Texts, Pingreq(Infos[c], text) PROVE ReadsBack' /\ IsBuffer(data)'
  BY <1>1, <1>16, PingreqReadsBack
<1> QED
  BY <1>2, <1>3, <1>4, <1>5, <1>6, <1>7, <1>8, <1>9, <1>10, <1>11, <1>12, <1>13, <1>14, <1>15,
     <1>16 DEF Encode

\* Every message an encoder writes says what was passed, over whatever message
\* was in the buffer before (mqtt-msg.c), but for the slips ReadsBack names.
THEOREM MessagesReadBack == MsgSpec => []ReadsBack
<1>1. MsgInit => MsgInv
  <2>1. MsgInit => ReadsBack
    BY DEF MsgInit, ReadsBack
  <2>2. MsgInit => IsBuffer(data)
    BY DEF MsgInit, IsBuffer
  <2> QED
    BY <2>1, <2>2 DEF MsgInv
<1>2. MsgInv /\ [MsgNext]_msgVars => MsgInv'
  <2> SUFFICES ASSUME MsgInv, [MsgNext]_msgVars PROVE MsgInv'
    OBVIOUS
  <2>1. CASE MsgNext
    BY <2>1, EncodeReadsBack DEF MsgNext
  <2>2. CASE UNCHANGED msgVars
    <3>1. data' = data /\ length' = length /\ overran' = overran /\ call' = call
      BY <2>2 DEF msgVars
    <3>2. Start' = Start /\ Claimed' = Claimed /\ \A k : Octet(k)' = Octet(k)
      BY <3>1 DEF Start, Claimed, Octet
    <3>3. (\A k : Number(k)' = Number(k)) /\ \A n : EndsWith(n)' <=> EndsWith(n)
      BY <3>1, <3>2 DEF Number, EndsWith
    <3>4. Says(call.type, Infos[call.by])' <=> Says(call.type, Infos[call.by])
      BY <3>1, <3>2, <3>3 DEF Says
    <3>5. ReadsBack' <=> ReadsBack
      BY <3>1, <3>2, <3>4 DEF ReadsBack, Mistaken
    <3> QED
      BY <3>1, <3>5 DEF MsgInv, IsBuffer
  <2> QED
    BY <2>1, <2>2
<1>3. MsgInv => ReadsBack
  BY DEF MsgInv, ReadsBack
<1> QED
  BY <1>1, <1>2, <1>3, PTL DEF MsgSpec
=============================================================================
