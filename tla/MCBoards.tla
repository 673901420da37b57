------------------------------- MODULE MCBoards -------------------------------
(***************************************************************************)
(* Boards for TLC.                                                         *)
(***************************************************************************)
EXTENDS Boards, TLC

\* A sixteenth below zero and one over 21, the half of 21.5, and 124.6875.
MCTemperatures == {-8, 337, 344, 1995}
\* Little endian, two's complement.
MCScratchpad == [t \in MCTemperatures \cup {PowerOn} |->
  LET w == t % 65536 IN <<w % 256, w \div 256>>]
Numerals == <<"0", "1", "2", "3", "4", "5", "6", "7", "8", "9">>
Numeral(n) == Numerals[n + 1]
MCDigits == [n \in 0 .. 255 |->
  IF n < 10 THEN <<Numeral(n)>>
  ELSE IF n < 100 THEN <<Numeral(n \div 10), Numeral(n % 10)>>
  ELSE <<Numeral(n \div 100), Numeral((n \div 10) % 10), Numeral(n % 10)>>]
Letters == <<"T", "e", "m", "p", "r", "a", "t", "u", ":", "deg", "C">>
MCGlyphs == {Numerals[k] : k \in 1 .. 10} \cup {Letters[k] : k \in 1 .. 11}
\* No real font: two corners, and a bit or two that differ from glyph to glyph.
MCFont == [c \in MCGlyphs |->
  {<<0, 0>>, <<4, 7>>} \cup
  {<<(k % 3) + 1, k \div 3>> : k \in {n \in 1 .. 10 : Numerals[n] = c}
                                \cup {n + 10 : n \in {m \in 1 .. 11 : Letters[m] = c}}}]

\* The clock wraps within the run, and the run goes once round the wheel.
MCStartClocks == {65270}

MCInfo == [client_id |-> <<97>>, duration |-> 1000, flags |-> 32, gwid |-> 3, msg_id |-> 770,
           protocol_id |-> 1, radius |-> 2, return_code |-> 1, topic_id |-> 513,
           topic_name |-> <<116>>, will_message |-> <<119>>, will_topic |-> <<98>>]
LongText == [k \in 1 .. 260 |-> 120]
\* One that makes the length of a PINGREQ 1.
LongName == [k \in 1 .. 255 |-> 120]
MCInfos ==
  1 :> MCInfo
  @@ 2 :> [MCInfo EXCEPT !.msg_id = 65535, !.client_id = LongName, !.will_message = LongText,
                         !.will_topic = LongText]
MCTexts == {<<50>>}
=============================================================================
