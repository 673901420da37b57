--------------------------- MODULE ThermometerProofs ---------------------------
(***************************************************************************)
(* Proofs of LagsOne, ThermoTypeOK, PublishedRight and ShowsReading, for any  *)
(* temperatures of the sensor's range, any encoding of the register, any     *)
(* font and any panel at least as large as what is drawn.                    *)
(*                                                                         *)
(* LagsOne: the register holds the sample before while a conversion is under *)
(* way and the latest one otherwise.  A conversion is under way from its     *)
(* command to the end of the call, as it only ends between calls, so the     *)
(* octets that are read in that call are those of the conversion before.     *)
(*                                                                         *)
(* The others add what was made of the reading: arithmetic on sixteenths for  *)
(* the numbers (Positive), and for the panel that each text fits in one line, *)
(* so that every character starts where its picture has it (OneLine) and      *)
(* every pixel has a bit of the buffer of its own (PixelDot).                *)
(***************************************************************************)
EXTENDS Thermometer, SequenceTheorems, TLAPS

\* The driver reads a temperature, or has at least started its conversion.
Measuring == at \in {"dropped", "temp"}
Started == Measuring /\ step > 3

Typed ==
  /\ at \in {"boot", "id", "dropped", "temp", "wait"} /\ step \in 1 .. 9
  /\ present \in BOOLEAN /\ room \in Temperatures
  /\ sample \in Temperatures \cup {Idle} /\ held \in Held

Stored ==
  /\ present /\ sample = Idle => held = asked
  /\ present /\ sample # Idle => held = before /\ sample = asked
  /\ ~present => sample = Idle

Converting == present /\ at # "wait" => (Started <=> sample # Idle)

OctetRead(n) == IF present THEN Scratchpad[held][n] ELSE 255

ReadSoFar ==
  Measuring =>
    /\ step <= 7 => got = <<>>
    /\ step = 8 => got = <<OctetRead(1)>>
    /\ step = 9 => got = <<OctetRead(1), OctetRead(2)>>

\* The sensor node has measured before it first publishes.
Primed ==
  board = "sensor" =>
    /\ at \in {"temp", "wait"} \/ Started => asked # PowerOn
    /\ at = "temp" /\ Started => before # PowerOn

NoneYet == at \in {"boot", "id", "dropped"} => reading = NoReading

ThermoInv == Typed /\ Stored /\ Converting /\ ReadSoFar /\ Primed /\ NoneYet /\ LagsOne

---------------------------------------------------------------------------
(* The register and the script.                                            *)

LEMMA SomeTemperatures ==
  /\ Idle \notin Temperatures /\ PowerOn \notin Temperatures
  /\ Temperatures \subseteq Held /\ PowerOn \in Held
<1>1. \A t \in Held : t \in Int /\ t >= -880
  BY ThermoAssumption
<1>2. Idle \notin Held
  BY <1>1 DEF Idle
<1>3. PowerOn \notin Temperatures
  BY ThermoAssumption
<1> QED
  BY <1>2, <1>3 DEF Held

\* The two octets of the register are the temperature.
LEMMA RegisterRead ==
  ASSUME held \in Held, present \in BOOLEAN
  PROVE  Raw(<<OctetRead(1), OctetRead(2)>>) = IF present THEN held ELSE Absent
<1>1. CASE present
  <2>1. Scratchpad[held] \in Octets \X Octets
    BY ThermoAssumption
  <2>2. <<Scratchpad[held][1], Scratchpad[held][2]>> = Scratchpad[held]
    BY <2>1
  <2> QED BY <1>1, <2>2, ThermoAssumption DEF OctetRead
<1>2. CASE ~present
  BY <1>2, ThermoAssumption DEF OctetRead
<1> QED
  BY <1>1, <1>2

\* The step at which each transfer of a reading comes.
LEMMA ScriptSteps ==
  ASSUME Typed, NEW op, Transfer(op)
  PROVE  /\ step' = step + 1 /\ step \in 1 .. 8 /\ at # "wait" /\ at # "boot"
         /\ op = "convert" => Measuring /\ step = 3
         /\ op = "read" => Measuring /\ step \in {7, 8}
         /\ op \notin {"convert", "read"} /\ Measuring => step \in {1, 2, 4, 5, 6}
<1>1. Len(IdScript) = 3 /\ Len(TempScript) = 8
  BY DEF IdScript, TempScript
<1>2. step \in 1 .. 9
  BY DEF Typed
<1>3. step <= Len(Script) /\ Script[step] = op
  BY Zenon DEF Transfer
<1>4. CASE at = "id"
  <2>1. step \in 1 .. 3 /\ IdScript[step] = op
    <3>1. Script = IdScript
      BY <1>4, Zenon DEF Script
    <3>2. step <= 3 /\ IdScript[step] = op
      BY <1>1, <1>3, <3>1, Zenon
    <3> QED BY <1>2, <3>2
  <2>2. op \in {"reset", "readrom", "id"}
    <3>1. IdScript[1] = "reset" /\ IdScript[2] = "readrom" /\ IdScript[3] = "id"
      BY DEF IdScript
    <3>2. step = 1 \/ step = 2 \/ step = 3
      BY <2>1
    <3> QED BY <2>1, <3>1, <3>2
  <2> QED BY <1>4, <2>1, <2>2 DEF Transfer, Measuring
<1>5. CASE at # "id"
  <2>1. step \in 1 .. 8 /\ TempScript[step] = op
    <3>1. Script = TempScript
      BY <1>5, Zenon DEF Script
    <3>2. step <= 8 /\ TempScript[step] = op
      BY <1>1, <1>3, <3>1, Zenon
    <3> QED BY <1>2, <3>2
  <2>2. Measuring
    BY <1>5 DEF Transfer, Calling, Measuring
  <2>3. (step = 3 <=> op = "convert") /\ (step \in {7, 8} <=> op = "read")
    BY <2>1 DEF TempScript
  <2> QED BY <2>1, <2>2, <2>3 DEF Transfer, Measuring
<1> QED
  BY <1>4, <1>5

---------------------------------------------------------------------------
(* The steps.                                                              *)

LEMMA ThermoStart == ThermoInit => ThermoInv
<1> SUFFICES ASSUME ThermoInit PROVE ThermoInv
  OBVIOUS
<1>1. Typed
  BY SomeTemperatures DEF ThermoInit, Typed
<1>2. Stored /\ Converting /\ ReadSoFar /\ Primed /\ NoneYet /\ LagsOne
  BY DEF ThermoInit, Stored, Converting, ReadSoFar, Primed, NoneYet, LagsOne, Shown, Measuring, Started
<1> QED
  BY <1>1, <1>2 DEF ThermoInv

\* A transfer that neither converts nor reads.
LEMMA PlainTransfer ==
  ASSUME ThermoInv, NEW op, Transfer(op), op \notin {"convert", "read"},
         UNCHANGED <<line, sensor, at, got, output, history>>
  PROVE  ThermoInv'
<1> USE DEF line, sensor, output, history
<1>1. /\ step' = step + 1 /\ step \in 1 .. 8 /\ at # "wait"
      /\ Measuring => step \in {1, 2, 4, 5, 6}
  BY ScriptSteps DEF ThermoInv
<1>2. Typed' /\ NoneYet' /\ Stored' /\ LagsOne'
  BY <1>1 DEF ThermoInv, Typed, NoneYet, Stored, LagsOne, Shown
<1>3. Started' <=> Started
  BY <1>1 DEF Started, Measuring
<1>4. Converting' /\ Primed'
  BY <1>3 DEF ThermoInv, Converting, Primed
<1>5. ReadSoFar'
  BY <1>1 DEF ThermoInv, ReadSoFar, Measuring
<1> QED
  BY <1>2, <1>4, <1>5 DEF ThermoInv

LEMMA ConvertStep == ThermoInv /\ BusConvert => ThermoInv'
<1> SUFFICES ASSUME ThermoInv, BusConvert PROVE ThermoInv'
  OBVIOUS
<1> USE DEF line, output
<1>1. step' = 4 /\ step = 3 /\ Measuring /\ Measuring' /\ at' = at /\ at # "wait"
  BY ScriptSteps DEF ThermoInv, BusConvert, Measuring
<1>2. ~Started /\ Started'
  BY <1>1 DEF Started
<1>3. present => sample = Idle /\ held = asked
  BY <1>1, <1>2 DEF ThermoInv, Converting, Stored
<1>4. room \in Temperatures /\ room # Idle /\ room # PowerOn
  BY SomeTemperatures DEF ThermoInv, Typed
<1>5. Typed'
  BY <1>1, <1>4 DEF ThermoInv, Typed, BusConvert
<1>6. Stored' /\ Converting'
  BY <1>2, <1>3, <1>4 DEF Stored, Converting, BusConvert
<1>7. ReadSoFar'
  BY <1>1 DEF ThermoInv, ReadSoFar, BusConvert
<1>8. Primed'
  BY <1>1, <1>4 DEF ThermoInv, Primed, BusConvert
<1>9. NoneYet' /\ LagsOne'
  BY <1>1 DEF ThermoInv, NoneYet, LagsOne, Shown, BusConvert
<1> QED
  BY <1>5, <1>6, <1>7, <1>8, <1>9 DEF ThermoInv

LEMMA SecondOctet == \A a, b : Append(<<a>>, b) = <<a, b>>
<1> TAKE a, b
<1> DEFINE s == Append(<<a>>, b)  t == <<a, b>>  S == {a, b}
<1>1. /\ s \in Seq(S) /\ Len(s) = 2 /\ s[1] = a /\ s[2] = b
      /\ t \in Seq(S) /\ Len(t) = 2 /\ t[1] = a /\ t[2] = b
  <2>1. <<a>> \in Seq(S)
    OBVIOUS
  <2> QED BY <2>1
<1> HIDE DEF s, t, S
<1>2. \A k \in 1 .. Len(s) : s[k] = t[k]
  <2>1. \A k \in 1 .. 2 : k = 1 \/ k = 2
    OBVIOUS
  <2> QED BY <1>1, <2>1
<1>3. s = t
  BY <1>1, <1>2, SeqEqual
<1> QED
  BY <1>3 DEF s, t

LEMMA ReadStep == ThermoInv /\ BusRead => ThermoInv'
<1> SUFFICES ASSUME ThermoInv, BusRead PROVE ThermoInv'
  OBVIOUS
<1> USE DEF line, sensor, output, history
<1>1. step' = step + 1 /\ step \in {7, 8} /\ Measuring /\ at' = at /\ at # "wait"
  BY ScriptSteps DEF ThermoInv, BusRead
<1>2. Typed' /\ NoneYet' /\ Stored' /\ LagsOne'
  BY <1>1 DEF ThermoInv, Typed, NoneYet, Stored, LagsOne, Shown, BusRead
<1>3. Started /\ Started'
  BY <1>1 DEF Started, Measuring
<1>4. Converting' /\ Primed'
  BY <1>1, <1>3 DEF ThermoInv, Converting, Primed, BusRead
<1>5. ReadSoFar'
  <2>1. CASE step = 7
    <3>1. got = <<>>
      BY <1>1, <2>1 DEF ThermoInv, ReadSoFar
    <3>2. got' = <<OctetRead(1)>>
      BY <3>1 DEF BusRead, OctetRead
    <3>3. OctetRead(1)' = OctetRead(1) /\ step' = 8
      BY <1>1, <2>1 DEF BusRead, OctetRead
    <3> QED BY <3>2, <3>3 DEF ReadSoFar
  <2>2. CASE step = 8
    <3>1. got = <<OctetRead(1)>>
      BY <1>1, <2>2 DEF ThermoInv, ReadSoFar
    <3>2. got' = <<OctetRead(1), OctetRead(2)>>
      <4>1. Len(got) + 1 = 2
        BY <3>1
      <4>2. got' = Append(got, OctetRead(2))
        BY <4>1 DEF BusRead, OctetRead
      <4> QED BY <3>1, <4>2, SecondOctet, Zenon
    <3>3. OctetRead(1)' = OctetRead(1) /\ OctetRead(2)' = OctetRead(2) /\ step' = 9
      BY <1>1, <2>2 DEF BusRead, OctetRead
    <3> QED BY <3>2, <3>3 DEF ReadSoFar
  <2> QED BY <1>1, <2>1, <2>2
<1> QED
  BY <1>2, <1>4, <1>5 DEF ThermoInv

\* A call of the driver returns to a wait that shows what it read.
LEMMA Returns ==
  ASSUME ThermoInv, Measuring, Returned
  PROVE  /\ Started /\ reading' = Reading(Raw(got)) /\ UNCHANGED <<line, history>> => reading' = Read(before)'
         /\ Started /\ (present => sample # Idle)
<1>1. Script = TempScript /\ Len(TempScript) = 8
  BY DEF Script, TempScript, Measuring
<1>2. step = 9 /\ Started
  BY <1>1 DEF Returned, Started
<1>3. present => sample # Idle /\ held = before
  BY <1>2 DEF ThermoInv, Converting, Stored, Measuring
<1>4. got = <<OctetRead(1), OctetRead(2)>>
  BY <1>2 DEF ThermoInv, ReadSoFar
<1>5. Raw(got) = IF present THEN before ELSE Absent
  BY <1>3, <1>4, RegisterRead DEF ThermoInv, Typed
<1> QED
  BY <1>2, <1>3, <1>5 DEF Read, line, history

\* Both programs, once a temperature is read.
LEMMA Finishes ==
  ASSUME ThermoInv, at = "temp", Returned, reading' = Reading(Raw(got)), at' = "wait",
         UNCHANGED <<line, sensor, step, got, history>>
  PROVE  ThermoInv'
<1> USE DEF line, sensor, history
<1>1. Started /\ reading' = Read(before)'
  BY Returns DEF Measuring, line, history
<1>2. Typed' /\ Stored' /\ Converting' /\ ReadSoFar' /\ NoneYet'
  BY DEF ThermoInv, Typed, Stored, Converting, ReadSoFar, NoneYet, Measuring
<1>3. Primed' /\ LagsOne'
  BY <1>1 DEF ThermoInv, Primed, LagsOne, Started, Measuring
<1> QED
  BY <1>2, <1>3 DEF ThermoInv

LEMMA ProgramStep == ThermoInv /\ Program => ThermoInv'
<1> SUFFICES ASSUME ThermoInv, Program PROVE ThermoInv'
  OBVIOUS
<1> USE DEF line, sensor, output, history
<1>1. CASE Boot
  BY <1>1 DEF Boot, Call, ThermoInv, Typed, Stored, Converting, ReadSoFar, Primed, NoneYet, LagsOne,
              Shown, Measuring, Started
<1>2. CASE InitDone
  BY <1>2 DEF InitDone, Call, ThermoInv, Typed, Stored, Converting, ReadSoFar, Primed, NoneYet, LagsOne,
              Shown, Measuring, Started
<1>3. CASE Dropped
  <2>1. Started
    BY <1>3, Returns DEF Dropped, Measuring
  <2> QED
    BY <1>3, <2>1 DEF Dropped, ThermoInv, Typed, Stored, Converting, ReadSoFar, Primed, NoneYet, LagsOne,
                      Shown, Measuring, Started
<1>4. CASE PublishReading
  BY <1>4, Finishes DEF PublishReading
<1>5. CASE Display
  BY <1>5, Finishes DEF Display
<1>6. CASE Timer
  BY <1>6 DEF Timer, Call, ThermoInv, Typed, Stored, Converting, ReadSoFar, Primed, NoneYet, LagsOne,
              Shown, Measuring, Started
<1> QED
  BY <1>1, <1>2, <1>3, <1>4, <1>5, <1>6 DEF Program

LEMMA OutsideStep == ThermoInv /\ (Warm \/ Converted \/ Stick \/ UNCHANGED thermoVars) => ThermoInv'
<1> SUFFICES ASSUME ThermoInv, Warm \/ Converted \/ Stick \/ UNCHANGED thermoVars PROVE ThermoInv'
  OBVIOUS
<1> USE DEF line, sensor, output, history, ThermoInv, Typed, Stored, Converting, ReadSoFar, OctetRead,
            Primed, NoneYet, LagsOne, Read, Shown, Measuring, Started
<1>1. CASE Warm BY <1>1 DEF Warm
<1>2. CASE Converted
  <2>1. held' = sample /\ sample' = Idle /\ at = "wait" /\ sample \in Held /\ present
    BY <1>2, SomeTemperatures DEF Converted
  <2>2. held' = asked /\ Typed'
    BY <1>2, <2>1 DEF Converted
  <2>3. (Stored /\ Converting /\ ReadSoFar)'
    BY <1>2, <2>1, <2>2 DEF Converted
  <2>4. (Primed /\ NoneYet /\ LagsOne)'
    BY <1>2 DEF Converted
  <2> QED BY <2>2, <2>3, <2>4
<1>3. CASE Stick BY <1>3 DEF Stick
<1>4. CASE UNCHANGED thermoVars BY <1>4 DEF thermoVars
<1> QED BY <1>1, <1>2, <1>3, <1>4

LEMMA ThermoStep == ThermoInv /\ [ThermoNext]_thermoVars => ThermoInv'
<1> SUFFICES ASSUME ThermoInv, [ThermoNext]_thermoVars PROVE ThermoInv'
  OBVIOUS
<1>1. CASE BusReset
  BY <1>1, PlainTransfer DEF BusReset
<1>2. CASE BusCommand
  <2>1. PICK op \in {"skip", "readrom", "id", "scratchpad"} : Transfer(op)
    BY <1>2 DEF BusCommand
  <2> QED
    BY <1>2, <2>1, PlainTransfer DEF BusCommand
<1> QED
  BY <1>1, <1>2, ConvertStep, ReadStep, ProgramStep, OutsideStep DEF ThermoNext, Bus

\* Every reading is a whole call late, and the sensor node never publishes the
\* register's power-on value (one_wire.c:62-81).
THEOREM ReadingsLag == ThermoSpec => []LagsOne
<1>1. ThermoInv => LagsOne
  BY DEF ThermoInv
<1> QED
  BY ThermoStart, ThermoStep, <1>1, PTL DEF ThermoSpec

---------------------------------------------------------------------------
(* The numbers.  A temperature of 16 * q + r sixteenths is 100 * q hundredths *)
(* and 6 * r + r \div 4 more.                                                *)

LEMMA OctetValues == \A x : x \in Octets <=> x \in Int /\ 0 <= x /\ x <= 255
<1>1. MaxOctet \in Int
  BY DEF MaxOctet
<1>2. \A x : x \in Octets <=> x \in Int /\ 0 <= x /\ x <= MaxOctet
  BY <1>1 DEF Octets
<1>3. MaxOctet = 255
  BY DEF MaxOctet
<1> QED
  BY <1>2, <1>3

LEMMA WordValues == \A x : x \in Words <=> x \in Int /\ 0 <= x /\ x <= 65535
<1>1. MaxWord \in Int
  BY DEF MaxWord
<1>2. \A x : x \in Words <=> x \in Int /\ 0 <= x /\ x <= MaxWord
  BY <1>1 DEF Words
<1>3. MaxWord = 65535
  BY DEF MaxWord
<1> QED
  BY <1>2, <1>3

LEMMA ReadingWord ==
  ASSUME NEW b \in Int
  PROVE  Reading(b) \in Words
<1>1. Quarter(b) \in Int
  BY DEF Quarter
<1>2. Reading(b) \in Int /\ 0 <= Reading(b) /\ Reading(b) <= 65535
  BY <1>1 DEF Reading
<1> QED
  BY <1>2, WordValues

LEMMA ShownOctets ==
  ASSUME NEW t \in Int
  PROVE  Val(t) \in Octets /\ Frac(t) \in Octets /\ Frac(t) < 100 /\ Degrees(t) \in Octets
<1>1. Val(t) \in Int /\ 0 <= Val(t) /\ Val(t) <= 255
  BY DEF Val
<1>2. Frac(t) \in Int /\ 0 <= Frac(t) /\ Frac(t) < 100
  BY DEF Frac
<1>3. Degrees(t) \in Int /\ 0 <= Degrees(t) /\ Degrees(t) <= 255
  BY <1>1 DEF Degrees
<1> QED
  BY <1>1, <1>2, <1>3, OctetValues

LEMMA Positive ==
  ASSUME NEW b \in Int, 0 <= b, b <= 2000
  PROVE  LET q == b \div 16
             r == b % 16
         IN /\ q \in Int /\ 0 <= q /\ q <= 125 /\ r \in Int /\ 0 <= r /\ r < 16 /\ b = 16 * q + r
            /\ 6 * b + Quarter(b) = 100 * q + 6 * r + r \div 4
            /\ Reading(b) = 100 * q + 6 * r + r \div 4
            /\ Val(Reading(b)) = q /\ Frac(Reading(b)) = 6 * r + r \div 4
<1> DEFINE q == b \div 16  r == b % 16  f == 6 * r + r \div 4
<1>1. q \in Int /\ 0 <= q /\ q <= 125 /\ r \in Int /\ 0 <= r /\ r < 16 /\ b = 16 * q + r
  OBVIOUS
<1>2. f \in Int /\ 0 <= f /\ f <= 93
  BY <1>1
<1>3. 6 * b + Quarter(b) = 100 * q + f
  <2>1. Quarter(b) = 4 * q + r \div 4
    BY <1>1 DEF Quarter
  <2> QED
    BY <1>1, <2>1
<1> HIDE DEF q, r, f
<1>4. Reading(b) = 100 * q + f
  BY <1>1, <1>2, <1>3 DEF Reading
<1>5. Val(Reading(b)) = q /\ Frac(Reading(b)) = f
  BY <1>1, <1>2, <1>4 DEF Val, Frac
<1> QED
  BY <1>1, <1>3, <1>4, <1>5 DEF q, r, f

LEMMA MeantRight ==
  ASSUME NEW b \in Int, -880 <= b, b <= 2000
  PROVE  Meant(<<Val(Reading(b)), Frac(Reading(b))>>) = 6 * b + Quarter(b)
           <=> b >= 0 /\ b % 16 # 1
<1> DEFINE v == Val(Reading(b))  f == Frac(Reading(b))
<1>1. Reading(b) \in Int
  BY ReadingWord, WordValues
<1>2. v \in Int /\ 0 <= v /\ f \in Int /\ 0 <= f
  BY <1>1, ShownOctets, OctetValues
<1>3. Meant(<<v, f>>) = 100 * v + IF f < 10 THEN 10 * f ELSE f
  BY DEF Meant
<1>4. CASE b < 0
  <2>1. 6 * b + Quarter(b) < 0
    BY <1>4 DEF Quarter
  <2> HIDE DEF v, f
  <2>2. Meant(<<v, f>>) >= 0
    BY <1>2, <1>3
  <2>3. Meant(<<v, f>>) \in Int /\ 6 * b + Quarter(b) \in Int
    BY <1>2, <1>3 DEF Quarter
  <2> QED
    BY <1>4, <2>1, <2>2, <2>3 DEF v, f
<1>5. CASE b >= 0
  <2> DEFINE q == b \div 16  r == b % 16
  <2>1. 0 <= b /\ Quarter(b) \in Int
    BY <1>5 DEF Quarter
  <2>2. /\ r \in Int /\ 0 <= r /\ r < 16 /\ v = q /\ f = 6 * r + r \div 4 /\ q \in Int
        /\ 6 * b + Quarter(b) = 100 * q + 6 * r + r \div 4
    BY <2>1, Positive
  <2>3. (f < 10 /\ f # 0) <=> r = 1
    BY <2>2
  <2> HIDE DEF v, f, q, r
  <2>4. Meant(<<v, f>>) = 6 * b + Quarter(b) <=> r # 1
    BY <1>2, <1>3, <2>2, <2>3
  <2> QED
    BY <1>5, <2>4 DEF v, f, r
<1> QED
  BY <1>4, <1>5

\* The nearest whole degree.
LEMMA Nearest ==
  ASSUME NEW b \in Int, 0 <= b, b <= 2000
  PROVE  Degrees(Reading(b)) = (b + 8) \div 16
<1> DEFINE q == b \div 16  r == b % 16  f == 6 * r + r \div 4
<1>1. /\ q \in Int /\ 0 <= q /\ q <= 125 /\ r \in Int /\ 0 <= r /\ r < 16 /\ b = 16 * q + r
      /\ Val(Reading(b)) = q /\ Frac(Reading(b)) = f
  BY Positive
<1>2. f >= 50 <=> r >= 8
  BY <1>1
<1> HIDE DEF q, r, f
<1>3. Degrees(Reading(b)) = (q + IF r >= 8 THEN 1 ELSE 0) % 256
  BY <1>1, <1>2 DEF Degrees
<1> QED
  BY <1>1, <1>3

\* Below zero, what the wrapped reading rounds to.
LEMMA NearestWrapped ==
  ASSUME NEW b \in Int, -880 <= b, b < 0
  PROVE  Degrees(Reading(b)) = (14336 + 6 * b + Quarter(b) + 50) \div 100
<1> DEFINE w == 14336 + 6 * b + Quarter(b)  v == w \div 100  f == w % 100
<1>1. w \in Int /\ 8000 <= w /\ w < 14336
  BY DEF Quarter
<1>2. Reading(b) = 51200 + w
  <2>1. Quarter(b) \in Int
    BY DEF Quarter
  <2>2. 6 * b + Quarter(b) = (51200 + w) - 65536
    BY <2>1
  <2> HIDE DEF w
  <2> QED
    BY <1>1, <2>2 DEF Reading
<1> HIDE DEF w
<1>3. v \in Int /\ f \in Int /\ 0 <= f /\ f < 100 /\ w = 100 * v + f /\ 80 <= v /\ v <= 143
  BY <1>1
<1>4. (51200 + w) \div 100 = 512 + v /\ (51200 + w) % 100 = f
  BY <1>3
<1>5. (w + 50) \div 100 = v + IF f >= 50 THEN 1 ELSE 0
  BY <1>3
<1> HIDE DEF v, f
<1>6. Val(Reading(b)) = v /\ Frac(Reading(b)) = f
  BY <1>2, <1>3, <1>4 DEF Val, Frac
<1>7. Degrees(Reading(b)) = v + IF f >= 50 THEN 1 ELSE 0
  BY <1>3, <1>6 DEF Degrees
<1> QED
  BY <1>5, <1>7 DEF w

---------------------------------------------------------------------------
(* The drawing.                                                            *)

LEMMA PanelSize == /\ LCDWIDTH \in Nat /\ LCDHEIGHT \in Nat /\ LCDWIDTH >= 120 /\ LCDHEIGHT >= 48
  BY DrawAssumption, ScreenAssumption

\* The column and row a bit of the buffer stands for.
Dot(c) == <<c[1] % LCDWIDTH, 8 * (c[1] \div LCDWIDTH) + c[2]>>

\* draw_pixel lights the pixel it is asked for, and no other, in the first six pages.
LEMMA PixelDot ==
  ASSUME NEW x \in Int, NEW y \in Int, 0 <= x, x < LCDWIDTH, 0 <= y, y < 48
  PROVE  DrawPixel(x, y) \in Cells /\ Dot(DrawPixel(x, y)) = <<x, y>>
<1> DEFINE page == y \div 8  bit == y % 8  octet == x + page * LCDWIDTH
<1>1. page \in Int /\ 0 <= page /\ page <= 5 /\ bit \in 0 .. 7 /\ y = 8 * page + bit
  OBVIOUS
<1> HIDE DEF page, bit
<1>2. octet % LCDWIDTH = x /\ octet \div LCDWIDTH = page
  BY <1>1, PanelSize
<1>3. octet \in Int /\ 0 <= octet /\ octet < 6 * LCDWIDTH
  <2>1. page * LCDWIDTH <= 5 * LCDWIDTH /\ 0 <= page * LCDWIDTH /\ page * LCDWIDTH \in Int
    BY <1>1, PanelSize
  <2> QED
    BY <2>1, PanelSize
<1>4. (LCDHEIGHT * LCDWIDTH) \div 8 \in Int /\ (LCDHEIGHT * LCDWIDTH) \div 8 >= 6 * LCDWIDTH
  <2> DEFINE n == LCDHEIGHT * LCDWIDTH
  <2>1. n \in Int /\ n >= 48 * LCDWIDTH
    BY PanelSize
  <2> HIDE DEF n
  <2>2. n \div 8 \in Int /\ n \div 8 >= 6 * LCDWIDTH
    BY <2>1, PanelSize
  <2> QED
    BY <2>2 DEF n
<1>5. octet \in 0 .. (LCDHEIGHT * LCDWIDTH) \div 8 - 1
  <2> HIDE DEF octet
  <2> DEFINE m == (LCDHEIGHT * LCDWIDTH) \div 8
  <2> SUFFICES octet \in 0 .. m - 1
    OBVIOUS
  <2>1. m \in Int /\ m >= 6 * LCDWIDTH
    BY <1>4
  <2> HIDE DEF m
  <2> QED
    BY <1>3, <2>1, PanelSize
<1>6. DrawPixel(x, y) = <<octet, bit>>
  BY DEF DrawPixel, page, bit
<1> HIDE DEF octet
<1>7. <<octet, bit>> \in Cells
  BY <1>1, <1>5 DEF Cells
<1>8. Dot(<<octet, bit>>) = <<x, y>>
  BY <1>1, <1>2 DEF Dot, octet
<1> QED
  BY <1>6, <1>7, <1>8

\* A text that ends before the panel does is written in one line.
Fits(x, y, size, text) ==
  /\ x \in Nat /\ y \in Nat /\ size \in {1, 3} /\ text \in Seq(Glyphs)
  /\ x + 6 * size * Len(text) <= LCDWIDTH /\ y + 8 * size <= 48

LEMMA OneLine ==
  ASSUME NEW x, NEW y, NEW size, NEW text, Fits(x, y, size, text), NEW k \in 1 .. Len(text)
  PROVE  Cursor(x, y, size, k - 1) = <<x + 6 * size * (k - 1), y>>
<1> DEFINE width == 6 * size
           first == IF x > LCDWIDTH - width THEN 1 ELSE (LCDWIDTH - x) \div width
<1>1. k \in Int /\ 1 <= k /\ k <= Len(text) /\ Len(text) \in Nat
  BY DEF Fits
<1>2. k - 1 < first
  <2>1. CASE size = 1
    BY <1>1, <2>1, PanelSize DEF Fits
  <2>2. CASE size = 3
    BY <1>1, <2>2, PanelSize DEF Fits
  <2> QED
    BY <2>1, <2>2 DEF Fits
<1> QED
  BY <1>2 DEF Cursor

\* The pixels of a character's square of dots.
Spot(x, y, size, k, p, d) == <<x + size * (6 * (k - 1) + p[1]) + d[1], y + size * p[2] + d[2]>>

LEMMA SpotInside ==
  ASSUME NEW x, NEW y, NEW size, NEW text, Fits(x, y, size, text), NEW k \in 1 .. Len(text),
         NEW p \in (0 .. 4) \X (0 .. 7), NEW d \in (0 .. size - 1) \X (0 .. size - 1)
  PROVE  \E i, j \in Int :
            /\ Spot(x, y, size, k, p, d) = <<i, j>>
            /\ 0 <= i /\ i < LCDWIDTH /\ 0 <= j /\ j < 48
            /\ i = x + 6 * size * (k - 1) + p[1] * size + d[1] /\ j = y + p[2] * size + d[2]
<1> DEFINE a == p[1]  b == p[2]  u == d[1]  v == d[2]  n == Len(text)
           i == x + size * (6 * (k - 1) + a) + u  j == y + size * b + v
<1>1. a \in Int /\ 0 <= a /\ a <= 4 /\ b \in Int /\ 0 <= b /\ b <= 7
  OBVIOUS
<1>2. u \in 0 .. size - 1 /\ v \in 0 .. size - 1
  OBVIOUS
<1>3. k \in Int /\ 1 <= k /\ k <= n /\ n \in Nat
  BY DEF Fits
<1>4. x \in Nat /\ y \in Nat /\ x + 6 * size * n <= LCDWIDTH /\ y + 8 * size <= 48
  BY DEF Fits
<1>5. Spot(x, y, size, k, p, d) = <<i, j>>
  BY DEF Spot
<1> HIDE DEF a, b, u, v, n
<1>6. /\ i \in Int /\ j \in Int /\ 0 <= i /\ i < LCDWIDTH /\ 0 <= j /\ j < 48
      /\ i = x + 6 * size * (k - 1) + a * size + u /\ j = y + b * size + v
  <2>1. CASE size = 1
    BY <1>1, <1>2, <1>3, <1>4, <2>1, PanelSize
  <2>2. CASE size = 3
    BY <1>1, <1>2, <1>3, <1>4, <2>2, PanelSize
  <2> QED
    BY <2>1, <2>2 DEF Fits
<1> HIDE DEF i, j
<1> QED
  BY <1>5, <1>6 DEF a, b, u, v

LEMMA GlyphBits ==
  ASSUME NEW x, NEW y, NEW size, NEW text, Fits(x, y, size, text), NEW k \in 1 .. Len(text)
  PROVE  Font[text[k]] \subseteq (0 .. 4) \X (0 .. 7)
<1>1. text[k] \in Glyphs
  BY DEF Fits
<1>2. Font \in [Glyphs -> SUBSET ((0 .. 4) \X (0 .. 7))]
  BY DrawAssumption
<1> QED
  BY <1>1, <1>2

\* What draw_char fills for the k-th character.
Square(x, y, size, k, p) == FillRect(x + 6 * size * (k - 1) + p[1] * size, y + p[2] * size, size, size)

LEMMA CharDrawn ==
  ASSUME NEW x, NEW y, NEW size, NEW text, Fits(x, y, size, text), NEW k \in 1 .. Len(text)
  PROVE  DrawChar(text[k], Cursor(x, y, size, k - 1)[1], Cursor(x, y, size, k - 1)[2], size)
           = UNION {Square(x, y, size, k, p) : p \in Font[text[k]]}
<1> DEFINE X == x + 6 * size * (k - 1)
<1>1. Cursor(x, y, size, k - 1)[1] = X /\ Cursor(x, y, size, k - 1)[2] = y
  BY OneLine
<1>2. x \in Nat /\ y \in Nat /\ x + 6 * size * Len(text) <= LCDWIDTH /\ y + 8 * size <= 48
  BY DEF Fits
<1>3. k \in Int /\ 1 <= k /\ k <= Len(text) /\ Len(text) \in Nat
  BY DEF Fits
<1>4. ~(X >= LCDWIDTH \/ y >= LCDHEIGHT)
  <2>1. CASE size = 1
    BY <1>2, <1>3, <2>1, PanelSize
  <2>2. CASE size = 3
    BY <1>2, <1>3, <2>2, PanelSize
  <2> QED
    BY <2>1, <2>2 DEF Fits
<1>5. DrawChar(text[k], X, y, size) =
        UNION {FillRect(X + p[1] * size, y + p[2] * size, size, size) : p \in Font[text[k]]}
  BY <1>4 DEF DrawChar
<1> QED
  BY <1>1, <1>5, Zenon DEF Square

LEMMA TextSquares ==
  ASSUME NEW x, NEW y, NEW size, NEW text, Fits(x, y, size, text)
  PROVE  \A c : c \in DrawText(x, y, size, text) <=>
                \E k \in 1 .. Len(text) : \E p \in Font[text[k]] : c \in Square(x, y, size, k, p)
<1> DEFINE drawn(k) == DrawChar(text[k], Cursor(x, y, size, k - 1)[1], Cursor(x, y, size, k - 1)[2], size)
<1>1. DrawText(x, y, size, text) = UNION {drawn(k) : k \in 1 .. Len(text)}
  BY Zenon DEF DrawText
<1>2. \A k \in 1 .. Len(text) : drawn(k) = UNION {Square(x, y, size, k, p) : p \in Font[text[k]]}
  BY CharDrawn
<1> HIDE DEF drawn
<1>3. \A c : c \in DrawText(x, y, size, text) <=> \E k \in 1 .. Len(text) : c \in drawn(k)
  BY <1>1, Zenon
<1>4. \A k \in 1 .. Len(text) : \A c :
        c \in drawn(k) <=> \E p \in Font[text[k]] : c \in Square(x, y, size, k, p)
  BY <1>2, SMT
<1> QED
  BY <1>3, <1>4, Zenon

LEMMA SquareSpots ==
  ASSUME NEW x, NEW y, NEW size, NEW text, Fits(x, y, size, text), NEW k \in 1 .. Len(text),
         NEW p \in Font[text[k]]
  PROVE  \A c : c \in Square(x, y, size, k, p) <=>
                \E d \in (0 .. size - 1) \X (0 .. size - 1) :
                  c \in Cells /\ Dot(c) = Spot(x, y, size, k, p, d)
                  /\ c = DrawPixel(Spot(x, y, size, k, p, d)[1], Spot(x, y, size, k, p, d)[2])
<1> DEFINE A == x + 6 * size * (k - 1) + p[1] * size  B == y + p[2] * size
<1>1. p \in (0 .. 4) \X (0 .. 7) /\ p[1] \in Int /\ p[2] \in Int
  BY GlyphBits
<1>2. A \in Int /\ B \in Int /\ size \in Nat
  BY <1>1 DEF Fits
<1>3. \A c : c \in Square(x, y, size, k, p) <=>
             \E i \in A .. A + size - 1, j \in B .. B + size - 1 : c = DrawPixel(i, j)
  <2> DEFINE columns == A .. A + size - 1  rows == B .. B + size - 1
  <2>1. Square(x, y, size, k, p) = {DrawPixel(i, j) : i \in columns, j \in rows}
    BY SMT DEF Square, FillRect
  <2> HIDE DEF columns, rows
  <2>2. \A c : c \in Square(x, y, size, k, p) <=> \E i \in columns, j \in rows : c = DrawPixel(i, j)
    BY <2>1, SMT
  <2> QED
    BY <2>2, Zenon DEF columns, rows
<1>4. ASSUME NEW d \in (0 .. size - 1) \X (0 .. size - 1)
      PROVE  /\ Spot(x, y, size, k, p, d) = <<A + d[1], B + d[2]>>
             /\ DrawPixel(A + d[1], B + d[2]) \in Cells
             /\ Dot(DrawPixel(A + d[1], B + d[2])) = <<A + d[1], B + d[2]>>
  <2>1. PICK i, j \in Int : /\ Spot(x, y, size, k, p, d) = <<i, j>>
                            /\ 0 <= i /\ i < LCDWIDTH /\ 0 <= j /\ j < 48
                            /\ i = A + d[1] /\ j = B + d[2]
    BY <1>1, SpotInside
  <2> QED
    BY <2>1, PixelDot
<1>5. ASSUME NEW i \in A .. A + size - 1, NEW j \in B .. B + size - 1
      PROVE  \E d \in (0 .. size - 1) \X (0 .. size - 1) : i = A + d[1] /\ j = B + d[2]
  <2> HIDE DEF A, B
  <2> DEFINE d == <<i - A, j - B>>
  <2>1. d \in (0 .. size - 1) \X (0 .. size - 1) /\ i = A + d[1] /\ j = B + d[2]
    BY <1>2
  <2> QED
    BY <2>1
<1>6. ASSUME NEW d \in (0 .. size - 1) \X (0 .. size - 1)
      PROVE  A + d[1] \in A .. A + size - 1 /\ B + d[2] \in B .. B + size - 1
  <2> DEFINE u == d[1]  v == d[2]
  <2>1. u \in 0 .. size - 1 /\ v \in 0 .. size - 1
    OBVIOUS
  <2> HIDE DEF A, B, u, v
  <2>2. A + u \in A .. A + size - 1 /\ B + v \in B .. B + size - 1
    BY <1>2, <2>1
  <2> QED
    BY <2>2 DEF u, v
<1> HIDE DEF A, B
<1> QED
  BY <1>3, <1>4, <1>5, <1>6

\* A text that fits is drawn within the buffer, as the picture of it.
LEMMA TextDrawn ==
  ASSUME NEW x, NEW y, NEW size, NEW text, Fits(x, y, size, text)
  PROVE  /\ DrawText(x, y, size, text) \subseteq Cells
         /\ {Dot(c) : c \in DrawText(x, y, size, text)} = Picture(x, y, size, text)
<1> DEFINE Squares == (0 .. size - 1) \X (0 .. size - 1)
           Drawn == DrawText(x, y, size, text)
<1>1. \A c : c \in Drawn <=> \E k \in 1 .. Len(text) : \E p \in Font[text[k]] :
                               c \in Square(x, y, size, k, p)
  BY TextSquares
<1>2. \A q : q \in Picture(x, y, size, text) <=>
             \E k \in 1 .. Len(text) : \E p \in Font[text[k]], d \in Squares :
               q = Spot(x, y, size, k, p, d)
  <2> DEFINE dots(k) == {Spot(x, y, size, k, p, d) : p \in Font[text[k]], d \in Squares}
  <2>1. Picture(x, y, size, text) = UNION {dots(k) : k \in 1 .. Len(text)}
    BY SMT DEF Picture, Spot
  <2> HIDE DEF Squares
  <2>2. ASSUME NEW k, NEW q
        PROVE  q \in dots(k) <=> \E p \in Font[text[k]], d \in Squares : q = Spot(x, y, size, k, p, d)
    BY SMT
  <2> HIDE DEF dots
  <2>3. \A q : q \in Picture(x, y, size, text) <=> \E k \in 1 .. Len(text) : q \in dots(k)
    BY <2>1, Zenon
  <2> QED
    BY <2>2, <2>3
<1>3. ASSUME NEW c \in Drawn PROVE c \in Cells /\ Dot(c) \in Picture(x, y, size, text)
  <2>1. PICK k \in 1 .. Len(text) : \E p \in Font[text[k]] : c \in Square(x, y, size, k, p)
    BY <1>1
  <2>2. PICK p \in Font[text[k]] : c \in Square(x, y, size, k, p)
    BY <2>1
  <2>3. PICK d \in Squares : c \in Cells /\ Dot(c) = Spot(x, y, size, k, p, d)
    BY <2>2, SquareSpots
  <2> HIDE DEF Squares, Drawn
  <2> QED
    BY <1>2, <2>3
<1>4. ASSUME NEW q \in Picture(x, y, size, text) PROVE \E c \in Drawn : q = Dot(c)
  <2>1. PICK k \in 1 .. Len(text) : \E p \in Font[text[k]], d \in Squares : q = Spot(x, y, size, k, p, d)
    BY <1>2
  <2>2. PICK p \in Font[text[k]], d \in Squares : q = Spot(x, y, size, k, p, d)
    BY <2>1
  <2> DEFINE c == DrawPixel(q[1], q[2])
  <2>3. p \in (0 .. 4) \X (0 .. 7)
    BY GlyphBits
  <2>4. PICK i, j \in Int : q = <<i, j>> /\ 0 <= i /\ i < LCDWIDTH /\ 0 <= j /\ j < 48
    BY <2>2, <2>3, SpotInside
  <2>5. c \in Cells /\ Dot(c) = q
    BY <2>4, PixelDot
  <2>6. c \in Square(x, y, size, k, p)
    BY <2>2, <2>5, SquareSpots
  <2> HIDE DEF c, Drawn
  <2> QED
    BY <1>1, <2>5, <2>6
<1> HIDE DEF Drawn
<1>5. {Dot(c) : c \in Drawn} = Picture(x, y, size, text)
  BY <1>3, <1>4
<1> QED
  BY <1>3, <1>5 DEF Drawn

LEMMA TitleFits == Fits(2, 1, 1, Title)
<1>1. Len(Title) = 12 /\ Title \in Seq(Glyphs)
  <2>1. Len(Title) = 12
    BY DEF Title
  <2>2. \A k \in 1 .. Len(Title) : Title[k] \in Glyphs
    BY ScreenAssumption
  <2>3. Title = [k \in 1 .. Len(Title) |-> Title[k]]
    BY DEF Title
  <2> HIDE DEF Title
  <2>4. Title \in [1 .. 12 -> Glyphs]
    BY <2>1, <2>2, <2>3
  <2> QED
    BY <2>1, <2>4, SeqDef
<1> QED
  BY <1>1, PanelSize DEF Fits

LEMMA DegreesFit ==
  ASSUME NEW d \in Octets
  PROVE  Fits(30, 20, 3, Digits[d] \o Unit)
<1>1. Len(Unit) = 2 /\ Unit \in Seq(Glyphs)
  <2>1. Unit[1] \in Glyphs /\ Unit[2] \in Glyphs
    BY ScreenAssumption DEF Unit
  <2> QED
    BY <2>1 DEF Unit
<1>2. Digits[d] \in Seq(Glyphs) /\ Len(Digits[d]) <= 3
  BY ScreenAssumption
<1> DEFINE text == Digits[d] \o Unit
<1>3. text \in Seq(Glyphs) /\ Len(text) <= 5 /\ Len(text) \in Nat
  <2>1. text \in Seq(Glyphs) /\ Len(text) = Len(Digits[d]) + Len(Unit)
    BY <1>1, <1>2, ConcatProperties
  <2>2. Len(Digits[d]) \in Nat
    BY <1>2
  <2> HIDE DEF text
  <2> QED
    BY <1>1, <1>2, <2>1, <2>2
<1> HIDE DEF text
<1>4. Fits(30, 20, 3, text)
  BY <1>3, PanelSize DEF Fits
<1> QED
  BY <1>4 DEF text

LEMMA ScreenDrawn ==
  ASSUME NEW d \in Octets
  PROVE  Screen[d] \subseteq Cells /\ {Dot(c) : c \in Screen[d]} = Expected[d]
<1> DEFINE a == DrawText(2, 1, 1, Title)  b == DrawText(30, 20, 3, Digits[d] \o Unit)
           p == Picture(2, 1, 1, Title)   q == Picture(30, 20, 3, Digits[d] \o Unit)
<1>1. a \subseteq Cells /\ {Dot(c) : c \in a} = p
  BY TitleFits, TextDrawn
<1>2. b \subseteq Cells /\ {Dot(c) : c \in b} = q
  BY DegreesFit, TextDrawn
<1>3. Screen[d] = a \cup b /\ Expected[d] = p \cup q
  BY DEF Screen, Expected
<1> HIDE DEF a, b, p, q
<1> QED
  BY <1>1, <1>2, <1>3

---------------------------------------------------------------------------
(* What the programs show.                                                 *)

Values ==
  /\ board \in {"sensor", "oled"} /\ stuck \in BOOLEAN
  /\ got \in Seq(Octets) /\ Len(got) <= 2
  /\ reading \in Words \cup {NoReading}
  /\ shown \in Octets \X Octets /\ shown[2] < 100
  /\ asked \in Held /\ before \in Held

\* The sensor node's latest publication is of its latest reading.
Published == Shown /\ board = "sensor" => shown = <<Val(reading), Frac(reading)>>

\* The panel is blank but for an OLED board that waits.
Drawn ==
  /\ at # "wait" \/ board = "sensor" => panel = {}
  /\ at = "wait" /\ board = "oled" => reading \in Words /\ panel = Screen[Degrees(reading)]

OnlyNode == at = "dropped" => board = "sensor"

OutInv == Values /\ Published /\ Drawn /\ OnlyNode

LEMMA OutStart == ThermoInit => OutInv
<1> SUFFICES ASSUME ThermoInit PROVE OutInv
  OBVIOUS
<1>1. PowerOn \in Held
  BY DEF Held
<1>2. 0 \in Octets
  BY OctetValues
<1>3. board \in {"sensor", "oled"} /\ stuck \in BOOLEAN
  BY DEF ThermoInit
<1>4. Values
  BY <1>1, <1>2, <1>3 DEF ThermoInit, Values
<1>5. Published /\ Drawn
  BY DEF ThermoInit, Published, Drawn, Shown
<1>6. OnlyNode
  BY DEF ThermoInit, OnlyNode
<1> QED
  BY <1>4, <1>5, <1>6 DEF OutInv

\* What the driver returns is two octets' worth.
LEMMA RawRead ==
  ASSUME ThermoInv, Values, Measuring, Returned
  PROVE  Raw(got) \in Int
<1>1. got = <<OctetRead(1), OctetRead(2)>>
  <2>1. step = 9
    BY DEF Returned, Script, TempScript, Measuring
  <2> QED
    BY <2>1 DEF ThermoInv, ReadSoFar
<1>2. Raw(got) = IF present THEN held ELSE Absent
  BY <1>1, RegisterRead DEF ThermoInv, Typed
<1>3. held \in Int
  BY ThermoAssumption DEF ThermoInv, Typed
<1> QED
  BY <1>2, <1>3 DEF Absent

\* A step that leaves readings, publications and the panel alone, and neither ends
\* nor begins a wait.
LEMMA OutSame ==
  ASSUME OutInv, Values', OnlyNode', UNCHANGED <<board, reading, shown, panel>>,
         at' = "wait" <=> at = "wait"
  PROVE  OutInv'
  BY DEF OutInv, Published, Drawn, Shown

LEMMA OutStep == ThermoInv /\ OutInv /\ [ThermoNext]_thermoVars => OutInv'
<1> SUFFICES ASSUME ThermoInv, OutInv, [ThermoNext]_thermoVars PROVE OutInv'
  OBVIOUS
<1> USE DEF line, sensor, output, history
<1>0. Values /\ OnlyNode
  BY DEF OutInv
<1>1. CASE BusReset \/ BusCommand
  BY <1>0, <1>1, OutSame DEF BusReset, BusCommand, Values, OnlyNode
<1>2. CASE BusConvert
  <2>0. room \in Held
    BY SomeTemperatures DEF ThermoInv, Typed
  <2>1. Values'
    BY <1>0, <1>2, <2>0 DEF BusConvert, Values
  <2> QED
    BY <1>0, <1>2, <2>1, OutSame DEF BusConvert, OnlyNode
<1>3. CASE BusRead
  <2>1. step \in {7, 8} /\ Measuring /\ step' = step + 1 /\ at' = at
    BY <1>3, ScriptSteps DEF BusRead, ThermoInv
  <2>2. \A n \in 1 .. 2 : OctetRead(n)' \in Octets
    <3>1. held \in Held /\ Scratchpad[held] \in Octets \X Octets
      BY ThermoAssumption DEF ThermoInv, Typed
    <3>2. 255 \in Octets
      BY OctetValues
    <3> QED
      BY <1>3, <3>1, <3>2 DEF BusRead, OctetRead
  <2>3. ThermoInv'
    BY ThermoStep
  <2>4. got' = <<OctetRead(1)', OctetRead(2)'>> \/ got' = <<OctetRead(1)'>>
    BY <2>1, <2>3 DEF ThermoInv, ReadSoFar, Measuring
  <2>5. got' \in Seq(Octets) /\ Len(got') <= 2
    <3> DEFINE a == OctetRead(1)'  b == OctetRead(2)'
    <3>1. a \in Octets /\ b \in Octets
      BY <2>2
    <3> HIDE DEF a, b
    <3>2. /\ <<a, b>> \in Seq(Octets) /\ Len(<<a, b>>) <= 2
          /\ <<a>> \in Seq(Octets) /\ Len(<<a>>) <= 2
      BY <3>1
    <3> QED
      BY <2>4, <3>2, Zenon DEF a, b
  <2>6. Values'
    BY <1>0, <1>3, <2>5 DEF BusRead, Values
  <2> QED
    BY <1>0, <1>3, <2>6, OutSame DEF BusRead, OnlyNode
<1>4. CASE Boot
  <2>1. <<>> \in Seq(Octets) /\ Len(<<>>) <= 2
    OBVIOUS
  <2>2. Values'
    BY <1>0, <1>4, <2>1 DEF Boot, Call, Values
  <2> QED
    BY <1>4, <2>2, OutSame DEF Boot, Call, OnlyNode
<1>5. CASE InitDone
  <2>1. <<>> \in Seq(Octets) /\ Len(<<>>) <= 2
    OBVIOUS
  <2>2. Values'
    BY <1>0, <1>5, <2>1 DEF InitDone, Call, Values
  <2> QED
    BY <1>5, <2>2, OutSame DEF InitDone, Call, OnlyNode
<1>6. CASE Dropped
  <2>1. Values'
    BY <1>0, <1>6 DEF Dropped, Values
  <2>2. board = "sensor" /\ reading = NoReading
    BY <1>0, <1>6 DEF Dropped, ThermoInv, NoneYet, OnlyNode
  <2> QED
    BY <1>6, <2>1, <2>2 DEF Dropped, OutInv, Published, Drawn, Shown, OnlyNode
<1>7. CASE PublishReading
  <2>1. Reading(Raw(got)) \in Words
    BY <1>7, <1>0, RawRead, ReadingWord DEF PublishReading, Measuring
  <2>2. /\ Val(Reading(Raw(got))) \in Octets /\ Frac(Reading(Raw(got))) \in Octets
        /\ Frac(Reading(Raw(got))) < 100
    BY <2>1, WordValues, ShownOctets
  <2>3. reading' = Reading(Raw(got)) /\ shown' = <<Val(reading'), Frac(reading')>>
    BY <1>7 DEF PublishReading
  <2>4. reading' \in Words /\ shown' \in Octets \X Octets /\ shown'[2] < 100
    BY <2>1, <2>2, <2>3
  <2>5. Values'
    BY <1>0, <1>7, <2>4 DEF PublishReading, Values
  <2> QED
    BY <1>7, <2>3, <2>5 DEF PublishReading, OutInv, Published, Drawn, OnlyNode
<1>8. CASE Display
  <2>1. Reading(Raw(got)) \in Words
    BY <1>8, <1>0, RawRead, ReadingWord DEF Display, Measuring
  <2>2. reading' = Reading(Raw(got)) /\ reading' \in Words
    BY <1>8, <2>1 DEF Display
  <2>3. Values'
    BY <1>0, <1>8, <2>2 DEF Display, Values
  <2>4. panel' = Screen[Degrees(reading')]
    BY <1>8 DEF Display, OutInv, Drawn
  <2> QED
    BY <1>8, <2>2, <2>3, <2>4 DEF Display, OutInv, Published, Drawn, OnlyNode, Shown
<1>9. CASE Timer
  <2>1. <<>> \in Seq(Octets) /\ Len(<<>>) <= 2
    OBVIOUS
  <2>2. Values'
    BY <1>0, <1>9, <2>1 DEF Timer, Call, Values
  <2> QED
    BY <1>9, <2>2 DEF Timer, Call, OutInv, Published, Drawn, OnlyNode, Shown
<1>10. CASE Warm \/ Converted \/ Stick \/ UNCHANGED thermoVars
  <2>1. UNCHANGED <<board, at, got, reading, shown, panel, asked, before>> /\ stuck' \in BOOLEAN
    BY <1>0, <1>10 DEF Warm, Converted, Stick, thermoVars, Values
  <2>2. Values' /\ OnlyNode'
    BY <1>0, <2>1 DEF Values, OnlyNode
  <2> QED
    BY <2>1, <2>2, OutSame
<1> QED
  BY <1>1, <1>2, <1>3, <1>4, <1>5, <1>6, <1>7, <1>8, <1>9, <1>10 DEF ThermoNext, Bus, Program

---------------------------------------------------------------------------
(* The theorems.                                                           *)

LEMMA OutAlways == ThermoSpec => [](ThermoInv /\ OutInv)
  BY ThermoStart, ThermoStep, OutStart, OutStep, PTL DEF ThermoSpec

\* The driver reads two octets at most, a publication is two octets of which the
\* second counts hundredths, and no pixel is drawn outside buffer[] (one_wire.c,
\* draw.c:160-296).
THEOREM ThermoTypeCorrect == ThermoSpec => []ThermoTypeOK
<1>1. ThermoInv /\ OutInv => ThermoTypeOK
  <2> SUFFICES ASSUME ThermoInv, OutInv PROVE ThermoTypeOK
    OBVIOUS
  <2>1. panel \subseteq Cells
    <3>1. CASE at = "wait" /\ board = "oled"
      <4>1. Degrees(reading) \in Octets /\ panel = Screen[Degrees(reading)]
        BY <3>1, WordValues, ShownOctets DEF OutInv, Drawn
      <4> QED
        BY <4>1, ScreenDrawn
    <3>2. CASE ~(at = "wait" /\ board = "oled")
      BY <3>2 DEF OutInv, Values, Drawn
    <3> QED
      BY <3>1, <3>2
  <2> QED
    BY <2>1 DEF ThermoInv, Typed, OutInv, Values, ThermoTypeOK
<1> QED
  BY OutAlways, <1>1, PTL

LEMMA HeldRange == \A t \in Held : t \in Int /\ -880 <= t /\ t <= 2000
  BY ThermoAssumption

\* A publication means the temperature that was read, unless it was negative or a
\* sixteenth over a whole degree (sensor/mqtt-service.c:179-193).
THEOREM PublicationsRight == ThermoSpec => []PublishedRight
<1>1. ThermoInv /\ OutInv => PublishedRight
  <2> SUFFICES ASSUME ThermoInv, OutInv, Shown, board = "sensor", present
               PROVE  Meant(shown) = 6 * before + Quarter(before) <=> before >= 0 /\ before % 16 # 1
    BY DEF PublishedRight
  <2>1. shown = <<Val(Reading(before)), Frac(Reading(before))>>
    BY DEF ThermoInv, LagsOne, Read, OutInv, Published
  <2>2. before \in Int /\ -880 <= before /\ before <= 2000
    BY HeldRange DEF OutInv, Values
  <2> QED
    BY <2>1, <2>2, MeantRight
<1> QED
  BY OutAlways, <1>1, PTL

\* While it waits the OLED board shows the nearest whole degree of what it read, or
\* below zero and without a sensor the number that has wrapped, and the panel is
\* blank while it reads (oled-temp.c:38-60, draw.c).
THEOREM PanelShowsReading == ThermoSpec => []ShowsReading
<1>1. ThermoInv /\ OutInv => ShowsReading
  <2> SUFFICES ASSUME ThermoInv, OutInv PROVE ShowsReading
    OBVIOUS
  <2> DEFINE t == IF present THEN before ELSE Absent
  <2>1. ASSUME Shown, board = "oled"
        PROVE  Pixels = Expected[DegreesDrawn(t)]
    <3>1. t \in Int /\ -880 <= t /\ t <= 2000
      BY HeldRange DEF OutInv, Values, Absent
    <3>2. reading = Reading(t) /\ reading \in Words /\ panel = Screen[Degrees(reading)]
      BY <2>1 DEF ThermoInv, LagsOne, Read, OutInv, Drawn, Shown
    <3> HIDE DEF t
    <3>3. Degrees(reading) \in Octets /\ Degrees(reading) = DegreesDrawn(t)
      BY <3>1, <3>2, Nearest, NearestWrapped, WordValues, ShownOctets DEF DegreesDrawn
    <3>4. Pixels = {Dot(c) : c \in panel}
      BY DEF Pixels, Dot
    <3> QED
      BY <3>2, <3>3, <3>4, ScreenDrawn
  <2>2. at = "temp" => panel = {}
    BY DEF OutInv, Drawn
  <2> QED
    BY <2>1, <2>2 DEF ShowsReading
<1> QED
  BY OutAlways, <1>1, PTL
=============================================================================
