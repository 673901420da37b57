----------------------------- MODULE Thermometer -----------------------------
(***************************************************************************)
(* A DS18B20 on its 1-wire line, the driver that reads it (one_wire.c) and  *)
(* the two programs that show the reading: the sensor node publishes it      *)
(* (periodic_timer_cb of sensor/mqtt-service.c), the OLED board draws it     *)
(* (oled/oled-temp.c).  Each transfer of the driver is a step, so that the   *)
(* line may stick and the room may warm between any two.                     *)
(*                                                                         *)
(* The sensor is external: it samples when told to convert, needs longer     *)
(* for that than the rest of the call but less than a timer period, and      *)
(* holds PowerOn (85 degrees) before its first conversion is over.  An       *)
(* absent sensor leaves the line high: every octet reads 255.                *)
(***************************************************************************)
EXTENDS Draw, Widths

CONSTANTS
  Temperatures,   \* of the room, in sixteenths of a degree
  PowerOn,        \* the sensor's register after power on
  Scratchpad,       \* a temperature's two octets in the register, low one first
  Digits          \* printf's "%d"

\* raw, int16_t: (temp2 << 8) | temp1.
Raw(octets) ==
  LET word == octets[1] + 256 * octets[2] IN IF word < 32768 THEN word ELSE word - 65536

Held == Temperatures \cup {PowerOn}
Absent == -1    \* raw of two octets of 255

ASSUME ThermoAssumption ==
  /\ \A t \in Held : t \in Int /\ t >= -880 /\ t <= 2000
  /\ PowerOn \notin Temperatures /\ Temperatures # {}
  /\ Scratchpad \in [Held -> Octets \X Octets]
  /\ \A t \in Held : Raw(Scratchpad[t]) = t
  /\ Raw(<<255, 255>>) = Absent

Title == <<"T", "e", "m", "p", "e", "r", "a", "t", "u", "r", "e", ":">>
Unit == <<"deg", "C">>

\* The panel, of 128 by 64, holds what is drawn, and the font every character of it.
ASSUME ScreenAssumption ==
  /\ LCDWIDTH >= 120 /\ LCDHEIGHT >= 48
  /\ \A k \in 1 .. Len(Title) : Title[k] \in Glyphs
  /\ \A k \in 1 .. Len(Unit) : Unit[k] \in Glyphs
  /\ \A d \in Octets : Digits[d] \in Seq(Glyphs) /\ Len(Digits[d]) <= 3

VARIABLES
  board,      \* which program: "sensor" or "oled"
  present,    \* a sensor is fitted
  room,       \* the temperature there
  stuck,      \* something holds the line low
  sample,     \* what the conversion under way has sampled, or Idle
  held,       \* the sensor's register
  at,         \* where the program is
  step,       \* the next transfer of this call of the driver
  got,        \* temp1 and temp2
  reading,    \* what onewire_temp_read returned last
  shown,      \* val and frac of the last publication
  panel,      \* buffer[], which the panel displays after each change
  asked,      \* the room at the latest and at the one before the latest start of
  before      \* a conversion, for the properties

line == <<board, present>>
sensor == <<room, stuck, sample, held>>
output == <<reading, shown, panel>>
history == <<asked, before>>
thermoVars == <<line, sensor, at, step, got, output, history>>

Idle == -1000     \* below what the sensor measures
NoReading == -1   \* of no call yet
TempScript == <<"reset", "skip", "convert", "reset", "skip", "scratchpad", "read", "read">>
IdScript == <<"reset", "readrom", "id">>

ThermoInit ==
  /\ board \in {"sensor", "oled"} /\ present \in BOOLEAN
  /\ room \in Temperatures /\ stuck = FALSE /\ sample = Idle /\ held = PowerOn
  /\ at = "boot" /\ step = 1 /\ got = <<>>
  /\ reading = NoReading /\ shown = <<0, 0>> /\ panel = {}
  /\ asked = PowerOn /\ before = PowerOn

---------------------------------------------------------------------------
(* The driver.                                                             *)

\* C's raw / 4, towards zero.
Quarter(raw) == IF raw >= 0 THEN raw \div 4 ELSE -((-raw) \div 4)

\* 6 * raw + raw / 4 as uint16_t: hundredths of a degree.
Reading(raw) == (6 * raw + Quarter(raw)) % 65536

\* The transfers of onewire_id_read and onewire_temp_read.
Script == IF at = "id" THEN IdScript ELSE TempScript
Calling == at \in {"id", "dropped", "temp"}
Returned == Calling /\ step = Len(Script) + 1
Transfer(op) == Calling /\ step <= Len(Script) /\ Script[step] = op /\ step' = step + 1

\* Mutant of BusReset: the reset waits for the sensor's presence pulse.
BusResetPresence ==
  /\ Transfer("reset") /\ ~stuck /\ present
  /\ UNCHANGED <<line, sensor, at, got, output, history>>

\* The reset waits for the line to be high, for ever if need be, and takes an
\* absent sensor for a present one.
BusReset ==
  /\ Transfer("reset") /\ ~stuck
  /\ UNCHANGED <<line, sensor, at, got, output, history>>

\* Skip ROM, read ROM and its octets (which are only printed) change nothing.
BusCommand ==
  /\ \E op \in {"skip", "readrom", "id", "scratchpad"} : Transfer(op)
  /\ UNCHANGED <<line, sensor, at, got, output, history>>

BusConvert ==
  /\ Transfer("convert")
  /\ sample' = IF present THEN room ELSE Idle
  /\ before' = asked /\ asked' = room
  /\ UNCHANGED <<line, room, stuck, held, at, got, output>>

BusRead ==
  /\ Transfer("read")
  /\ got' = Append(got, IF present THEN Scratchpad[held][Len(got) + 1] ELSE 255)
  /\ UNCHANGED <<line, sensor, at, output, history>>

Bus == BusReset \/ BusCommand \/ BusConvert \/ BusRead

---------------------------------------------------------------------------
(* The programs.                                                           *)

Call(place) == at' = place /\ step' = 1 /\ got' = <<>>

\* draw_init shows a splash screen that draw_clear takes away at once.
Boot ==
  /\ at = "boot"
  /\ Call("id")
  /\ UNCHANGED <<line, sensor, output, history>>

\* Mutant of InitDone: no first reading on the sensor node either.
InitDoneUnprimed ==
  /\ at = "id" /\ Returned
  /\ IF board = "sensor"
     THEN at' = "wait" /\ UNCHANGED <<step, got>>
     ELSE Call("temp")
  /\ UNCHANGED <<line, sensor, output, history>>

\* The sensor node reads a first temperature in onewire_init and drops it; the
\* OLED board's thread goes straight to its first timer_callback.
InitDone ==
  /\ at = "id" /\ Returned
  /\ Call(IF board = "sensor" THEN "dropped" ELSE "temp")
  /\ UNCHANGED <<line, sensor, output, history>>

Dropped ==
  /\ at = "dropped" /\ Returned
  /\ at' = "wait" /\ UNCHANGED <<line, sensor, step, got, output, history>>

\* Mutant of Frac: what val leaves, although val wraps.
FracOfRest(temp) == temp - 100 * ((temp \div 100) % 256)

\* The two uint8_t of both callbacks.
Val(temp) == (temp \div 100) % 256
Frac(temp) == temp % 100

\* Mutant of PublishReading: tenths of a degree.
PublishTenths ==
  /\ at = "temp" /\ Returned /\ board = "sensor"
  /\ reading' = Reading(Raw(got))
  /\ shown' = <<Val(reading'), Frac(reading') \div 10>>
  /\ at' = "wait" /\ UNCHANGED <<line, sensor, step, got, panel, history>>

\* The sensor node prints "%d.%d" of both.
PublishReading ==
  /\ at = "temp" /\ Returned /\ board = "sensor"
  /\ reading' = Reading(Raw(got))
  /\ shown' = <<Val(reading'), Frac(reading')>>
  /\ at' = "wait" /\ UNCHANGED <<line, sensor, step, got, panel, history>>

\* uint8_t val, rounded.
Degrees(temp) == (Val(temp) + IF Frac(temp) >= 50 THEN 1 ELSE 0) % 256

\* What the OLED board draws for a number of degrees.
Screen == [d \in Octets |->
  DrawText(2, 1, 1, Title) \cup DrawText(30, 20, 3, Digits[d] \o Unit)]

Display ==
  /\ at = "temp" /\ Returned /\ board = "oled"
  /\ reading' = Reading(Raw(got))
  /\ panel' = panel \cup Screen[Degrees(reading')]
  /\ at' = "wait" /\ UNCHANGED <<line, sensor, step, got, shown, history>>

\* Mutant of Timer: the buffer is not cleared before the text is drawn.
TimerUncleared ==
  /\ at = "wait" /\ sample = Idle
  /\ Call("temp")
  /\ UNCHANGED <<line, sensor, output, history>>

\* A timer event; both programs set the timer after the call, and its period
\* leaves the sensor the time to convert.
Timer ==
  /\ at = "wait" /\ sample = Idle
  /\ Call("temp")
  /\ panel' = {}
  /\ UNCHANGED <<line, sensor, reading, shown, history>>

Program == Boot \/ InitDone \/ Dropped \/ PublishReading \/ Display \/ Timer

---------------------------------------------------------------------------
(* External: the room, the line and the sensor.                            *)

Warm ==
  /\ \E t \in Temperatures : room' = t
  /\ UNCHANGED <<line, stuck, sample, held, at, step, got, output, history>>

\* The conversion is over in the time between two calls.
Converted ==
  /\ at = "wait" /\ sample # Idle
  /\ held' = sample /\ sample' = Idle
  /\ UNCHANGED <<line, room, stuck, at, step, got, output, history>>

\* A line that sticks within a transfer garbles it; only the wait for the line is
\* modelled.
Stick ==
  /\ stuck' = ~stuck
  /\ Calling /\ ~Returned => Script[step] = "reset"
  /\ UNCHANGED <<line, room, sample, held, at, step, got, output, history>>

ThermoNext == Bus \/ Program \/ Warm \/ Converted \/ Stick

ThermoSpec == ThermoInit /\ [][ThermoNext]_thermoVars

\* The processor runs, the timer expires and the conversion ends.
ThermoProgress == BusCommand \/ BusConvert \/ BusRead \/ Program \/ Converted

\* onewire_reset polls all the time: it does not miss a line that is free time
\* and again.
ThermoFairness == WF_thermoVars(ThermoProgress) /\ SF_thermoVars(BusReset)

---------------------------------------------------------------------------
(* Properties.                                                             *)

ThermoTypeOK ==
  /\ board \in {"sensor", "oled"} /\ present \in BOOLEAN
  /\ room \in Temperatures /\ stuck \in BOOLEAN
  /\ sample \in Temperatures \cup {Idle} /\ held \in Held
  /\ at \in {"boot", "id", "dropped", "temp", "wait"}
  /\ step \in 1 .. 9
  /\ got \in Seq(Octets) /\ Len(got) <= 2
  /\ (reading \in Words \/ reading = NoReading) /\ shown \in Octets \X Octets /\ shown[2] < 100
  /\ panel \subseteq Cells
  /\ asked \in Held /\ before \in Held

Read(t) == Reading(IF present THEN t ELSE Absent)

\* A reading was made and shown, and no call is under way.
Shown == at = "wait" /\ reading # NoReading

\* Every reading is the temperature at the start of the conversion before: the
\* register is read in the call that starts a conversion (lines 67-76), at least
\* one whole period late.  Only the sensor node, which drops its first reading,
\* never publishes the 85 degrees of a sensor that has not converted yet.
LagsOne ==
  Shown => reading = Read(before) /\ (board = "sensor" => before # PowerOn)

\* What "%d.%d" means to who reads it: 21.6 is sixty hundredths.
Meant(text) == 100 * text[1] + IF text[2] < 10 THEN 10 * text[2] ELSE text[2]

\* A publication says the temperature that was read, to the hundredth, but for
\* negative ones, which wrap, and 1/16 over a whole degree, printed "21.6".
PublishedRight ==
  Shown /\ board = "sensor" /\ present =>
    (Meant(shown) = 6 * before + Quarter(before) <=> before >= 0 /\ before % 16 # 1)

\* The picture of a text of that size at that place, in columns and rows.
Picture(x, y, size, text) ==
  UNION {{<<x + size * (6 * (k - 1) + p[1]) + d[1], y + size * p[2] + d[2]>> :
            p \in Font[text[k]], d \in (0 .. size - 1) \X (0 .. size - 1)} : k \in 1 .. Len(text)}

Expected == [d \in Octets |->
  Picture(2, 1, 1, Title) \cup Picture(30, 20, 3, Digits[d] \o Unit)]

\* SSD1306: octets are eight rows of a column, in pages.
Pixels == {<<c[1] % LCDWIDTH, 8 * (c[1] \div LCDWIDTH) + c[2]>> : c \in panel}

\* The number that stands for t sixteenths of a degree: the nearest whole degree, or
\* below zero, where the 16 bits of hundredths have wrapped (655.36) and the 8 bits of
\* degrees after them (512), the nearest one to 143.36 degrees more.
DegreesDrawn(t) ==
  IF t >= 0 THEN (t + 8) \div 16 ELSE (14336 + 6 * t + Quarter(t) + 50) \div 100

\* Whenever the program waits, the panel has the title and the number of the
\* temperature read, each digit whole and nothing left of the text before: right
\* from zero up, but half a degree below it is 143, and so is a sensor that is not
\* there; while the program reads the panel is blank.
ShowsReading ==
  /\ Shown /\ board = "oled" => Pixels = Expected[DegreesDrawn(IF present THEN before ELSE Absent)]
  /\ at = "temp" => panel = {}

\* Unless the line sticks low for good, which hangs the board, each reading
\* ends, with or without a sensor.
KeepsReading == <>[]stuck \/ []<>(at = "wait")
=============================================================================
