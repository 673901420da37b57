------------------------------- MODULE LedStrip -------------------------------
(***************************************************************************)
(* The LED strip: the colour wheel of led_strip/led_strip.c and the driver   *)
(* that shifts the colours out (led_strip/ws2812.c), with the strip itself,  *)
(* which is external: each LED keeps the first three octets it gets and      *)
(* passes the rest on, until the line rests and all show what they have.     *)
(* write_byte disables interrupts for one octet only, so the line may rest   *)
(* between two octets as well as at the end.                                 *)
(***************************************************************************)
EXTENDS Widths

CONSTANTS
  NB_LEDS,
  StartClocks,    \* clock_time() when the board starts
  MaxTicks,       \* bound: ticks of a behaviour
  MaxLate,        \* bound: ticks from one frame to the next
  MaxRests        \* bound: interrupts that let the line rest too long

ASSUME StripAssumption ==
  /\ NB_LEDS \in 1 .. MaxOctet /\ StartClocks \subseteq Words
  /\ MaxTicks \in Nat /\ MaxLate \in Nat \ {0, 1} /\ MaxRests \in Nat

FADE_INTERVAL == 2    \* CLOCK_SECOND / 60, of 128 ticks

VARIABLES
  clock,      \* clock_time()
  ticks,      \* ticks so far
  elapsed,    \* since fade_timer was set
  stage,      \* where the thread is
  shows,      \* calls of ws2812_show left before the thread waits
  colors,     \* colors[], each as <<b, g, r>>
  i, octet,   \* the LED and the octet write_byte is called for next
  led, place, \* where the strip puts the next octet it gets
  shift,      \* what the LEDs have got
  lit,        \* what they show
  rests,      \* rests of the line so far
  disturbed   \* the line rested within this frame

program == <<stage, shows, colors, i, octet>>
strip == <<led, place, shift, lit, rests, disturbed>>
time == <<clock, ticks, elapsed>>
stripVars == <<program, strip, time>>

Leds == 0 .. NB_LEDS - 1
Channels == 1 .. 3
Dark == [k \in Leds |-> [c \in Channels |-> 0]]

StripInit ==
  /\ clock \in StartClocks /\ ticks = 0 /\ elapsed = 0
  /\ stage = "boot" /\ shows = 0 /\ colors = Dark /\ i = 0 /\ octet = 1
  /\ led = 0 /\ place = 1 /\ shift = Dark /\ lit = Dark
  /\ rests = 0 /\ disturbed = FALSE

---------------------------------------------------------------------------
(* The colour wheel.                                                       *)

Color(r, g, b) == [c \in Channels |-> CASE c = 1 -> b [] c = 2 -> g [] OTHER -> r]

\* Mutant of HsvToRgb: the last sector's channels are swapped.
HsvSwapped(h, s, v) ==
  LET f == ((h % 60) * 255) \div 60
      p == ((255 - s) * v) \div 255
      q == ((255 - (f * s) \div 255) * v) \div 255
      t == ((255 - ((255 - f) * s) \div 255) * v) \div 255
      sector == (h \div 60) % 6
  IN CASE sector = 0 -> Color(v, t, p) [] sector = 1 -> Color(q, v, p)
       [] sector = 2 -> Color(p, v, t) [] sector = 3 -> Color(p, q, v)
       [] sector = 4 -> Color(t, p, v) [] sector = 5 -> Color(v, q, p)
       [] OTHER -> Color(0, 0, 0)

HsvToRgb(h, s, v) ==
  LET f == ((h % 60) * 255) \div 60
      p == ((255 - s) * v) \div 255
      q == ((255 - (f * s) \div 255) * v) \div 255
      t == ((255 - ((255 - f) * s) \div 255) * v) \div 255
      sector == (h \div 60) % 6
  IN CASE sector = 0 -> Color(v, t, p) [] sector = 1 -> Color(q, v, p)
       [] sector = 2 -> Color(p, v, t) [] sector = 3 -> Color(p, q, v)
       [] sector = 4 -> Color(t, p, v) [] sector = 5 -> Color(v, p, q)
       [] OTHER -> Color(0, 0, 0)

\* uint16_t time and uint8_t x of fade_callback.
Hue(now, k) ==
  LET t == (2 * now) % 65536
      x == (t \div 4 - 8 * k) % 256
  IN (x * 359) \div 256

Faded(now) == [k \in Leds |-> HsvToRgb(Hue(now, k), 255, 255)]

---------------------------------------------------------------------------
(* The thread and the driver.                                              *)

Show == stage' = "show" /\ i' = 0 /\ octet' = 1 /\ disturbed' = FALSE

\* ws2812_init, and ws2812_reset, which shows as well as the thread after it.
StripBoot ==
  /\ stage = "boot"
  /\ Show /\ shows' = 2 /\ colors' = Dark
  /\ UNCHANGED <<led, place, shift, lit, rests, time>>

WriteByte ==
  /\ stage = "show" /\ i < NB_LEDS
  /\ shift' = IF led \in Leds THEN [shift EXCEPT ![led][place] = colors[i][octet]] ELSE shift
  /\ octet' = IF octet = 3 THEN 1 ELSE octet + 1
  /\ i' = IF octet = 3 THEN i + 1 ELSE i
  /\ place' = IF place = 3 THEN 1 ELSE place + 1
  /\ led' = IF place = 3 THEN led + 1 ELSE led
  /\ UNCHANGED <<stage, shows, colors, lit, rests, disturbed, time>>

\* The line rests: a LED that has its three octets shows them.
Rest ==
  /\ lit' = [k \in Leds |-> IF k < led THEN shift[k] ELSE lit[k]]
  /\ led' = 0 /\ place' = 1 /\ UNCHANGED shift

\* Mutant of Latch: no rest at the end of a frame.
LatchNone ==
  /\ stage = "show" /\ i = NB_LEDS
  /\ IF shows > 1 THEN Show ELSE stage' = "wait" /\ UNCHANGED <<i, octet, disturbed>>
  /\ shows' = shows - 1 /\ elapsed' = 0
  /\ UNCHANGED <<colors, led, place, shift, lit, rests, clock, ticks>>

\* ws2812_latch; after the last show the thread sets its timer and waits.
Latch ==
  /\ stage = "show" /\ i = NB_LEDS
  /\ Rest
  /\ IF shows > 1 THEN Show ELSE stage' = "wait" /\ UNCHANGED <<i, octet, disturbed>>
  /\ shows' = shows - 1 /\ elapsed' = 0
  /\ UNCHANGED <<colors, rests, clock, ticks>>

\* The timer's event: fade_callback.
Fade ==
  /\ stage = "wait" /\ elapsed >= FADE_INTERVAL
  /\ colors' = Faded(clock)
  /\ Show /\ shows' = 1
  /\ UNCHANGED <<led, place, shift, lit, rests, time>>

\* An interrupt between two octets that lasts as long as a latch.
Interrupt ==
  /\ stage = "show" /\ i < NB_LEDS /\ rests < MaxRests
  /\ Rest /\ rests' = rests + 1 /\ disturbed' = TRUE
  /\ UNCHANGED <<program, time>>

\* Ticks are counted while the thread waits: a frame takes less than one.
Tick ==
  /\ stage = "wait" /\ ticks < MaxTicks /\ elapsed < MaxLate
  /\ clock' = (clock + 1) % 65536 /\ ticks' = ticks + 1 /\ elapsed' = elapsed + 1
  /\ UNCHANGED <<program, strip>>

StripNext == StripBoot \/ WriteByte \/ Latch \/ Fade \/ Interrupt \/ Tick

StripSpec == StripInit /\ [][StripNext]_stripVars

---------------------------------------------------------------------------
(* Properties.                                                             *)

Frames == [Leds -> [Channels -> Octets]]

StripTypeOK ==
  /\ clock \in Words /\ ticks \in Nat /\ elapsed \in Nat
  /\ stage \in {"boot", "show", "wait"} /\ shows \in 0 .. 2
  /\ colors \in Frames /\ shift \in Frames /\ lit \in Frames
  /\ i \in 0 .. NB_LEDS /\ octet \in Channels
  /\ led \in 0 .. NB_LEDS /\ place \in Channels
  /\ rests \in Nat /\ disturbed \in BOOLEAN

\* Once a frame is out whose octets no interrupt held up, the strip shows it,
\* whatever earlier interrupts had made of it: an early latch shifts colours
\* across LEDs and channels, and the next frame heals that.
ShowsFrame == stage = "wait" /\ ~disturbed => lit = colors

Far(a, b) == a - b > 13 \/ b - a > 13

\* Two frames as close as the timer allows differ little, in every LED and
\* channel: neither the end of the colour wheel, nor the 8 bit x, nor the clock,
\* which wraps once doubled to 16 bits, makes the strip flash.
Smooth ==
  [][Fade /\ elapsed = FADE_INTERVAL /\ colors # Dark =>
       \A k \in Leds, c \in Channels : ~Far(colors'[k][c], colors[k][c])]_stripVars
=============================================================================
