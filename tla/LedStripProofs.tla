---------------------------- MODULE LedStripProofs ----------------------------
(***************************************************************************)
(* Proofs of ShowsFrame, StripTypeOK and Smooth, for any number of LEDs, any *)
(* clock and any interrupts.                                                 *)
(*                                                                         *)
(* ShowsFrame: while no interrupt has come within a frame, the strip is as    *)
(* far as the driver: it holds the octets sent so far where they belong.     *)
(* Between two frames the strip has latched and starts at its first LED      *)
(* again, so one frame's disturbance never reaches the next.                 *)
(*                                                                         *)
(* StripTypeOK: the strip never takes more octets of a frame than were sent,  *)
(* and hsv_to_rgb in full colour is on the wheel, all octets.                *)
(*                                                                         *)
(* Smooth: frames of ticks s and s + 2 are one of 256 places further round    *)
(* the wheel at each LED, past every wrap, so their hues are at most two      *)
(* degrees apart, and a channel rises or falls by at most 9 within a sector   *)
(* and 13 where the wheel closes.  That colors[] is the frame of the tick the *)
(* timer was set at, and no other, is the invariant Dated.                    *)
(***************************************************************************)
EXTENDS LedStrip, TLAPS

\* A frame: an octet, whatever its value, for each LED and channel.
IsFrame(f) == f = [k \in Leds |-> [c \in Channels |-> f[k][c]]]

AreFrames == IsFrame(colors) /\ IsFrame(shift) /\ IsFrame(lit)

Counters ==
  /\ stage \in {"boot", "show", "wait"}
  /\ i \in 0 .. NB_LEDS /\ octet \in Channels /\ disturbed \in BOOLEAN
  /\ i = NB_LEDS => octet = 1

Shape == AreFrames /\ Counters

\* A frame begins.
LEMMA ShowCounters ==
  ASSUME Show, NB_LEDS \in Nat, NB_LEDS >= 1
  PROVE  Counters'
<1>1. i' \in 0 .. NB_LEDS /\ octet' \in Channels /\ (i' = NB_LEDS => octet' = 1)
  BY DEF Show, Channels
<1>2. stage' \in {"boot", "show", "wait"} /\ disturbed' \in BOOLEAN
  BY DEF Show
<1> QED
  BY <1>1, <1>2, Zenon DEF Counters

Rested == led = 0 /\ place = 1

\* The octets sent have arrived where they belong.
InStep ==
  /\ led = i /\ place = octet
  /\ \A k \in Leds, c \in Channels :
       k < i \/ (k = i /\ c < octet) => shift[k][c] = colors[k][c]

Sending == stage = "show" /\ ~disturbed => InStep

Between == stage # "show" => Rested

StripInv == Shape /\ Sending /\ Between /\ ShowsFrame

LEMMA SameFrame ==
  ASSUME NEW f, NEW g, IsFrame(f), IsFrame(g),
         \A k \in Leds, c \in Channels : f[k][c] = g[k][c]
  PROVE  f = g
<1>1. [k \in Leds |-> [c \in Channels |-> f[k][c]]] = [k \in Leds |-> [c \in Channels |-> g[k][c]]]
  OBVIOUS
<1> QED
  BY <1>1 DEF IsFrame

LEMMA SomeLeds == NB_LEDS \in Nat /\ NB_LEDS >= 1
<1>1. NB_LEDS \in 1 .. MaxOctet /\ MaxOctet \in Int
  BY StripAssumption DEF MaxOctet
<1> QED BY <1>1

LEMMA DarkFrame == IsFrame(Dark)
BY DEF IsFrame, Dark

\* A frame of the colour wheel is one, whatever the arithmetic gives.
LEMMA FadedFrame == \A now : IsFrame(Faded(now))
<1> TAKE now
<1> DEFINE hsv(k) == HsvToRgb(Hue(now, k), 255, 255)
<1>1. \A r, g, b : Color(r, g, b) = [c \in Channels |-> Color(r, g, b)[c]]
  BY DEF Color
<1>2. \A h, s, v : \E r, g, b : HsvToRgb(h, s, v) = Color(r, g, b)
  <2> HIDE DEF Color
  <2> QED BY DEF HsvToRgb
<1>3. \A k : hsv(k) = [c \in Channels |-> hsv(k)[c]]
  BY <1>1, <1>2
<1> HIDE DEF hsv
<1>4. Faded(now) = [k \in Leds |-> hsv(k)]
  BY DEF Faded, hsv
<1>5. [k \in Leds |-> hsv(k)] = [k \in Leds |-> [c \in Channels |-> Faded(now)[k][c]]]
  BY <1>3, <1>4
<1> QED
  BY <1>4, <1>5 DEF IsFrame

LEMMA SetFrame ==
  ASSUME NEW f, IsFrame(f), NEW l \in Leds, NEW p \in Channels, NEW v
  PROVE  IsFrame([f EXCEPT ![l][p] = v])
<1> DEFINE g == [k \in Leds |-> [c \in Channels |-> IF k = l /\ c = p THEN v ELSE f[k][c]]]
<1>1. [f EXCEPT ![l][p] = v] = g
  BY DEF IsFrame
<1>2. IsFrame(g)
  BY DEF IsFrame
<1> QED
  BY <1>1, <1>2

\* What a rest of the line leaves.
LEMMA RestFrame ==
  ASSUME IsFrame(shift), IsFrame(lit), Rest
  PROVE  IsFrame(lit') /\ IsFrame(shift') /\ Rested'
<1>1. \A k \in Leds : lit'[k] = [c \in Channels |-> lit'[k][c]]
  BY DEF Rest, IsFrame
<1>2. lit' = [k \in Leds |-> lit'[k]]
  BY DEF Rest
<1>3. IsFrame(lit')
  BY <1>1, <1>2 DEF IsFrame
<1> QED
  BY <1>3 DEF Rest, Rested

LEMMA StripStart == StripInit => StripInv
<1> SUFFICES ASSUME StripInit PROVE StripInv
  OBVIOUS
<1>1. AreFrames
  BY DarkFrame DEF StripInit, AreFrames
<1>2. Counters
  <2>1. i \in 0 .. NB_LEDS /\ octet \in Channels /\ (i = NB_LEDS => octet = 1)
    BY SomeLeds DEF StripInit, Channels
  <2>2. stage \in {"boot", "show", "wait"} /\ disturbed \in BOOLEAN
    BY DEF StripInit
  <2> QED BY <2>1, <2>2, Zenon DEF Counters
<1>3. Sending /\ Between /\ ShowsFrame
  BY DEF StripInit, Sending, Between, Rested, ShowsFrame
<1> QED
  BY <1>1, <1>2, <1>3, Zenon DEF StripInv, Shape

LEMMA Starts == ASSUME Show, Rested, NEW f, IsFrame(f), colors' = f, UNCHANGED <<led, place>>
               PROVE  Sending' /\ Between' /\ ShowsFrame' /\ i' = 0 /\ octet' = 1 /\ disturbed' = FALSE
BY DEF Show, Rested, Sending, InStep, Between, ShowsFrame, Leds, Channels

LEMMA BootStep == StripInv /\ StripBoot => StripInv'
<1> SUFFICES ASSUME StripInv, StripBoot PROVE StripInv'
  OBVIOUS
<1>1. Rested
  BY DEF StripInv, Between, StripBoot
<1>2. Sending' /\ Between' /\ ShowsFrame' /\ i' = 0 /\ octet' = 1 /\ disturbed' = FALSE
  BY <1>1, DarkFrame, Starts DEF StripBoot
<1>3. AreFrames'
  BY DarkFrame DEF StripInv, Shape, AreFrames, StripBoot
<1>4. Counters'
  BY SomeLeds, ShowCounters DEF StripBoot
<1> QED
  BY <1>2, <1>3, <1>4, Zenon DEF StripInv, Shape

LEMMA FadeStep == StripInv /\ Fade => StripInv'
<1> SUFFICES ASSUME StripInv, Fade PROVE StripInv'
  OBVIOUS
<1>1. Rested
  BY DEF StripInv, Between, Fade
<1>2. IsFrame(colors')
  BY FadedFrame DEF Fade
<1>3. Sending' /\ Between' /\ ShowsFrame' /\ i' = 0 /\ octet' = 1 /\ disturbed' = FALSE
  BY <1>1, <1>2, Starts DEF Fade
<1>4. AreFrames'
  BY <1>2 DEF StripInv, Shape, AreFrames, Fade
<1>5. Counters'
  BY SomeLeds, ShowCounters DEF Fade
<1> QED
  BY <1>3, <1>4, <1>5, Zenon DEF StripInv, Shape

LEMMA ByteStep == StripInv /\ WriteByte => StripInv'
<1> SUFFICES ASSUME StripInv, WriteByte PROVE StripInv'
  OBVIOUS
<1> USE DEF StripInv
<1>1. NB_LEDS \in Nat /\ i \in Nat /\ i < NB_LEDS /\ octet \in 1 .. 3 /\ i \in Leds
  BY SomeLeds DEF Shape, Counters, WriteByte, Leds, Channels
<1>2. i' \in 0 .. NB_LEDS /\ octet' \in Channels /\ (i' = NB_LEDS => octet' = 1)
  BY <1>1 DEF WriteByte, Channels
<1>3. IsFrame(shift')
  <2>1. CASE led \in Leds
    <3>1. CASE place \in Channels BY <2>1, <3>1, SetFrame DEF WriteByte, Shape, AreFrames
    <3>2. CASE place \notin Channels
      <4>1. [shift EXCEPT ![led][place] = colors[i][octet]] = shift
        BY <2>1, <3>2 DEF Shape, AreFrames, IsFrame
      <4> QED BY <2>1, <4>1 DEF WriteByte, Shape, AreFrames
    <3> QED BY <3>1, <3>2
  <2>2. CASE led \notin Leds BY <2>2 DEF WriteByte, Shape, AreFrames
  <2> QED BY <2>1, <2>2
<1>4. Shape'
  <2>1. AreFrames'
    BY <1>3 DEF Shape, AreFrames, WriteByte
  <2>2. stage' \in {"boot", "show", "wait"} /\ disturbed' \in BOOLEAN
    BY DEF Shape, Counters, WriteByte
  <2> QED BY <1>2, <2>1, <2>2, Zenon DEF Shape, Counters
<1>5. Sending'
  <2> SUFFICES ASSUME ~disturbed PROVE InStep'
    BY DEF Sending, WriteByte
  <2>1. InStep
    BY DEF Sending, WriteByte
  <2>2. led' = i' /\ place' = octet'
    BY <2>1 DEF InStep, WriteByte
  <2>3. shift' = [shift EXCEPT ![i][octet] = colors[i][octet]]
    BY <1>1, <2>1 DEF InStep, WriteByte
  <2>4. ASSUME NEW k \in Leds, NEW c \in Channels, k < i' \/ (k = i' /\ c < octet')
        PROVE  shift'[k][c] = colors'[k][c]
    <3>1. shift'[k][c] = IF k = i /\ c = octet THEN colors[i][octet] ELSE shift[k][c]
      <4>1. IsFrame(shift) /\ octet \in Channels
        BY DEF Shape, AreFrames, Counters
      <4>2. ASSUME NEW v
            PROVE  [shift EXCEPT ![i][octet] = v][k][c] = IF k = i /\ c = octet THEN v ELSE shift[k][c]
        <5> HIDE DEF StripInv
        <5>1. i \in Leds /\ octet \in Channels /\ k \in Leds /\ c \in Channels /\ IsFrame(shift)
          BY <1>1, <4>1
        <5> QED BY <5>1 DEF IsFrame
      <4> QED BY <2>3, <4>2, Zenon
    <3>2. (k = i /\ c = octet) \/ k < i \/ (k = i /\ c < octet)
      <4>1. k \in Int /\ c \in 1 .. 3
        BY DEF Leds, Channels
      <4>2. CASE octet = 3 BY <1>1, <2>4, <4>1, <4>2 DEF WriteByte
      <4>3. CASE octet # 3 BY <1>1, <2>4, <4>1, <4>3 DEF WriteByte
      <4> QED BY <4>2, <4>3
    <3> QED BY <2>1, <3>1, <3>2 DEF InStep, WriteByte
  <2> QED BY <2>2, <2>4 DEF InStep
<1> QED
  BY <1>4, <1>5 DEF Between, ShowsFrame, WriteByte

LEMMA LatchStep == StripInv /\ Latch => StripInv'
<1> SUFFICES ASSUME StripInv, Latch PROVE StripInv'
  OBVIOUS
<1> USE DEF StripInv
<1>1. IsFrame(lit') /\ IsFrame(shift') /\ Rested'
  BY RestFrame DEF Latch, Shape, AreFrames
<1>2. Between'
  BY <1>1 DEF Between
<1>3. Sending'
  BY <1>1 DEF Latch, Show, Sending, InStep, Rested, Leds, Channels
<1>4. ShowsFrame'
  <2> SUFFICES ASSUME stage' = "wait", ~disturbed' PROVE lit' = colors'
    BY DEF ShowsFrame
  <2>1. ~disturbed /\ colors' = colors /\ i = NB_LEDS /\ stage = "show"
    BY DEF Latch, Show
  <2>2. InStep
    BY <2>1 DEF Sending
  <2>3. \A k \in Leds : k < led /\ k < i
    BY <2>1, <2>2, SomeLeds DEF InStep, Leds
  <2>4. \A k \in Leds : lit'[k] = shift[k]
    BY <2>3 DEF Latch, Rest
  <2>5. \A k \in Leds, c \in Channels : lit'[k][c] = colors'[k][c]
    BY <2>1, <2>2, <2>3, <2>4 DEF InStep
  <2> QED BY <1>1, <2>1, <2>5, SameFrame DEF Shape, AreFrames
<1>5. AreFrames'
  BY <1>1 DEF Shape, AreFrames, Latch
<1>6. Counters'
  <2>1. CASE shows > 1
    BY <2>1, SomeLeds, ShowCounters DEF Latch
  <2>2. CASE ~(shows > 1)
    <3>1. stage' = "wait" /\ i' = i /\ octet' = octet /\ disturbed' = disturbed
      BY <2>2 DEF Latch
    <3> QED BY <3>1, Zenon DEF Shape, Counters
  <2> QED BY <2>1, <2>2
<1> QED
  BY <1>2, <1>3, <1>4, <1>5, <1>6, Zenon DEF Shape

LEMMA OtherStep == StripInv /\ (Interrupt \/ Tick \/ UNCHANGED stripVars) => StripInv'
<1> SUFFICES ASSUME StripInv, Interrupt \/ Tick \/ UNCHANGED stripVars PROVE StripInv'
  OBVIOUS
<1>1. CASE Interrupt
  <2>1. IsFrame(lit') /\ IsFrame(shift') /\ Rested'
    BY <1>1, RestFrame DEF Interrupt, StripInv, Shape, AreFrames
  <2> QED BY <1>1, <2>1 DEF Interrupt, StripInv, Shape, AreFrames, Counters, Sending, Between, ShowsFrame, program
<1>2. CASE Tick
  BY <1>2 DEF Tick, StripInv, Shape, AreFrames, Counters, Sending, InStep, Between, Rested, ShowsFrame, program, strip
<1>3. CASE UNCHANGED stripVars
  BY <1>3 DEF stripVars, StripInv, Shape, AreFrames, Counters, Sending, InStep, Between, Rested, ShowsFrame, program, strip
<1> QED BY <1>1, <1>2, <1>3

\* After each frame no interrupt disturbed, the strip shows colors[], whatever
\* went wrong in the frames before (ws2812_show).
THEOREM FrameShown == StripSpec => []ShowsFrame
<1>1. StripInv /\ [StripNext]_stripVars => StripInv'
  BY BootStep, FadeStep, ByteStep, LatchStep, OtherStep DEF StripNext
<1>2. StripInv => ShowsFrame
  BY DEF StripInv
<1> QED
  BY StripStart, <1>1, <1>2, PTL DEF StripSpec

---------------------------------------------------------------------------
(* The colour wheel.  Ranges are written as inequalities.                  *)

LEMMA OctetRange == \A x : x \in Octets <=> x \in Int /\ 0 <= x /\ x <= 255
<1>1. MaxOctet \in Int
  BY DEF MaxOctet
<1>2. \A x : x \in Octets <=> x \in Int /\ 0 <= x /\ x <= MaxOctet
  BY <1>1 DEF Octets
<1>3. MaxOctet = 255
  BY DEF MaxOctet
<1> QED
  BY <1>2, <1>3

LEMMA WordRange == \A x : x \in Words <=> x \in Int /\ 0 <= x /\ x <= 65535
<1>1. MaxWord \in Int
  BY DEF MaxWord
<1>2. \A x : x \in Words <=> x \in Int /\ 0 <= x /\ x <= MaxWord
  BY <1>1 DEF Words
<1>3. MaxWord = 65535
  BY DEF MaxWord
<1> QED
  BY <1>2, <1>3

\* How far a channel has risen, or fallen, within a sector.
Rise(a) == (a * 255) \div 60
Rising(h) == Rise(h % 60)

\* A hue in full colour: one channel is full, one off, and one rises or falls.
Wheel(h) ==
  LET sector == h \div 60
  IN CASE sector = 0 -> Color(255, Rising(h), 0) [] sector = 1 -> Color(255 - Rising(h), 255, 0)
       [] sector = 2 -> Color(0, 255, Rising(h)) [] sector = 3 -> Color(0, 255 - Rising(h), 255)
       [] sector = 4 -> Color(Rising(h), 0, 255) [] OTHER -> Color(255, 0, 255 - Rising(h))

LEMMA RiseRange ==
  ASSUME NEW a \in Int, 0 <= a, a < 60
  PROVE  Rise(a) \in Int /\ 0 <= Rise(a) /\ Rise(a) <= 255
  BY DEF Rise

LEMMA RisingRange ==
  ASSUME NEW h \in Int, 0 <= h
  PROVE  Rising(h) \in Int /\ 0 <= Rising(h) /\ Rising(h) <= 255
<1>1. h % 60 \in Int /\ 0 <= h % 60 /\ h % 60 < 60
  OBVIOUS
<1> QED
  BY <1>1, RiseRange DEF Rising

LEMMA FullColor ==
  ASSUME NEW f \in Int, 0 <= f, f <= 255
  PROVE  /\ ((255 - 255) * 255) \div 255 = 0
         /\ ((255 - (f * 255) \div 255) * 255) \div 255 = 255 - f
         /\ ((255 - ((255 - f) * 255) \div 255) * 255) \div 255 = f
<1>1. (f * 255) \div 255 = f /\ ((255 - f) * 255) \div 255 = 255 - f
  OBVIOUS
<1> QED
  BY <1>1

LEMMA OnWheel ==
  ASSUME NEW h \in Int, 0 <= h, h < 360
  PROVE  HsvToRgb(h, 255, 255) = Wheel(h)
<1> DEFINE f == Rising(h) n == h \div 60
<1>1. f \in Int /\ 0 <= f /\ f <= 255
  BY RisingRange
<1>2. HsvToRgb(h, 255, 255) =
      CASE n % 6 = 0 -> Color(255, f, 0) [] n % 6 = 1 -> Color(255 - f, 255, 0)
       [] n % 6 = 2 -> Color(0, 255, f) [] n % 6 = 3 -> Color(0, 255 - f, 255)
       [] n % 6 = 4 -> Color(f, 0, 255) [] n % 6 = 5 -> Color(255, 0, 255 - f)
       [] OTHER -> Color(0, 0, 0)
  BY <1>1, FullColor DEF HsvToRgb, Rising, Rise
<1>3. n \in Int /\ 0 <= n /\ n < 6 /\ n % 6 = n
  OBVIOUS
<1> HIDE DEF f
<1> QED
  BY <1>2, <1>3 DEF Wheel, f

LEMMA Mixed == \A r, g, b : Color(r, g, b)[1] = b /\ Color(r, g, b)[2] = g /\ Color(r, g, b)[3] = r
  BY DEF Color, Channels

\* The next hue of the 256 that are used is at most two degrees on, or the first.
NextHue(h, n) == n - h = 1 \/ n - h = 2 \/ (h = 357 /\ n = 0)

LEMMA HueStep ==
  ASSUME NEW x \in Int, 0 <= x, x <= 255
  PROVE  LET h == (x * 359) \div 256
             n == (((x + 1) % 256) * 359) \div 256
         IN h \in Int /\ 0 <= h /\ h <= 357 /\ n \in Int /\ 0 <= n /\ n <= 357 /\ NextHue(h, n)
  BY DEF NextHue

\* Two hues of one sector, and two on either side of a sector's end.
LEMMA RisingSlowly ==
  ASSUME NEW h \in Int, NEW n \in Int, 0 <= h, h < n, n <= h + 2, h \div 60 = n \div 60
  PROVE  0 <= Rising(n) - Rising(h) /\ Rising(n) - Rising(h) <= 9
<1> DEFINE a == h % 60  b == n % 60
<1>1. a \in Int /\ 0 <= a /\ a < b /\ b <= a + 2 /\ b < 60 /\ b \in Int
  OBVIOUS
<1> HIDE DEF a, b
<1>2. 0 <= Rise(b) - Rise(a) /\ Rise(b) - Rise(a) <= 9
  BY <1>1 DEF Rise
<1> QED
  BY <1>2 DEF Rising, a, b

LEMMA Turning ==
  ASSUME NEW h \in Int, NEW n \in Int, 0 <= h, h < n, n <= h + 2, h \div 60 # n \div 60
  PROVE  n \div 60 = h \div 60 + 1 /\ Rising(n) <= 4 /\ 246 <= Rising(h)
<1> DEFINE a == h % 60  b == n % 60
<1>1. a \in Int /\ 58 <= a /\ a < 60 /\ 0 <= b /\ b < 2 /\ b \in Int /\ n \div 60 = h \div 60 + 1
  OBVIOUS
<1> HIDE DEF a, b
<1>2. Rise(b) <= 4 /\ 246 <= Rise(a)
  BY <1>1 DEF Rise
<1> QED
  BY <1>1, <1>2 DEF Rising, a, b

LEMMA WheelSteps ==
  ASSUME NEW h \in Int, NEW n \in Int, 0 <= h, h <= 357, 0 <= n, n <= 357, NextHue(h, n),
         NEW c \in Channels
  PROVE  ~Far(Wheel(n)[c], Wheel(h)[c])
<1> DEFINE r == Rising(h)  s == Rising(n)  p == h \div 60  q == n \div 60
<1>1. r \in Int /\ 0 <= r /\ r <= 255 /\ s \in Int /\ 0 <= s /\ s <= 255
  BY RisingRange
<1>2. p \in Int /\ 0 <= p /\ p < 6 /\ q \in Int /\ 0 <= q /\ q < 6
  OBVIOUS
<1>3. Wheel(h) = CASE p = 0 -> Color(255, r, 0) [] p = 1 -> Color(255 - r, 255, 0)
       [] p = 2 -> Color(0, 255, r) [] p = 3 -> Color(0, 255 - r, 255)
       [] p = 4 -> Color(r, 0, 255) [] OTHER -> Color(255, 0, 255 - r)
  BY DEF Wheel
<1>4. Wheel(n) = CASE q = 0 -> Color(255, s, 0) [] q = 1 -> Color(255 - s, 255, 0)
       [] q = 2 -> Color(0, 255, s) [] q = 3 -> Color(0, 255 - s, 255)
       [] q = 4 -> Color(s, 0, 255) [] OTHER -> Color(255, 0, 255 - s)
  BY DEF Wheel
<1>5. \/ p = q /\ 0 <= s - r /\ s - r <= 9
      \/ q = p + 1 /\ s <= 4 /\ 246 <= r
      \/ p = 5 /\ q = 0 /\ r = 242 /\ s = 0
  <2>1. CASE h = 357 /\ n = 0
    BY <2>1 DEF Rising, Rise
  <2>2. CASE h < n /\ n <= h + 2 /\ p = q
    BY <2>2, RisingSlowly
  <2>3. CASE h < n /\ n <= h + 2 /\ p # q
    BY <2>3, Turning
  <2> QED
    BY <2>1, <2>2, <2>3 DEF NextHue
<1> HIDE DEF p, q, r, s
<1>6. c = 1 \/ c = 2 \/ c = 3
  BY DEF Channels
<1>7. /\ ~Far(0, 0) /\ ~Far(255, 255)
      /\ 0 <= s - r /\ s - r <= 9 => ~Far(s, r) /\ ~Far(255 - s, 255 - r)
      /\ s <= 4 => ~Far(255 - s, 255) /\ ~Far(s, 0)
      /\ 246 <= r => ~Far(255, r) /\ ~Far(0, 255 - r)
      /\ r = 242 => ~Far(0, 255 - r)
  BY <1>1 DEF Far
<1>8. CASE p = q /\ 0 <= s - r /\ s - r <= 9
  BY <1>3, <1>4, <1>6, <1>7, <1>8, Mixed
<1>9. CASE q = p + 1 /\ s <= 4 /\ 246 <= r
  BY <1>2, <1>3, <1>4, <1>6, <1>7, <1>9, Mixed
<1>10. CASE p = 5 /\ q = 0 /\ r = 242 /\ s = 0
  BY <1>3, <1>4, <1>6, <1>7, <1>10, Mixed
<1> QED
  BY <1>5, <1>8, <1>9, <1>10

---------------------------------------------------------------------------
(* Types.                                                                  *)

Counted == clock \in Words /\ ticks \in Nat /\ elapsed \in Nat

Placed ==
  /\ stage \in {"boot", "show", "wait"} /\ shows \in 0 .. 2
  /\ i \in 0 .. NB_LEDS /\ octet \in Channels
  /\ led \in 0 .. NB_LEDS /\ place \in Channels
  /\ rests \in Nat /\ disturbed \in BOOLEAN

Painted == colors \in Frames /\ shift \in Frames /\ lit \in Frames

\* The strip has had no more octets of a frame than the driver has sent, and is at
\* its first LED between frames.
Behind ==
  /\ stage = "show" => shows >= 1 /\ 3 * led + place <= 3 * i + octet
  /\ stage # "show" => Rested
  /\ i = NB_LEDS => octet = 1

LEMMA WheelColors ==
  ASSUME NEW h \in Int, 0 <= h, h < 360
  PROVE  HsvToRgb(h, 255, 255) \in [Channels -> Octets]
<1>1. \A r, g, b \in Octets : Color(r, g, b) \in [Channels -> Octets]
  BY DEF Color
<1> DEFINE f == Rising(h)  e == 255 - Rising(h)
<1>2. f \in Int /\ 0 <= f /\ f <= 255
  BY RisingRange
<1>3. f \in Octets /\ e \in Octets /\ 0 \in Octets /\ 255 \in Octets
  BY <1>2, OctetRange
<1>4. Wheel(h) \in {Color(255, f, 0), Color(e, 255, 0), Color(0, 255, f), Color(0, e, 255),
                    Color(f, 0, 255), Color(255, 0, e)}
  BY DEF Wheel
<1>5. \A o, m, u, d \in Octets :
        {Color(m, u, o), Color(d, m, o), Color(o, m, u), Color(o, d, m), Color(u, o, m),
         Color(m, o, d)} \subseteq [Channels -> Octets]
  BY <1>1
<1> HIDE DEF f, e
<1>6. {Color(255, f, 0), Color(e, 255, 0), Color(0, 255, f), Color(0, e, 255),
       Color(f, 0, 255), Color(255, 0, e)} \subseteq [Channels -> Octets]
  BY <1>3, <1>5
<1>7. Wheel(h) \in [Channels -> Octets]
  BY <1>4, <1>6
<1> QED
  BY <1>7, OnWheel

LEMMA HueRange ==
  ASSUME NEW now \in Int, NEW k \in Leds
  PROVE  Hue(now, k) \in Int /\ 0 <= Hue(now, k) /\ Hue(now, k) <= 357
<1> DEFINE x == (((2 * now) % 65536) \div 4 - 8 * k) % 256
<1>1. k \in Int
  BY DEF Leds
<1>2. x \in Int /\ 0 <= x /\ x <= 255
  BY <1>1
<1>3. Hue(now, k) = (x * 359) \div 256
  BY DEF Hue
<1> HIDE DEF x
<1> QED
  BY <1>2, <1>3

LEMMA FadedType ==
  ASSUME NEW now \in Int
  PROVE  Faded(now) \in Frames
<1>1. ASSUME NEW k \in Leds PROVE HsvToRgb(Hue(now, k), 255, 255) \in [Channels -> Octets]
  BY HueRange, WheelColors
<1> QED
  BY <1>1, Zenon DEF Faded, Frames

LEMMA DarkType == Dark \in Frames
<1>1. 0 \in Octets
  BY OctetRange
<1> QED
  BY <1>1 DEF Dark, Frames

StripType == Counted /\ Placed /\ Painted /\ Behind

LEMMA TypeStart == StripInit => StripType
<1> SUFFICES ASSUME StripInit PROVE StripType
  OBVIOUS
<1>1. Counted
  <2>1. StartClocks \subseteq Words
    BY StripAssumption
  <2> QED
    BY <2>1, Zenon DEF StripInit, Counted
<1>2. Placed
  <2>1. /\ shows \in 0 .. 2 /\ i \in 0 .. NB_LEDS /\ led \in 0 .. NB_LEDS
        /\ octet \in Channels /\ place \in Channels /\ rests \in Nat
    BY SomeLeds DEF StripInit, Channels
  <2>2. stage \in {"boot", "show", "wait"} /\ disturbed \in BOOLEAN
    BY DEF StripInit
  <2> QED
    BY <2>1, <2>2, Zenon DEF Placed
<1>3. Painted
  BY DarkType, Zenon DEF StripInit, Painted
<1>4. Behind
  BY SomeLeds DEF StripInit, Behind, Rested
<1> QED
  BY <1>1, <1>2, <1>3, <1>4, Zenon DEF StripType

\* What a frame's start and a rest of the line leave of the types.
LEMMA ShowType ==
  ASSUME StripType, Show, Rested', shows' \in 1 .. 2, UNCHANGED rests
  PROVE  Placed' /\ Behind'
<1>1. i' = 0 /\ octet' = 1 /\ led' = 0 /\ place' = 1 /\ stage' = "show" /\ disturbed' = FALSE
  BY DEF Show, Rested
<1>2. rests' \in Nat
  BY DEF StripType, Placed
<1>3. shows' \in 0 .. 2 /\ shows' >= 1
  OBVIOUS
<1>4. i' \in 0 .. NB_LEDS /\ led' \in 0 .. NB_LEDS /\ octet' \in Channels /\ place' \in Channels
  BY <1>1, SomeLeds DEF Channels
<1>5. Placed'
  BY <1>1, <1>2, <1>3, <1>4 DEF Placed
<1>6. Behind'
  BY <1>1, <1>3, SomeLeds DEF Behind
<1> QED
  BY <1>5, <1>6

LEMMA RestType ==
  ASSUME StripType, Rest
  PROVE  lit' \in Frames /\ shift' \in Frames /\ Rested'
<1>1. \A k \in Leds : shift[k] \in [Channels -> Octets] /\ lit[k] \in [Channels -> Octets]
  BY DEF StripType, Painted, Frames
<1>2. lit' \in Frames
  BY <1>1, Zenon DEF Rest, Frames
<1> QED
  BY <1>2 DEF Rest, Rested, StripType, Painted

LEMMA ByteType == StripType /\ WriteByte => StripType'
<1> SUFFICES ASSUME StripType, WriteByte PROVE StripType'
  OBVIOUS
<1>1. /\ NB_LEDS \in Nat /\ i \in 0 .. NB_LEDS /\ i < NB_LEDS /\ octet \in 1 .. 3
      /\ led \in 0 .. NB_LEDS /\ place \in 1 .. 3 /\ 3 * led + place <= 3 * i + octet
      /\ shows \in 1 .. 2 /\ stage = "show"
  BY SomeLeds DEF StripType, Placed, Behind, WriteByte, Channels
<1>2. Counted'
  BY DEF StripType, Counted, WriteByte, time
<1>3. /\ i' \in 0 .. NB_LEDS /\ octet' \in 1 .. 3 /\ led' \in 0 .. NB_LEDS /\ place' \in 1 .. 3
      /\ 3 * led' + place' <= 3 * i' + octet' /\ (i' = NB_LEDS => octet' = 1)
  BY <1>1 DEF WriteByte
<1>4. Placed' /\ Behind'
  BY <1>1, <1>3 DEF StripType, Placed, Behind, WriteByte, Channels
<1>5. shift' \in Frames
  <2>1. colors[i][octet] \in Octets
    <3>1. i \in Leds /\ octet \in Channels
      BY <1>1 DEF Leds, Channels
    <3> QED
      BY <3>1 DEF StripType, Painted, Frames
  <2>2. shift \in Frames /\ place \in Channels
    BY DEF StripType, Painted, Placed
  <2>3. CASE led \in Leds
    BY <2>1, <2>2, <2>3 DEF WriteByte, Frames
  <2>4. CASE led \notin Leds
    BY <2>2, <2>4 DEF WriteByte
  <2> QED
    BY <2>3, <2>4
<1> QED
  BY <1>2, <1>4, <1>5 DEF StripType, Painted, WriteByte

LEMMA TypeStep == StripType /\ [StripNext]_stripVars => StripType'
<1> SUFFICES ASSUME StripType, [StripNext]_stripVars PROVE StripType'
  OBVIOUS
<1>0. clock \in Words /\ shows \in 0 .. 2
  BY DEF StripType, Counted, Placed
<1>1. CASE StripBoot
  <2>1. Counted' /\ Painted'
    BY <1>1, DarkType DEF StripBoot, StripType, Counted, Painted, time
  <2>2. Rested' /\ shows' \in 1 .. 2
    BY <1>1 DEF StripBoot, StripType, Behind, Rested
  <2> QED
    BY <1>1, <2>1, <2>2, ShowType DEF StripBoot, StripType
<1>2. CASE WriteByte
  BY <1>2, ByteType
<1>3. CASE Latch
  <2>1. lit' \in Frames /\ shift' \in Frames /\ Rested'
    BY <1>3, RestType DEF Latch
  <2>2. Counted' /\ Painted'
    BY <1>3, <2>1 DEF Latch, StripType, Counted, Painted
  <2>3. shows \in 1 .. 2
    BY <1>0, <1>3 DEF Latch, StripType, Behind
  <2>4. CASE shows > 1
    <3>1. Show /\ shows' \in 1 .. 2 /\ UNCHANGED rests
      BY <1>3, <2>3, <2>4 DEF Latch
    <3>2. Placed' /\ Behind'
      BY <2>1, <3>1, ShowType
    <3> QED
      BY <2>2, <3>2 DEF StripType
  <2>5. CASE ~(shows > 1)
    BY <1>3, <2>1, <2>2, <2>3, <2>5, SomeLeds
    DEF Latch, StripType, Placed, Behind, Rested, Channels
  <2> QED
    BY <2>4, <2>5
<1>4. CASE Fade
  <2>1. Counted'
    BY <1>4 DEF Fade, StripType, Counted, time
  <2>2. Faded(clock) \in Frames
    BY <1>0, WordRange, FadedType
  <2>3. Painted'
    BY <1>4, <2>2 DEF Fade, StripType, Painted
  <2>4. Rested' /\ shows' \in 1 .. 2
    BY <1>4 DEF Fade, StripType, Behind, Rested
  <2> QED
    BY <1>4, <2>1, <2>3, <2>4, ShowType DEF Fade, StripType
<1>5. CASE Interrupt
  <2>1. lit' \in Frames /\ shift' \in Frames /\ Rested'
    BY <1>5, RestType DEF Interrupt
  <2>2. Counted' /\ Painted'
    BY <1>5, <2>1 DEF Interrupt, StripType, Counted, Painted, program, time
  <2>3. i \in 0 .. NB_LEDS /\ octet \in 1 .. 3 /\ led' = 0 /\ place' = 1
    BY <2>1 DEF StripType, Placed, Rested, Channels
  <2>4. 3 * led' + place' <= 3 * i + octet
    BY <2>3
  <2>5. led' \in 0 .. NB_LEDS /\ place' \in Channels /\ rests' \in Nat
    BY <1>5, <2>3, SomeLeds DEF Interrupt, StripType, Placed, Channels
  <2>6. Placed' /\ Behind'
    BY <1>5, <2>4, <2>5 DEF Interrupt, StripType, Placed, Behind, program
  <2> QED
    BY <2>2, <2>6 DEF StripType
<1>6. CASE Tick
  <2>1. clock' \in Words
    BY <1>0, <1>6, WordRange DEF Tick
  <2>2. Counted'
    BY <1>6, <2>1 DEF Tick, StripType, Counted
  <2> QED
    BY <1>6, <2>2 DEF Tick, StripType, Placed, Painted, Behind, Rested, program, strip
<1>7. CASE UNCHANGED stripVars
  BY <1>7 DEF stripVars, StripType, Counted, Placed, Painted, Behind, Rested, program, strip, time
<1> QED
  BY <1>1, <1>2, <1>3, <1>4, <1>5, <1>6, <1>7 DEF StripNext

\* The counters and colours of the thread, the driver and the strip stay in their
\* ranges, for any number of LEDs: every octet the strip takes is one that was sent.
THEOREM StripTypeCorrect == StripSpec => []StripTypeOK
<1>1. StripType => StripTypeOK
  BY DEF StripType, Counted, Placed, Painted, StripTypeOK
<1> QED
  BY TypeStart, TypeStep, <1>1, PTL DEF StripSpec

---------------------------------------------------------------------------
(* No flash.                                                               *)

\* Two ticks later a LED is one step further round the wheel of 256.
LEMMA NextPlace ==
  ASSUME NEW s \in Int, NEW k \in Int
  PROVE  (((2 * ((s + 2) % 65536)) % 65536) \div 4 - 8 * k) % 256
           = (((((2 * s) % 65536) \div 4 - 8 * k) % 256) + 1) % 256
<1> DEFINE a == ((2 * s) % 65536) \div 4
           b == ((2 * ((s + 2) % 65536)) % 65536) \div 4
<1>1. a \in Int /\ b \in Int /\ (b = a + 1 \/ (a = 16383 /\ b = 0))
  OBVIOUS
<1> HIDE DEF a, b
<1>2. (b - 8 * k) % 256 = (((a - 8 * k) % 256) + 1) % 256
  BY <1>1
<1> QED
  BY <1>2 DEF a, b

LEMMA FadedSmooth ==
  ASSUME NEW s \in Int, NEW k \in Leds, NEW c \in Channels
  PROVE  ~Far(Faded((s + 2) % 65536)[k][c], Faded(s)[k][c])
<1> DEFINE x == (((2 * s) % 65536) \div 4 - 8 * k) % 256
           y == (((2 * ((s + 2) % 65536)) % 65536) \div 4 - 8 * k) % 256
           h == Hue(s, k)
           n == Hue((s + 2) % 65536, k)
<1>1. k \in Int
  BY DEF Leds
<1>2. x \in Int /\ 0 <= x /\ x <= 255
  BY <1>1
<1>3. y = (x + 1) % 256
  BY <1>1, NextPlace
<1>4. h = (x * 359) \div 256 /\ n = (y * 359) \div 256
  BY DEF Hue
<1>5. /\ Faded(s)[k] = HsvToRgb(h, 255, 255)
      /\ Faded((s + 2) % 65536)[k] = HsvToRgb(n, 255, 255)
  BY DEF Faded
<1> HIDE DEF x, y, h, n
<1>6. h \in Int /\ 0 <= h /\ h <= 357 /\ n \in Int /\ 0 <= n /\ n <= 357 /\ NextHue(h, n)
  BY <1>2, <1>3, <1>4, HueStep
<1>7. Faded(s)[k] = Wheel(h) /\ Faded((s + 2) % 65536)[k] = Wheel(n)
  BY <1>5, <1>6, OnWheel
<1> QED
  BY <1>6, <1>7, WheelSteps

\* The frame in colors[] is of the tick it was computed at: now, while it goes out,
\* and as long ago as fade_timer has run, once the thread waits.
Dated ==
  /\ stage = "boot" => colors = Dark
  /\ stage = "show" => colors = Dark \/ colors = Faded(clock)
  /\ stage = "wait" =>
       colors = Dark \/ \E s \in Words : colors = Faded(s) /\ clock = (s + elapsed) % 65536

LEMMA DatedStep == StripType /\ Dated /\ [StripNext]_stripVars => Dated'
<1> SUFFICES ASSUME StripType, Dated, [StripNext]_stripVars PROVE Dated'
  OBVIOUS
<1>0. clock \in Words /\ elapsed \in Nat
  BY DEF StripType, Counted
<1>1. CASE StripBoot
  BY <1>1 DEF StripBoot, Show, Dated
<1>2. CASE WriteByte \/ Interrupt
  BY <1>2 DEF WriteByte, Interrupt, Dated, program, time
<1>3. CASE Latch
  <2>1. clock = (clock + 0) % 65536
    BY <1>0, WordRange
  <2>2. colors' = colors /\ clock' = clock /\ elapsed' = 0 /\ stage = "show" /\ stage' \in {"show", "wait"}
    BY <1>3 DEF Latch, Show
  <2>3. colors' = Dark \/ colors' = Faded(clock)
    BY <2>2 DEF Dated
  <2> QED
    BY <1>0, <2>1, <2>2, <2>3 DEF Dated
<1>4. CASE Fade
  BY <1>4 DEF Fade, Show, Dated, time
<1>5. CASE Tick
  <2>1. ASSUME NEW s \in Words, colors = Faded(s), clock = (s + elapsed) % 65536
        PROVE  clock' = (s + elapsed') % 65536
    <3>1. \A n \in Nat : ((n % 65536) + 1) % 65536 = (n + 1) % 65536
      OBVIOUS
    <3>2. (s + elapsed) + 1 = s + (elapsed + 1) /\ s + elapsed \in Nat
      BY <1>0, WordRange
    <3> QED
      BY <1>5, <2>1, <3>1, <3>2 DEF Tick
  <2> QED
    BY <1>5, <2>1 DEF Tick, Dated, program
<1>6. CASE UNCHANGED stripVars
  BY <1>6 DEF stripVars, Dated, program, time
<1> QED
  BY <1>1, <1>2, <1>3, <1>4, <1>5, <1>6 DEF StripNext

\* No flash: frames FADE_INTERVAL apart differ by at most 13 of 255 in every
\* channel, at every LED, over every wrap (fade_callback and hsv_to_rgb).
THEOREM NoFlash == StripSpec => Smooth
<1>1. StripInit => Dated
  BY DEF StripInit, Dated
<1>2. StripType /\ Dated =>
      [Fade /\ elapsed = FADE_INTERVAL /\ colors # Dark =>
         \A k \in Leds, c \in Channels : ~Far(colors'[k][c], colors[k][c])]_stripVars
  <2> SUFFICES ASSUME StripType, Dated, Fade, elapsed = FADE_INTERVAL, colors # Dark,
                      NEW k \in Leds, NEW c \in Channels
               PROVE  ~Far(colors'[k][c], colors[k][c])
    OBVIOUS
  <2>1. PICK s \in Words : colors = Faded(s) /\ clock = (s + 2) % 65536
    BY DEF Dated, Fade, FADE_INTERVAL
  <2>2. colors' = Faded((s + 2) % 65536)
    BY <2>1 DEF Fade
  <2>3. s \in Int
    BY WordRange
  <2> QED
    BY <2>1, <2>2, <2>3, FadedSmooth
<1> QED
  BY TypeStart, TypeStep, DatedStep, <1>1, <1>2, PTL DEF StripSpec, Smooth
=============================================================================
