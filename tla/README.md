# TLA+ models of the Calaos wireless sensor network

The repository holds Contiki applications for CC2530 radio nodes: a temperature
sensor that speaks MQTT-SN, a border router between the radio and a serial line,
and a few displays and tests. This directory models the parts with behaviour of
their own, checks them with TLC and proves the main results with TLAPS.

## The system

| Part | Source (under `src/examples/`) | State | Operations |
|---|---|---|---|
| MQTT-SN service | `sensor/mqtt-service.c`, `.h` | handler record `mqtt`: connection state, `keepalive_error`, `pending_msg`, `topics[]`/`nb_topics`, datagram buffer and `len` | `mqtt_connect`, `mqtt_subscribe`, `mqtt_msg_publish`, `handle_mqtt_input` (CONNACK, PINGREQ, PINGRESP, SUBACK, PUBLISH), `periodic_timer_cb` |
| Border router | `border_router/border-router.c` | `prefix_set`, `server_conn`, position of the thread | prefix request loop, `set_prefix_64`, UDP echo `tcpip_handler` |
| SLIP bridge | `border_router/slip-bridge.c` | `last_sender`; shares `uip_buf` and, through `set_prefix_64`, `prefix_set` | `slip_input_callback`, fallback `output` |
| Router's MQTT service and client | `border_router/mqtt-service.c`, `mqtt-client.c` | as the sensor's service, without a name, a topic and publications of its own | `mqtt_connect`, `mqtt_subscribe`, `handle_mqtt_input`, `periodic_timer_cb` |
| 1-wire driver | `*/one_wire.c` | the line, the sensor's scratchpad | `onewire_reset`, `onewire_id_read`, `onewire_temp_read`, `onewire_init` |
| OLED | `oled/oled-temp.c`, `draw.c` | frame buffer, timer | `timer_callback`, text drawing, SPI |
| Encoders | `sensor/mqtt-msg.c` | the caller's 64 octet buffer | one function per MQTT-SN message; not in the Makefile |
| Legacy example | `border_router/example.c` | thread position, three timers, what is connected | `neighbor_detection`, event dispatch; not in the Makefile |
| LED strip | `led_strip/led_strip.c`, `ws2812.c` | `colors[]`, `fade_timer` | `fade_callback`, `hsv_to_rgb`, `ws2812_show` |
| `sensor.c`, `ping6.c`, button test | `sensor/`, `button_test/` | none, or one counter | |

Processes are Contiki protothreads: a handler runs to its next wait without being
preempted, so the hard behaviour is not in shared memory but in the order of
events. The service is driven by two independent sources, datagrams (lost,
delayed, repeated, reordered by UDP) and one periodic timer; it calls its client
synchronously, which may call back. The broker and the node can each restart and
forget while the other does not. The border router's thread, the SLIP callback
and the fallback interface are three entry points over the same buffer and flag.
The 1-wire sensor converts in its own time while the program goes on; the LED
strip takes a long rest of its line for the end of a frame, and an interrupt can
make one; the legacy client serves two timers, two buttons and datagrams in one
chain of else-ifs; the encoders write over what the last message left.

What makes each part correct: the topic table agrees with the broker and never
holds a topic twice; the keepalive counter drops dead sessions and only those;
the node always comes back; the client sees a consistent session; the router gets
its prefix over a lossy line, answers whoever sends, and does not bounce packets;
a reading is of a known conversion and is shown as what it is; the strip shows
the last frame; no timer or button is lost for good; a message reads back.
`PROJECT.json` lists the hazards at their lines with the properties that cover them.

## Modules

| Module | Content |
|---|---|
| `Session` | what the service promises its client: a session that is up or down, missed periods, one event per step |
| `MqttService` | the whole of `sensor/mqtt-service.c` in an arbitrary environment; implements `Session` |
| `SensorNetwork` | `MqttService` with a network, a broker, resets, and fairness |
| `KeepaliveMonitor` | `SensorNetwork` with a history of faults per keepalive period |
| `RouterService` | the whole of `border_router/mqtt-service.c`, a second implementation of `Session` |
| `BorderRouter` | `border-router.c` and `slip-bridge.c` with host, radio and RPL around them |
| `Thermometer`, `Draw` | the three `one_wire.c`, the sensor node's publication and the OLED board's display, with the DS18B20 and its line; text drawing as functions on the frame buffer |
| `LedStrip` | `led_strip.c` and `ws2812.c` with the LEDs |
| `LegacyClient` | both processes of `example.c` with Contiki's event queue |
| `MqttMsg` | the encoders of `sensor/mqtt-msg.c`, and a reader of their messages |
| `Widths` | the values of `uint8_t` and `uint16_t` |
| `Boards` | the programs that do not talk to each other, side by side |
| `MqttServiceProofs`, `RouterServiceProofs`, `BorderRouterProofs`, `ThermometerProofs`, `LedStripProofs`, `MqttMsgProofs` | theorems about the module of that name |
| `SensorNetworkProofs` | theorems about `SensorNetwork` and `KeepaliveMonitor` |
| `BoardsProofs` | theorems about `LegacyClient` and `Boards` |
| `MC*` | constants for TLC |

**MqttService.** `mqtt` is the handler record with the fields the code branches
on or sends. `running` is `process_is_running`. `sent` and `posted` are what the
last handler call gave to `uip_udp_packet_send` and posted to the client. There
is one action per way through a handler: `HandleConnackAccepted` for instance
posts CONNECTED, lets the client subscribe from the event, and then subscribes
to the node's own topic, as lines 200-217 do in one call. Ids of two octets are
pairs of octets, so that the truncation to `uint8_t` and the sign extension of
`char` are what they are in C; whether `char` is signed is a constant, as the
repository does not say and SDCC has had both. An access past `topics[]` sets `overrun`, and the
model stops there, as the program's behaviour is not defined beyond it. Left out:
formatting and printing, the LEDs, the value of a temperature (its text length is
an input), real time.

**SensorNetwork.** `toBroker` and `toNode` are sets, so datagrams overtake one
another; every send may lose any part of what it sends; with `Duplicates` a
delivered datagram may stay. The broker is not in the repository and does what
the node's handlers expect: it answers CONNECT, SUBSCRIBE and PINGREQ, keeps its
subscriptions over a CONNECT (the flags octet is 0), gives a topic one id, and,
with `BrokerFails`, stops and restarts, empty or, with `BrokerPersists`, with what
was registered and subscribed but without the session. `Timely` says that an answer comes
within the period of its request. `NodeSubscribes` is a client that calls
`mqtt_subscribe` itself, at any time and again if nothing came of it; a `Patient`
one does so only while no SUBSCRIBE or SUBACK is under way, and not from within
the CONNECTED event, in which the service's own subscription follows. A failed
`udp_new` is only in `MqttService`.

**KeepaliveMonitor.** `history` counts the periods in a row in which something
went wrong that can cost a ping its answer: a loss, a stop of the broker, a reset.

**RouterService.** The same shape as `MqttService`, one action per way through a
handler. What differs in the code differs here: `pending` is never taken back,
the SUBSCRIBE header counts `strlen("test")` whatever the topic is, a PINGREQ is
answered and resets nothing, the timer only pings, and CONNACK subscribes to nothing, so that the client may do so at
any time. `len` and `sent` keep what a ping leaves of the datagram before.

**BorderRouter.** One action per timer expiry, SLIP message and radio packet. An
address is what the code can tell apart of it: the two octets a prefix message
overlays in the source field of `uip_buf`, and the rest. `SlipConfig` therefore
leaves a mixed address in `last_sender`, and a short configuration message the
source of the packet before. `Route` is uIP's forwarding, which calls `output`
when it has no route. `RplRefuses` lets `rpl_set_root` return NULL, the case
`set_prefix_64` tests for. Failure of `udp_new`, packet lengths and
`print_local_addresses` are left out.

**Thermometer.** `Script` is the sequence of transfers of the driver's call and
`step` the next one: the room may warm, and the line stick, between any two. The
sensor samples at `BusConvert` and puts the sample in its register after the call
is over, before the next timer event: the driver waits for neither.
`onewire_reset` polls the line with no limit (`BusReset` is disabled while it is
low) and does not look at the presence pulse. `Raw`, `Reading`, `Val`, `Frac` and
`Degrees` are the C conversions with their widths. The `oled` board clears,
displays and draws into `panel`; `Draw` gives the bits of each glyph where the
cursor arithmetic of `write` puts them. The room, the font and `printf` are
constants.

**LedStrip.** `WriteByte` shifts one octet into the strip, `Latch` and
`Interrupt` let the line rest; `write_byte` holds interrupts off for one octet
only, so an interrupt may come between any two. `Hue` and `HsvToRgb` keep the
integer widths of `fade_callback` and `hsv_to_rgb`.

**LegacyClient.** A timer is off, set or expired; an expiry also posts an event,
and the two need not be served together: the dispatch asks `etimer_expired`, not
which event it was given. Buttons are broadcast, so `neighbor_detection` runs on
them too (`Pressed`). The MQTT-SN library the file was written for is external
and may change `connected` and `sensors_start` in every call (`LibraryCall`).

**MqttMsg.** One operator per encoder over `data`, `length` and the caller's
record. A `memset(buffer, 0, sizeof(buffer))` clears `PtrSize` octets, as
`buffer` is a pointer there. `call` remembers what was asked, and `Says` is the
message format it is read back with. The last message of a sequence of calls may
come from another caller than those before.

**Boards.** The last four share no state, so a behaviour runs one of them and
leaves the others as they start: four models in one run, each of which behaves as
its own specification says (`BoardsImplement`).

## Runs

| Run | Question | Bounds |
|---|---|---|
| `mqtt_service` | does the service alone keep its table, its datagrams and its session, whatever arrives? | limit 5 as in the code, 3 slots (one to fill, one to overrun past, one between), ids with the low octet above and below 128, signed `char` |
| `sensor_network` | does what is published and delivered keep its topic over an untimely, duplicating network with resets and restarts of a broker that keeps its ids? | one topic and one id, with signed `char` and an id whose low octet is extended, 2 slots so that repeated SUBACKs make blank entries and an overrun, 2 datagrams each way |
| `patient_client` | do node and broker agree on topics when subscriptions are answered one at a time? | two topics that fill the 2 slots, three ids: two that differ in the high octet only, so that an octet lost makes them one, and one that signed `char` extends; losses, so that a subscription is sent again; resets, so that a zeroed node registers anew what the broker still has; a broker that restarts and keeps its ids |
| `keepalive` | is a live session ever dropped, is a broker that is gone noticed, and does the node come back? | limit 3: several periods, one bad one among good ones, and a full bad row; broker failures and resets; 3 datagrams each way |
| `border_router` | prefix, echo and bridge | two prefixes, a table of one address, a host in the router's network and one outside, one radio node, one message of the host beside its answers |
| `router_service` | the same questions of the router's service, whatever arrives; does it give up a silent broker? | limit 5 as in the code, 3 slots, three names, one a character too long for a slot, ids that the sign extension of `char` makes one |
| `boards` | which conversion is a reading of, and what is shown of it; which frame does the strip show; what does the legacy client lose; what does a message say? | below |
| `suback_expected` | violation of line 259 | a PUBLISH between SUBSCRIBE and SUBACK |
| `subscribed_on_connect` | violation of line 114 | restart of a broker that forgets |
| `back_to_back` | violation of the agreement with two topics | client subscribing on CONNECTED |
| `drops_only_bounces` | violation of the comment at `slip-bridge.c:90` | a short configuration message after a radio packet |
| `dag_when_serving` | violation of the comment at `border-router.c:189` | RPL refuses |

`MaxInFlight` and `MaxSerial` bound the messages under way; at the bound a send
counts as lost, or the environment waits. `PublishUnderOwnId` is about ids of one
octet: larger ones are truncated by the code (hazard at line 167). The lengths of
names are fixed in the network runs, as no property there depends on them.

`boards`: the room at -8, 337, 344 and 1995 sixteenths of a degree, that is below
zero, one sixteenth over 21 (the fraction that loses its zero), the half of 21.5
(the rounding) and three digits; the register at 1360, the 85 degrees of power
on. Two LEDs, since a frame of two is enough for colours to move from one to the
next; one interrupt; the clock starts at 65270, so that it wraps within the 540
ticks, which go once round the colour wheel, and a frame is at most 3 ticks after
the one before. A queue of 3 events: both timers and a button. A buffer of 9
octets, long enough for every message but the long form, pointers of 3, two
callers, one with overlong texts and a name of 255 octets, which makes the length
of its PINGREQ 1.

`RegisteredAtBroker` holds for a patient client with two topics (`patient_client`)
and is violated by one that subscribes when it is told CONNECTED
(`back_to_back`): the SUBACK carries nothing that tells which SUBSCRIBE it
answers, and the code keeps one slot for all that are pending. With one
subscription at a time that is enough, over losses, retries and resets. It is not
when a SUBACK is repeated or late (left from before a reset of the node, it is taken
for that of another topic), or when the broker restarts and numbers its
topics anew; so `patient_client` has `Timely`, no duplicates and a broker that
keeps its ids over a restart, and the theorem assumes them. Each is needed: with any of them changed
in `MCPatientClient.cfg` TLC finds `RegisteredAtBroker` violated.

**Fairness.** `mqtt_connect` is called; the etimer is rearmed after each expiry
(`mqtt-service.c:398`), so the timer is weakly fair; a datagram under way arrives
or is taken. For the network strong fairness on two events only: of infinitely
many CONNECTs infinitely many are sent whole, and of infinitely many acceptances
of the broker infinitely many get through. `Reconnects` is about
a node that resets no more. `Notices` needs no network at all. `GivesUp` of the
router's service needs the timer only, and says nothing of a program that has
overrun its table. In
`BorderRouter` the etimer and `slip_process` are weakly fair, and the serial line
does not lose every request and every answer. In `Thermometer` the processor, the
timer and the conversion go on (weak), and the reset, which polls all the time,
sees a line that is free time and again (strong); nothing is assumed of the line.
In `LegacyClient` the scheduler serves the queue (weak), and the etimer process
finds room in a queue that empties time and again (strong). `LedStrip` and the
encoders promise nothing in the end.

**Deadlock** is checked in every run but `boards`: its ticks are bounded, and a
message that overran the buffer is not followed further.

## Proofs

The theorems hold for every value of the constants under the ASSUMEs of the
modules: positive limits, two-octet ids, an empty name that is no topic; for the
router, addresses of hosts, nodes and router that differ; for the thermometer,
temperatures of the sensor's range in its two's complement, a panel that the text
fits on and a font that has its characters (`ScreenAssumption`, which the SSD1306
of 128 by 64 meets), numbers printed in at most three characters; for the
encoders, records of C's widths and a buffer of 8 to 255 octets (64 in the code),
so that no long form fits. Six theorems about the
network also have hypotheses of their own, which are named with them below;
`back_to_back` shows what becomes of `TopicsAgree` without a patient client.

`MqttServiceProofs`: `Inv` is `TypeOK`, the zeroed record before start, the
registry, `mqtt.len >= 2` once running, and `HeadersComplete`.
`NoDuplicateTopics` is not inductive: a SUBACK registers whatever name waits in
`topics[nb_topics]`, so the registry part also says that every slot beyond it is
blank and that the waiting name is none of the registered ones. `HeadersComplete`
needs the length because a ping is sent with the length built before it.
`StepKeeps` has one step per action. From `Inv` follow `TypeCorrect`,
`NoDuplicates`, `Headers`, `Registry` (an action property) and
`SessionImplemented`, which maps every step to a `Session` step or a stutter.

`SensorNetworkProofs`: `NetInv` is the service's `Inv`, the record of a node that
is down, channels of typed datagrams within their bound, and a broker whose ids
are ids. It is inductive for any network and gives `NetTypeCorrect`.
The theorems on topics are of two kinds, for two different hypotheses.

`TopicsAgree`, `DeliveriesApart` and `TableIsExact` are about any number of topics
and assume `Orderly`: answers on time, no duplicates, a patient client. Their
invariant, `Exact`, says that of CONNECT, CONNACK, SUBSCRIBE and SUBACK at most one
is under way (`OneAtATime`), that it is neither of the first two once a session has
begun (`Hushed`), which name waits in `topics[nb_topics]` while a subscription is
under way (`Waiting`), and that every entry has a topic's name (`Named`). `TopicsAgree` adds that every SUBACK under way has the broker's id of
the name that waits (`Consented`); it also needs `Lasted`, a broker that keeps its
ids, over its restarts too, and gives none the id 0 that MQTT-SN reserves. `DeliveriesApart` further needs
ids that `char` keeps apart (`Apart`), and `TableIsExact`, which lets the broker
restart empty, that the topics are not more than the slots (`Roomy`): then a table of
distinct names that is full has them all (`FullTable`), and `mqtt_subscribe` finds
every topic in it.

`DeliveriesNamed` and `ReadingsUnderOwnId` are about any network, untimely and
duplicating, and assume `Alone`: the node subscribes only to its own topic, as the
service does of itself on CONNACK, and the broker keeps its ids; the last also
assumes `Short`, ids that fit the octet the code keeps. Their invariant, `Agreed`,
speaks of what is under way as well as of the table, in which repeated SUBACKs
leave blank entries with the topic's id: it is the first match that counts.

`NeverDroppedEarly`, about `KeepaliveMonitor` and in the same module, assumes `Timely`, and allows
duplicates. `NoFalseAlarm` speaks of the step that gives up; the invariant
`Counted` is what leads there. In a session, all but the latest of the unanswered
periods had a fault, and the latest has had one too unless its ping or the answer
is still under way, which a timer event excludes. So a step of the network must be
shown to take a ping or an answer away only by a fault or by resetting the counter.

`RouterServiceProofs` takes the same way with the shorter record: the part of
`Inv` on `topics[]` says that slots beyond the waiting one are blank and that
nothing waits unless a subscription was sent.

`ThermometerProofs`: `LagsOne` alone says nothing while a call is under way. The
invariant says for every place in the call where the temperatures asked for are:
in `sample` while the sensor converts, the one before in the register, and in
`got` as many octets of it as have been read. `OutInv` adds what was made of the
last reading: `PublicationsRight` then is arithmetic on the two roundings of the
driver and the split into degrees and hundredths, and `PanelShowsReading` says
that each square `draw_char` fills is the same set of pixels as the square of the
glyph's dot, whatever bits the font has, since every pixel has a
bit of its own (`PixelDot`) and each text fits in one line (`OneLine`), and that the
number drawn is the nearest degree (`Nearest`) or, below zero, what the wrapped
reading rounds to (`NearestWrapped`). `ThermoTypeCorrect`
bounds every conversion by its C width.

`LedStripProofs`: while a frame goes out undisturbed, the strip is at the LED and
octet the driver is at and has all that was sent; between frames the line has
rested. A disturbed frame is out of step until its latch, and the next is not.
`NoFlash` needs that the colours are dark or those of the clock `elapsed` ticks
ago: then two ticks move each LED one step round the wheel of 256 (`NextPlace`,
through the doubling and the wrap at 16 bits), one step changes the hue by one or
two or wraps it, and in each of the six sectors of `hsv_to_rgb` and between them
that is at most 13.

`BoardsProofs`: for the legacy client, an expired timer whose event was used up by
the other one is covered by an event still in the queue, or by `connected_timer`,
which is set again in the same step. `BoardsImplement` maps a step of `Boards` to
a step of the program that runs and a stutter of each other one, and carries the
theorems over, of which `BoardsTypeCorrect` is the types.

`MqttMsgProofs`: all messages but one are a head in the short or the long form,
fields, and a text. `PutFrame` shows once for all of them that such octets, written
over any buffer they fit in, can be read back, whichever form they have; one
lemma per encoder then finds its fields. The invariant only has to keep the buffer
a buffer of numbers: nothing of an earlier message is read, except octet 6 of a
REGACK and a PUBACK, of which nothing is claimed. While proving it two gaps of the
property came up that the run could not meet with its callers: a PINGREQ whose wrong
length is 1 reads as the start of a long form, and a subscription by an empty name
is told from one by id only by what the caller asked for. `ReadsBack` now says so,
and the run has such a name.

`BorderRouterProofs`: `Inv` adds that `server_conn` is open between events and
that address, flag and thread follow in that order (`Staged`). A full address
table is the case that needs care: it is full because it holds an address.

Only model-checked: liveness (`Reconnects`, `Notices`, `Serves`, `GivesUp`,
`ThermometerReads`, `ClientTries`, `ClientReads`), which is outside the prover's reach, as ENABLED is.

## What the checks say of the code

Beside the violations of comments listed under Runs, some properties state
behaviour that a reader of the code might not expect, and hold:

- `LagsOne`: `one_wire.c:67-76` reads the register in the call that starts a
  conversion, so each reading is one period old, and the first of the OLED board
  is the 85 degrees of power on. The sensor node drops its first.
- `PublishedRight`: a negative temperature wraps, and one sixteenth over a whole
  degree is printed as 60 hundredths (`sensor/mqtt-service.c:337`).
- `ShowsReading`: from zero up the OLED board draws the nearest degree, but half a
  degree below zero is drawn as 143, ten degrees below as 133, and a board without a
  sensor shows 143 too (`oled-temp.c:20-29`): 16 bits of hundredths wrap to 655.36,
  and 8 bits of degrees to 143.
- `GivesUp`: a broker that answers none of the node's pings is given up, though its
  own PINGREQs come and are answered. `border_router/mqtt-service.c:180` says of
  them "Reset the ping timer as the conenction is alive", as
  `sensor/mqtt-service.c:236` does, and no code follows either comment.
- `NoDuplicateTopics`, of the router's service: `pending_msg` is never taken back
  (`border_router/mqtt-service.c:195`), so a SUBACK that comes again registers a
  topic without a name; the property holds of those with one.
- `ReadsBack`: REGACK and PUBACK get octet 5 twice and octet 6 never, a PINGREQ
  takes its length from the wrong text, and WILLMSGUPD is excluded as a whole.
- `ShowsFrame`: an interrupt in a frame spoils that frame and no later one.
- `LostOnlyToTimers`: a button press can be lost, but only to a timer due then.

## Not modelled

- `ping6.c` and the button test: one counter and one LED, driven by a button;
  `sensor.c` only yields. `project-conf.h` has settings, which are constants here.
- SPI transfers, the set-up commands and the splash screen of the OLED panel:
  output with no state. `screen.c` is not built. Of `draw.c`, slanted lines,
  colours other than white and line breaks, which no caller asks for.
- The bit timing of `write_byte` and of the 1-wire slots: an octet is a step, and
  a line that sticks within one is not followed.
- `print_local_addresses`: it prints, and marks tentative addresses preferred.
- The text of the id, topic names and addresses in `example.c`, and the library
  it calls, which is no longer in the repository.
- The extension of `char` in the printing of `'°'`, which depends on the compiler
  and on the font.
