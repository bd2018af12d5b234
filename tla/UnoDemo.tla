------------------------------ MODULE UnoDemo ------------------------------
(***************************************************************************)
(* The demonstration image (examples/arduino-uno/main.cpp): its polling    *)
(* loop, the LED and heartbeat services, the millisecond clock and the     *)
(* software PWM of the built-in LED, whose interrupt handlers run between  *)
(* any two steps of the loop; and the script that ramps the LED over a     *)
(* serial line which loses frames (tools/wirespaces/led_ramp.py; one step  *)
(* of it is what led_control.py does).                                     *)
(*                                                                         *)
(* One action of the loop is one call of runOnce() or one frame handled    *)
(* inside it.  PingService is modelled in WireNetwork; no ping request is  *)
(* on this line, and the scripts skip heartbeat frames, so neither is kept *)
(* on it.                                                                  *)
(***************************************************************************)
EXTENDS Integers, Sequences

CONSTANTS
    ClockModulus,      \* 2^32
    period_ms,         \* 1000
    MaxStall,          \* bound: milliseconds between two heartbeat polls
    QueueCapacity,     \* kReceiveQueueCapacity: 2
    LastStep,          \* the ramp's last step: 10
    MaxSends,          \* bound: requests for one step of the ramp
    MaxDisturbances    \* bound: lost frames and broadcast requests

ASSUME DemoAssumption ==
    /\ ClockModulus \in Nat /\ period_ms \in Nat \ {0} /\ MaxStall \in Nat \ {0}
    /\ period_ms + MaxStall <= ClockModulus   \* a poll long before a wrap
    /\ QueueCapacity \in Nat \ {0} /\ LastStep \in Nat \ {0}

VARIABLES
    step, sends, script,   \* the ramp: its step, requests sent for it, state
    toUno, toPc,           \* requests and responses on the serial line
    pc,                    \* what runOnce() calls next
    queue,                 \* LedControlService's receive_queue_
    shown,                 \* history: the brightness last applied
    led,                   \* Timer 1 and PORTB5: see InitialLed
    clock,                 \* g_milliseconds
    last_send_time_ms,     \* HeartbeatService's
    since, gap, stall,     \* history: milliseconds since the last heartbeat,
                           \* between the last two, and since the last poll
    disturbances           \* how many of MaxDisturbances have happened

ramp == <<step, sends, script>>
heartbeat == <<last_send_time_ms, since, gap, stall>>
vars == <<ramp, toUno, toPc, pc, queue, shown, led, clock, heartbeat, disturbances>>

Brightness(k) == (k * 255 + LastStep \div 2) \div LastStep
Request(k) == [broadcast |-> FALSE, brightness |-> Brightness(k), sequence |-> k]

---------------------------------------------------------------------------
(* The script                                                              *)

\* set_brightness() repeats its request every 30 ms.
SendRequest ==
    /\ script = "Waiting" /\ sends < MaxSends
    /\ sends' = sends + 1
    /\ toUno' = Append(toUno, Request(step))
    /\ UNCHANGED <<step, script, toPc, pc, queue, shown, led, clock, heartbeat,
                   disturbances>>

\* A bug to find: any LED response of the board ends the wait.
AnyResponse(response) == TRUE

IsAcknowledgement(response) ==
    /\ response.brightness = Brightness(step)
    /\ response.sequence = step

ReadResponse ==
    /\ toPc # <<>> /\ script = "Waiting"
    /\ toPc' = Tail(toPc)
    /\ script' = IF IsAcknowledgement(Head(toPc)) THEN "Acknowledged" ELSE script
    /\ UNCHANGED <<step, sends, toUno, pc, queue, shown, led, clock, heartbeat,
                   disturbances>>

\* main(): the next step, at its 100 ms.
NextStep ==
    /\ script = "Acknowledged" /\ step < LastStep
    /\ step' = step + 1 /\ sends' = 0 /\ script' = "Waiting"
    /\ UNCHANGED <<toUno, toPc, pc, queue, shown, led, clock, heartbeat,
                   disturbances>>

\* set_brightness() timed out: main() returns 1.
GiveUp ==
    /\ script = "Waiting" /\ sends > 0
    /\ script' = "Failed"
    /\ UNCHANGED <<step, sends, toUno, toPc, pc, queue, shown, led, clock,
                   heartbeat, disturbances>>

\* A frame of either direction is lost, or another tool of the PC broadcasts
\* a request.
Disturb ==
    /\ disturbances < MaxDisturbances
    /\ disturbances' = disturbances + 1
    /\ \/ toUno # <<>> /\ toUno' = Tail(toUno) /\ UNCHANGED toPc
       \/ toPc # <<>> /\ toPc' = Tail(toPc) /\ UNCHANGED toUno
       \/ /\ toUno' = Append(toUno, [Request(LastStep) EXCEPT !.broadcast = TRUE])
          /\ UNCHANGED toPc
    /\ UNCHANGED <<ramp, pc, queue, shown, led, clock, heartbeat>>

---------------------------------------------------------------------------
(* Timer 1: the hardware raises its flags all the time; a handler runs when*)
(* its flag is raised and its interrupt enabled.                           *)

\* builtinLedInit().
InitialLed == [enabled |-> FALSE, flags |-> {}, compare |-> 0, portb5 |-> FALSE]

TimerEvent ==
    /\ \E event \in {"OCF1A", "TOV1"} \ led.flags :
         led' = [led EXCEPT !.flags = @ \cup {event}]
    /\ UNCHANGED <<ramp, toUno, toPc, pc, queue, shown, clock, heartbeat, disturbances>>

\* TIMER1_COMPA_vect, of the higher priority, and TIMER1_OVF_vect.
TimerInterrupt ==
    /\ led.enabled /\ led.flags # {}
    /\ led' = IF "OCF1A" \in led.flags
              THEN [led EXCEPT !.flags = @ \ {"OCF1A"}, !.portb5 = FALSE]
              ELSE [led EXCEPT !.flags = @ \ {"TOV1"}, !.portb5 = TRUE]
    /\ UNCHANGED <<ramp, toUno, toPc, pc, queue, shown, clock, heartbeat, disturbances>>

\* A bug to find: the static ends leave Timer 1's interrupts enabled.
LeaveInterruptsOn(l, brightness) ==
    CASE brightness = 0 -> [l EXCEPT !.portb5 = FALSE]
      [] brightness = 255 -> [l EXCEPT !.portb5 = TRUE]
      [] OTHER -> [enabled |-> TRUE, flags |-> {}, compare |-> brightness, portb5 |-> TRUE]

\* One atomic block.
setBuiltinLedBrightness(l, brightness) ==
    CASE brightness = 0 -> [l EXCEPT !.enabled = FALSE, !.portb5 = FALSE]
      [] brightness = 255 -> [l EXCEPT !.enabled = FALSE, !.portb5 = TRUE]
      [] OTHER -> [enabled |-> TRUE, flags |-> {}, compare |-> brightness, portb5 |-> TRUE]

---------------------------------------------------------------------------
(* Timer 0 and HeartbeatService                                            *)

\* TIMER0_COMPA_vect.  Polls are at most MaxStall milliseconds apart: the
\* loop's longest call writes a few frames at 115200 baud.
Tick ==
    /\ stall < MaxStall
    /\ clock' = (clock + 1) % ClockModulus
    /\ since' = since + 1 /\ stall' = stall + 1
    /\ UNCHANGED <<ramp, toUno, toPc, pc, queue, shown, led, last_send_time_ms,
                   gap, disturbances>>

\* A bug to find: the next time is computed and compared, in 32 bits.
PastDeadline == clock >= (last_send_time_ms + period_ms) % ClockModulus

\* The subtraction is of 32-bit unsigned numbers.
Due == (clock - last_send_time_ms) % ClockModulus >= period_ms

HeartbeatRun ==
    /\ pc = "Heartbeat"
    /\ pc' = "Uart"
    /\ stall' = 0
    /\ IF Due
       THEN /\ last_send_time_ms' = clock
            /\ since' = 0 /\ gap' = since
       ELSE UNCHANGED <<last_send_time_ms, since, gap>>
    /\ UNCHANGED <<ramp, toUno, toPc, queue, shown, led, clock, disturbances>>

---------------------------------------------------------------------------
(* The loop and LedControlService                                          *)

\* enqueue() of the service's bounded queue drops what finds it full.
Enqueue(items, item) ==
    IF Len(items) < QueueCapacity THEN Append(items, item) ELSE items

\* uart_receiver_.process(): every frame there is, each into the queue.
UartProcess ==
    /\ pc = "Uart"
    /\ \/ /\ toUno # <<>>
          /\ toUno' = Tail(toUno)
          /\ queue' = Enqueue(queue, Head(toUno))
          /\ UNCHANGED pc
       \/ pc' = "Led" /\ UNCHANGED <<toUno, queue>>
    /\ UNCHANGED <<ramp, toPc, shown, led, clock, heartbeat, disturbances>>

\* LedControlService::run(): one request, and its response; a broadcast one
\* is ignored.
LedRequest ==
    /\ pc = "Led" /\ queue # <<>>
    /\ queue' = Tail(queue)
    /\ LET request == Head(queue) IN
       IF request.broadcast
       THEN UNCHANGED <<led, shown, toPc>>
       ELSE /\ led' = setBuiltinLedBrightness(led, request.brightness)
            /\ shown' = request.brightness
            /\ toPc' = Append(toPc, [brightness |-> request.brightness,
                                     sequence |-> request.sequence])
    /\ UNCHANGED <<ramp, toUno, pc, clock, heartbeat, disturbances>>

LedDone ==
    /\ pc = "Led" /\ queue = <<>>
    /\ pc' = "Heartbeat"
    /\ UNCHANGED <<ramp, toUno, toPc, queue, shown, led, clock, heartbeat,
                   disturbances>>

Init ==
    /\ step = 0 /\ sends = 0 /\ script = "Waiting"
    /\ toUno = <<>> /\ toPc = <<>>
    /\ pc = "Uart" /\ queue = <<>> /\ shown = 0 /\ led = InitialLed
    /\ clock = 0 /\ last_send_time_ms = 0
    /\ since = 0 /\ gap = period_ms /\ stall = 0
    /\ disturbances = 0

Next ==
    \/ SendRequest \/ ReadResponse \/ NextStep \/ GiveUp \/ Disturb
    \/ TimerEvent \/ TimerInterrupt \/ Tick
    \/ UartProcess \/ LedRequest \/ LedDone \/ HeartbeatRun

Spec == Init /\ [][Next]_vars

---------------------------------------------------------------------------
(* Properties                                                              *)

\* led_ramp.py prints a step as done on a response that matches it: repeated
\* requests, late responses, a full queue, lost frames and broadcasts never
\* let it report a brightness that is not the last one the LED service
\* applied, and it stays the last one until the script's next step.
AcknowledgedIsShown == script = "Acknowledged" => shown = Brightness(step)

\* setBuiltinLedBrightness() against the two handlers: at 0 and 255 the port
\* is steady, no handler that was pending or enabled can move it any more,
\* and at every other brightness the PWM runs with that compare value.
LedFollowsBrightness ==
    CASE shown = 0 -> ~led.portb5
      [] shown = 255 -> led.portb5
      [] OTHER -> led.enabled /\ led.compare = shown

\* HeartbeatService::run() subtracts wrapping clocks: also across the wrap
\* heartbeats are a period apart or more, and never later than the first
\* poll after the period is over.
HeartbeatsAreSpaced == gap >= period_ms /\ since < period_ms + MaxStall

============================================================================
