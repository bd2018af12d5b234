--------------------------- MODULE UnoDemoProofs ---------------------------
(***************************************************************************)
(* The demonstration image and the ramp script, for every clock width,     *)
(* heartbeat period, queue capacity and length of the ramp, and without    *)
(* any bound on repeated, lost or foreign frames.                          *)
(***************************************************************************)
EXTENDS UnoDemo, SequenceTheorems, TLAPS

Steps == 0 .. LastStep
Requests == [broadcast : BOOLEAN, brightness : Nat, sequence : Steps]
Responses == [brightness : Nat, sequence : Steps]

---------------------------------------------------------------------------
(* The heartbeat: the wrapped difference of the clocks is the time since   *)
(* the last heartbeat, which was less than a period at the last poll.      *)
HeartbeatInv ==
    /\ clock \in 0 .. (ClockModulus - 1)
    /\ last_send_time_ms \in 0 .. (ClockModulus - 1)
    /\ since \in Nat /\ stall \in 0 .. MaxStall /\ gap \in Nat
    /\ clock - last_send_time_ms \in {since, since - ClockModulus}
    /\ since < period_ms + stall
    /\ gap >= period_ms

(* The LED: a steady port has its interrupts disabled.                     *)
Leds == [enabled : BOOLEAN, flags : SUBSET {"OCF1A", "TOV1"}, compare : Nat,
         portb5 : BOOLEAN]
LedInv ==
    /\ led \in Leds
    /\ shown = 0 => ~led.enabled /\ ~led.portb5
    /\ shown = 255 => ~led.enabled /\ led.portb5
    /\ shown \notin {0, 255} => led.enabled /\ led.compare = shown

(* The ramp.  The script's own requests keep the order of their steps on   *)
(* the line and in the queue, and the brightness shown is that of a step   *)
(* applied which all pending requests have reached and no response passes; *)
(* once the script has its acknowledgment, that step is the script's.      *)
InOrder(p, q) == ~p.broadcast /\ ~q.broadcast => p.sequence <= q.sequence
Ordered(items) == \A i, j \in 1 .. Len(items) : i < j => InOrder(items[i], items[j])
Meant(items) == \A i \in 1 .. Len(items) : items[i].brightness = Brightness(items[i].sequence)
NotBefore(items, k) ==
    \A i \in 1 .. Len(items) : ~items[i].broadcast => items[i].sequence >= k
NotAfter(items, k) ==
    \A i \in 1 .. Len(items) : ~items[i].broadcast => items[i].sequence <= k
Answers(items, k) == \A i \in 1 .. Len(items) : items[i].sequence <= k

RampTypeOK ==
    /\ step \in Steps /\ script \in {"Waiting", "Acknowledged", "Failed"}
    /\ toUno \in Seq(Requests) /\ queue \in Seq(Requests) /\ toPc \in Seq(Responses)

Pending ==
    /\ Meant(toUno) /\ Meant(queue)
    /\ Ordered(toUno) /\ Ordered(queue)
    /\ \A i \in 1 .. Len(queue) : \A j \in 1 .. Len(toUno) : InOrder(queue[i], toUno[j])
    /\ NotAfter(toUno, step) /\ NotAfter(queue, step)

Applied(k) ==
    /\ shown = Brightness(k)
    /\ NotBefore(toUno, k) /\ NotBefore(queue, k)
    /\ Answers(toPc, k)
    /\ script = "Acknowledged" => k = step

RampInv == RampTypeOK /\ Pending /\ \E k \in 0 .. step : Applied(k)

DemoInv == HeartbeatInv /\ LedInv /\ RampInv

---------------------------------------------------------------------------
(* Arithmetic and sequences                                                *)

(* A number in range is its own remainder, and the remainder of the number *)
(* one modulus below it.                                                   *)
LEMMA WrapOnce ==
    ASSUME NEW m \in Nat \ {0}, NEW r \in 0 .. (m - 1)
    PROVE  r % m = r /\ (r - m) % m = r
<1>1. r % m = r
    OBVIOUS
<1>2. (r - m) % m = r
    OBVIOUS
<1>3. QED
    BY <1>1, <1>2

(* led_ramp.py's first brightness is 0 and every one is a natural number.  *)
LEMMA BrightnessNat ==
    Brightness(0) = 0 /\ \A k \in Nat : Brightness(k) \in Nat
<1>1. LastStep \in Nat \ {0}
    BY DemoAssumption
<1>2. LastStep \div 2 \in Nat /\ LastStep \div 2 < LastStep
    BY <1>1
<1>3. (LastStep \div 2) \div LastStep = 0
    BY <1>1, <1>2
<1>4. ASSUME NEW k \in Nat
      PROVE  Brightness(k) \in Nat
    <2>1. k * 255 + LastStep \div 2 \in Nat
        BY <1>2
    <2>2. \A n \in Nat : n \div LastStep \in Nat
        BY <1>1
    <2>3. QED
        BY <2>1, <2>2 DEF Brightness
<1>5. Brightness(0) = 0
    BY <1>2, <1>3 DEF Brightness
<1>6. QED
    BY <1>4, <1>5

(* What a sequence without its first item is.                              *)
LEMMA TailItems ==
    ASSUME NEW S, NEW items \in Seq(S), items # <<>>
    PROVE  /\ Head(items) \in S /\ Head(items) = items[1] /\ Len(items) \in Nat \ {0}
           /\ Tail(items) \in Seq(S) /\ Len(Tail(items)) = Len(items) - 1
           /\ \A i \in 1 .. Len(Tail(items)) :
                  Tail(items)[i] = items[i + 1] /\ i + 1 \in 1 .. Len(items)
    BY HeadTailProperties, EmptySeq, LenProperties

(* What a sequence with one more item is.                                  *)
LEMMA AppendItems ==
    ASSUME NEW S, NEW items \in Seq(S), NEW item \in S
    PROVE  /\ Append(items, item) \in Seq(S) /\ Len(items) \in Nat
           /\ Len(Append(items, item)) = Len(items) + 1
           /\ \A i \in 1 .. Len(items) : Append(items, item)[i] = items[i]
           /\ Append(items, item)[Len(items) + 1] = item
    BY AppendProperties, LenProperties

(* A request taken from the front leaves requests in order behind it.      *)
LEMMA TailKeeps ==
    ASSUME NEW items \in Seq(Requests), items # <<>>
    PROVE  /\ Meant(items) => Meant(Tail(items))
           /\ Ordered(items) => Ordered(Tail(items))
           /\ \A k \in Steps : NotBefore(items, k) => NotBefore(Tail(items), k)
           /\ \A k \in Steps : NotAfter(items, k) => NotAfter(Tail(items), k)
           /\ Ordered(items) =>
                \A i \in 1 .. Len(Tail(items)) : InOrder(Head(items), Tail(items)[i])
<1>1. /\ Head(items) = items[1] /\ Len(items) \in Nat \ {0}
      /\ Len(Tail(items)) = Len(items) - 1
      /\ \A i \in 1 .. Len(Tail(items)) :
             Tail(items)[i] = items[i + 1] /\ i + 1 \in 1 .. Len(items)
    BY TailItems
<1>2. Meant(items) => Meant(Tail(items))
    BY <1>1 DEF Meant
<1>3. Ordered(items) => Ordered(Tail(items))
    BY <1>1 DEF Ordered
<1>4. \A k \in Steps : NotBefore(items, k) => NotBefore(Tail(items), k)
    BY <1>1 DEF NotBefore
<1>5. \A k \in Steps : NotAfter(items, k) => NotAfter(Tail(items), k)
    BY <1>1 DEF NotAfter
<1>6. Ordered(items) =>
        \A i \in 1 .. Len(Tail(items)) : InOrder(Head(items), Tail(items)[i])
    BY <1>1 DEF Ordered
<1>7. QED
    BY <1>2, <1>3, <1>4, <1>5, <1>6

(* A request put at the end keeps the order when it comes after them all.  *)
LEMMA AppendKeeps ==
    ASSUME NEW items \in Seq(Requests), NEW item \in Requests
    PROVE  /\ Meant(items) /\ item.brightness = Brightness(item.sequence) =>
                Meant(Append(items, item))
           /\ Ordered(items) /\ (\A i \in 1 .. Len(items) : InOrder(items[i], item)) =>
                Ordered(Append(items, item))
           /\ \A k \in Steps :
                NotBefore(items, k) /\ (~item.broadcast => item.sequence >= k) =>
                  NotBefore(Append(items, item), k)
           /\ \A k \in Steps :
                NotAfter(items, k) /\ (~item.broadcast => item.sequence <= k) =>
                  NotAfter(Append(items, item), k)
<1> DEFINE longer == Append(items, item)
<1>1. /\ Len(items) \in Nat /\ Len(longer) = Len(items) + 1
      /\ \A i \in 1 .. Len(items) : longer[i] = items[i]
      /\ longer[Len(items) + 1] = item
    BY AppendItems
<1> HIDE DEF longer
<1>2. Meant(items) /\ item.brightness = Brightness(item.sequence) => Meant(longer)
    <2>1. SUFFICES ASSUME Meant(items), item.brightness = Brightness(item.sequence),
                          NEW i \in 1 .. Len(longer)
                   PROVE  longer[i].brightness = Brightness(longer[i].sequence)
        BY DEF Meant
    <2>2. i \in 1 .. Len(items) \/ i = Len(items) + 1
        BY <1>1
    <2>3. QED
        BY <1>1, <2>1, <2>2 DEF Meant
<1>3. Ordered(items) /\ (\A i \in 1 .. Len(items) : InOrder(items[i], item)) =>
        Ordered(longer)
    <2>1. SUFFICES ASSUME Ordered(items), \A i \in 1 .. Len(items) : InOrder(items[i], item),
                          NEW i \in 1 .. Len(longer), NEW j \in 1 .. Len(longer), i < j
                   PROVE  InOrder(longer[i], longer[j])
        BY DEF Ordered
    <2>2. i \in 1 .. Len(items) /\ (j \in 1 .. Len(items) \/ j = Len(items) + 1)
        BY <1>1, <2>1
    <2>3. QED
        BY <1>1, <2>1, <2>2 DEF Ordered
<1>4. ASSUME NEW k \in Steps, NotBefore(items, k), ~item.broadcast => item.sequence >= k
      PROVE  NotBefore(longer, k)
    <2>1. \A i \in 1 .. Len(longer) : i \in 1 .. Len(items) \/ i = Len(items) + 1
        BY <1>1
    <2>2. QED
        BY <1>1, <1>4, <2>1 DEF NotBefore
<1>5. ASSUME NEW k \in Steps, NotAfter(items, k), ~item.broadcast => item.sequence <= k
      PROVE  NotAfter(longer, k)
    <2>1. \A i \in 1 .. Len(longer) : i \in 1 .. Len(items) \/ i = Len(items) + 1
        BY <1>1
    <2>2. QED
        BY <1>1, <1>5, <2>1 DEF NotAfter
<1>6. QED
    BY <1>2, <1>3, <1>4, <1>5 DEF longer

---------------------------------------------------------------------------
(* The heartbeat                                                           *)

(* TIMER0_COMPA_vect and HeartbeatService::run() keep the wrapped          *)
(* difference of the clocks equal to the time since the last heartbeat.    *)
LEMMA HeartbeatStep ==
    ASSUME HeartbeatInv, [Next]_vars
    PROVE  HeartbeatInv'
<1>1. /\ period_ms \in Nat \ {0} /\ MaxStall \in Nat \ {0} /\ ClockModulus \in Nat \ {0}
      /\ period_ms + MaxStall <= ClockModulus
    BY DemoAssumption
<1>2. CASE Tick
    <2>1. clock' = IF clock = ClockModulus - 1 THEN 0 ELSE clock + 1
        <3>1. CASE clock = ClockModulus - 1
            <4>1. ClockModulus % ClockModulus = 0
                BY <1>1
            <4>2. QED
                BY <1>1, <1>2, <3>1, <4>1 DEF Tick
        <3>2. CASE clock # ClockModulus - 1
            <4>1. clock + 1 \in 0 .. (ClockModulus - 1)
                BY <1>1, <3>2 DEF HeartbeatInv
            <4>2. QED
                BY <1>1, <1>2, <3>2, <4>1, WrapOnce DEF Tick
        <3>3. QED
            BY <3>1, <3>2
    <2>2. /\ since' = since + 1 /\ stall' = stall + 1 /\ stall < MaxStall
          /\ UNCHANGED <<last_send_time_ms, gap>>
        BY <1>2 DEF Tick
    <2>3. QED
        BY <1>1, <2>1, <2>2 DEF HeartbeatInv
<1>3. CASE HeartbeatRun
    <2>1. since \in 0 .. (ClockModulus - 1)
        BY <1>1 DEF HeartbeatInv
    <2>2. (clock - last_send_time_ms) % ClockModulus = since
        BY <1>1, <2>1, WrapOnce DEF HeartbeatInv
    <2>3. Due <=> since >= period_ms
        BY <2>2 DEF Due
    <2>4. CASE Due
        BY <1>1, <1>3, <2>3, <2>4 DEF HeartbeatRun, HeartbeatInv
    <2>5. CASE ~Due
        BY <1>1, <1>3, <2>3, <2>5 DEF HeartbeatRun, HeartbeatInv
    <2>6. QED
        BY <2>4, <2>5
<1>4. CASE UNCHANGED <<clock, heartbeat>>
    BY <1>4 DEF HeartbeatInv, heartbeat
<1>5. [Next]_vars => Tick \/ HeartbeatRun \/ UNCHANGED <<clock, heartbeat>>
    BY DEF Next, vars, SendRequest, ReadResponse, NextStep, GiveUp, Disturb, TimerEvent,
           TimerInterrupt, UartProcess, LedRequest, LedDone
<1>6. QED
    BY <1>2, <1>3, <1>4, <1>5

---------------------------------------------------------------------------
(* The LED                                                                 *)

(* Every request the loop applies carries a brightness, and the two        *)
(* handlers of Timer 1 only move a port whose interrupts are enabled.      *)
LEMMA LedStep ==
    ASSUME LedInv, queue \in Seq(Requests), [Next]_vars
    PROVE  LedInv'
<1>1. CASE TimerEvent
    <2>1. PICK event \in {"OCF1A", "TOV1"} : led' = [led EXCEPT !.flags = @ \cup {event}]
        BY <1>1 DEF TimerEvent
    <2>2. led.flags \cup {event} \in SUBSET {"OCF1A", "TOV1"}
        BY DEF LedInv, Leds
    <2>3. QED
        BY <1>1, <2>1, <2>2 DEF TimerEvent, LedInv, Leds
<1>2. CASE TimerInterrupt
    <2>1. led.enabled /\ shown' = shown
        BY <1>2 DEF TimerInterrupt
    <2>2. CASE "OCF1A" \in led.flags
        BY <1>2, <2>1, <2>2 DEF TimerInterrupt, LedInv, Leds
    <2>3. CASE "OCF1A" \notin led.flags
        BY <1>2, <2>1, <2>3 DEF TimerInterrupt, LedInv, Leds
    <2>4. QED
        BY <2>2, <2>3
<1>3. CASE LedRequest
    <2>1. CASE Head(queue).broadcast
        BY <1>3, <2>1 DEF LedRequest, LedInv
    <2>2. CASE ~Head(queue).broadcast
        <3>1. Head(queue).brightness \in Nat
            <4>1. queue # <<>>
                BY <1>3 DEF LedRequest
            <4>2. Head(queue) \in Requests
                BY <4>1, TailItems
            <4>3. QED
                BY <4>2 DEF Requests
        <3>2. /\ led' = setBuiltinLedBrightness(led, Head(queue).brightness)
              /\ shown' = Head(queue).brightness
            BY <1>3, <2>2 DEF LedRequest
        <3>3. CASE shown' = 0
            <4>1. led' = [led EXCEPT !.enabled = FALSE, !.portb5 = FALSE]
                BY <3>2, <3>3 DEF setBuiltinLedBrightness
            <4>2. led' \in Leds /\ ~led'.enabled /\ ~led'.portb5
                BY <4>1 DEF LedInv, Leds
            <4>3. QED
                BY <3>3, <4>2 DEF LedInv
        <3>4. CASE shown' = 255
            <4>1. led' = [led EXCEPT !.enabled = FALSE, !.portb5 = TRUE]
                BY <3>2, <3>4 DEF setBuiltinLedBrightness
            <4>2. led' \in Leds /\ ~led'.enabled /\ led'.portb5
                BY <4>1 DEF LedInv, Leds
            <4>3. QED
                BY <3>4, <4>2 DEF LedInv
        <3>5. CASE shown' \notin {0, 255}
            <4>1. led' = [enabled |-> TRUE, flags |-> {}, compare |-> shown', portb5 |-> TRUE]
                BY <3>2, <3>5 DEF setBuiltinLedBrightness
            <4>2. shown' \in Nat
                BY <3>1, <3>2
            <4>3. QED
                BY <3>5, <4>1, <4>2 DEF LedInv, Leds
        <3>6. QED
            BY <3>3, <3>4, <3>5
    <2>3. QED
        BY <2>1, <2>2
<1>4. CASE UNCHANGED <<led, shown>>
    BY <1>4 DEF LedInv
<1>5. [Next]_vars => TimerEvent \/ TimerInterrupt \/ LedRequest \/ UNCHANGED <<led, shown>>
    BY DEF Next, vars, SendRequest, ReadResponse, NextStep, GiveUp, Disturb, Tick,
           HeartbeatRun, UartProcess, LedDone
<1>6. QED
    BY <1>1, <1>2, <1>3, <1>4, <1>5

---------------------------------------------------------------------------
(* The ramp                                                                *)

(* set_brightness() sends its own step's request, the last of all.         *)
LEMMA SendRequestKeeps ==
    ASSUME RampInv, SendRequest
    PROVE  RampInv'
<1> DEFINE request == Request(step)
<1>1. PICK k \in 0 .. step : Applied(k)
    BY DEF RampInv
<1>2. /\ step \in Nat /\ step \in Steps /\ k \in Nat /\ k \in Steps
      /\ LastStep \in Nat
    BY DemoAssumption DEF RampInv, RampTypeOK, Steps
<1>3. /\ request \in Requests /\ ~request.broadcast /\ request.sequence = step
      /\ request.brightness = Brightness(request.sequence)
    BY <1>2, BrightnessNat DEF Request, Requests
<1>4. /\ toUno' = Append(toUno, request)
      /\ UNCHANGED <<step, script, queue, toPc, shown>>
    BY DEF SendRequest
<1>5. /\ toUno \in Seq(Requests) /\ queue \in Seq(Requests)
      /\ \A i \in 1 .. Len(toUno) : toUno[i] \in Requests
      /\ \A i \in 1 .. Len(queue) : queue[i] \in Requests
    BY ElementOfSeq DEF RampInv, RampTypeOK
<1> HIDE DEF request
<1>6. /\ \A i \in 1 .. Len(toUno) : InOrder(toUno[i], request)
      /\ \A i \in 1 .. Len(queue) : InOrder(queue[i], request)
    BY <1>3 DEF RampInv, Pending, NotAfter, InOrder
<1>7. toUno' \in Seq(Requests) /\ RampTypeOK'
    BY <1>3, <1>4, <1>5, AppendItems DEF RampInv, RampTypeOK
<1>8. Meant(toUno') /\ Ordered(toUno')
    BY <1>3, <1>4, <1>5, <1>6, AppendKeeps DEF RampInv, Pending
<1>9. NotAfter(toUno', step) /\ NotBefore(toUno', k)
    <2>1. NotAfter(toUno, step) /\ NotBefore(toUno, k)
        BY <1>1 DEF RampInv, Pending, Applied
    <2>2. request.sequence <= step /\ request.sequence >= k
        BY <1>2, <1>3
    <2>3. QED
        BY <1>2, <1>3, <1>4, <1>5, <2>1, <2>2, AppendKeeps
<1>10. ASSUME NEW i \in 1 .. Len(queue), NEW j \in 1 .. Len(toUno')
       PROVE  InOrder(queue[i], toUno'[j])
    <2>1. /\ Len(toUno) \in Nat /\ Len(toUno') = Len(toUno) + 1
          /\ \A n \in 1 .. Len(toUno) : toUno'[n] = toUno[n]
          /\ toUno'[Len(toUno) + 1] = request
        BY <1>3, <1>4, <1>5, AppendItems
    <2>2. j \in 1 .. Len(toUno) \/ j = Len(toUno) + 1
        BY <2>1
    <2>3. QED
        BY <1>6, <2>1, <2>2 DEF RampInv, Pending
<1>11. Pending'
    BY <1>4, <1>8, <1>9, <1>10 DEF RampInv, Pending
<1>12. Applied(k)'
    BY <1>1, <1>4, <1>9 DEF Applied
<1>13. k \in 0 .. step'
    BY <1>4
<1>14. QED
    BY <1>7, <1>11, <1>12, <1>13 DEF RampInv

(* set_brightness() ends on a response to its own step, which the board    *)
(* has then applied, and no later one.                                     *)
LEMMA ReadResponseKeeps ==
    ASSUME RampInv, ReadResponse
    PROVE  RampInv'
<1>1. PICK k \in 0 .. step : Applied(k)
    BY DEF RampInv
<1>2. step \in Nat /\ k \in Nat /\ toPc \in Seq(Responses) /\ toPc # <<>>
    BY DemoAssumption DEF RampInv, RampTypeOK, Steps, ReadResponse
<1>3. /\ toPc' = Tail(toPc) /\ script = "Waiting"
      /\ script' = IF IsAcknowledgement(Head(toPc)) THEN "Acknowledged" ELSE script
      /\ UNCHANGED <<step, toUno, queue, shown>>
    BY DEF ReadResponse
<1>4. /\ Head(toPc) = toPc[1] /\ Len(toPc) \in Nat \ {0}
      /\ toPc' \in Seq(Responses) /\ Len(toPc') = Len(toPc) - 1
      /\ \A i \in 1 .. Len(toPc') : toPc'[i] = toPc[i + 1] /\ i + 1 \in 1 .. Len(toPc)
      /\ Head(toPc) \in Responses
    BY <1>2, <1>3, TailItems
<1>5. Answers(toPc', k) /\ Head(toPc).sequence <= k
    BY <1>1, <1>4 DEF Applied, Answers
<1>6. script' = "Acknowledged" => k = step
    BY <1>2, <1>3, <1>5 DEF IsAcknowledgement
<1>7. RampTypeOK' /\ Pending'
    BY <1>3, <1>4 DEF RampInv, RampTypeOK, Pending
<1>8. Applied(k)' /\ k \in 0 .. step'
    BY <1>1, <1>3, <1>5, <1>6 DEF Applied
<1>9. QED
    BY <1>7, <1>8 DEF RampInv

(* main() goes on to its next step, or gives up.                           *)
LEMMA ScriptKeeps ==
    ASSUME RampInv, NextStep \/ GiveUp
    PROVE  RampInv'
<1>1. PICK k \in 0 .. step : Applied(k)
    BY DEF RampInv
<1>2. LastStep \in Nat /\ step \in Nat /\ step \in Steps /\ k \in Nat
    BY DemoAssumption DEF RampInv, RampTypeOK, Steps
<1>3. /\ UNCHANGED <<toUno, queue, toPc, shown>> /\ script' \in {"Waiting", "Failed"}
      /\ step' \in Steps /\ step <= step'
    BY <1>2 DEF NextStep, GiveUp, Steps
<1>4. ASSUME NEW items \in Seq(Requests), NotAfter(items, step)
      PROVE  NotAfter(items, step')
    <2>1. \A i \in 1 .. Len(items) : items[i] \in Requests
        BY ElementOfSeq
    <2>2. \A i \in 1 .. Len(items) : items[i].sequence \in Nat
        BY <2>1 DEF Requests, Steps
    <2>3. QED
        BY <1>2, <1>3, <1>4, <2>2 DEF NotAfter, Steps
<1>5. RampTypeOK'
    BY <1>3 DEF RampInv, RampTypeOK
<1>6. Pending'
    BY <1>3, <1>4 DEF RampInv, RampTypeOK, Pending
<1>7. Applied(k)' /\ k \in 0 .. step'
    BY <1>1, <1>2, <1>3 DEF Applied, Steps
<1>8. QED
    BY <1>5, <1>6, <1>7 DEF RampInv

(* A request leaves the line, lost or into the queue's end: what is still  *)
(* on the line comes after what is in the queue.                           *)
LEMMA LineShortens ==
    ASSUME RampInv, toUno # <<>>, toUno' = Tail(toUno),
           UNCHANGED <<step, script, toPc, shown>>,
           queue' \in {queue, Append(queue, Head(toUno))}
    PROVE  RampInv'
<1>1. PICK k \in 0 .. step : Applied(k)
    BY DEF RampInv
<1>2. step \in Steps /\ k \in Steps
    BY DemoAssumption DEF RampInv, RampTypeOK, Steps
<1>3. toUno \in Seq(Requests) /\ queue \in Seq(Requests)
    BY DEF RampInv, RampTypeOK
<1>4. /\ Head(toUno) \in Requests /\ Head(toUno) = toUno[1] /\ 1 \in 1 .. Len(toUno)
      /\ toUno' \in Seq(Requests)
      /\ \A i \in 1 .. Len(toUno') : toUno'[i] = toUno[i + 1] /\ i + 1 \in 1 .. Len(toUno)
    BY <1>3, TailItems
<1>5. /\ Meant(toUno') /\ Ordered(toUno') /\ NotAfter(toUno', step) /\ NotBefore(toUno', k)
      /\ \A j \in 1 .. Len(toUno') : InOrder(Head(toUno), toUno'[j])
    BY <1>1, <1>2, <1>3, TailKeeps DEF RampInv, Pending, Applied
<1>6. /\ queue' \in Seq(Requests)
      /\ Meant(queue') /\ Ordered(queue') /\ NotAfter(queue', step) /\ NotBefore(queue', k)
    <2>1. /\ Meant(queue) /\ Ordered(queue) /\ NotAfter(queue, step) /\ NotBefore(queue, k)
          /\ \A i \in 1 .. Len(queue) : InOrder(queue[i], Head(toUno))
        BY <1>1, <1>4 DEF RampInv, Pending, Applied
    <2>2. /\ Head(toUno).brightness = Brightness(Head(toUno).sequence)
          /\ ~Head(toUno).broadcast =>
               Head(toUno).sequence <= step /\ Head(toUno).sequence >= k
        BY <1>1, <1>4 DEF RampInv, Pending, Applied, Meant, NotAfter, NotBefore
    <2>3. CASE queue' = Append(queue, Head(toUno))
        <3>1. queue' \in Seq(Requests)
            BY <1>3, <1>4, <2>3, AppendItems
        <3>2. Meant(queue') /\ Ordered(queue')
            BY <1>3, <1>4, <2>1, <2>2, <2>3, AppendKeeps
        <3>3. NotAfter(queue', step) /\ NotBefore(queue', k)
            BY <1>2, <1>3, <1>4, <2>1, <2>2, <2>3, AppendKeeps
        <3>4. QED
            BY <3>1, <3>2, <3>3
    <2>4. QED
        BY <1>3, <2>1, <2>3
<1>7. ASSUME NEW i \in 1 .. Len(queue'), NEW j \in 1 .. Len(toUno')
      PROVE  InOrder(queue'[i], toUno'[j])
    <2>1. \A n \in 1 .. Len(queue) : InOrder(queue[n], toUno'[j])
        BY <1>4 DEF RampInv, Pending
    <2>2. CASE queue' = Append(queue, Head(toUno))
        <3>1. /\ Len(queue) \in Nat /\ Len(queue') = Len(queue) + 1
              /\ \A n \in 1 .. Len(queue) : queue'[n] = queue[n]
              /\ queue'[Len(queue) + 1] = Head(toUno)
            BY <1>3, <1>4, <2>2, AppendItems
        <3>2. i \in 1 .. Len(queue) \/ i = Len(queue) + 1
            BY <3>1
        <3>3. QED
            BY <1>5, <2>1, <3>1, <3>2
    <2>3. QED
        BY <2>1, <2>2
<1>8. RampTypeOK'
    BY <1>4, <1>6 DEF RampInv, RampTypeOK
<1>9. Pending'
    BY <1>5, <1>6, <1>7 DEF Pending
<1>10. Applied(k)' /\ k \in 0 .. step'
    BY <1>1, <1>5, <1>6 DEF Applied
<1>11. QED
    BY <1>8, <1>9, <1>10 DEF RampInv

(* A lost frame or another tool's broadcast changes nothing the ramp's     *)
(* requests and responses say.                                             *)
LEMMA DisturbKeeps ==
    ASSUME RampInv, Disturb
    PROVE  RampInv'
<1>1. PICK k \in 0 .. step : Applied(k)
    BY DEF RampInv
<1>2. /\ step \in Steps /\ k \in Steps /\ LastStep \in Steps /\ LastStep \in Nat
      /\ toUno \in Seq(Requests) /\ toPc \in Seq(Responses)
    BY DemoAssumption DEF RampInv, RampTypeOK, Steps
<1>3. UNCHANGED <<step, script, queue, shown>>
    BY DEF Disturb, ramp
<1>4. CASE toUno # <<>> /\ toUno' = Tail(toUno) /\ UNCHANGED toPc
    BY <1>3, <1>4, LineShortens
<1>5. CASE toPc # <<>> /\ toPc' = Tail(toPc) /\ UNCHANGED toUno
    <2>1. /\ toPc' \in Seq(Responses)
          /\ \A i \in 1 .. Len(toPc') : toPc'[i] = toPc[i + 1] /\ i + 1 \in 1 .. Len(toPc)
        BY <1>2, <1>5, TailItems
    <2>2. Answers(toPc', k)
        BY <1>1, <2>1 DEF Applied, Answers
    <2>3. RampTypeOK' /\ Pending'
        BY <1>3, <1>5, <2>1 DEF RampInv, RampTypeOK, Pending
    <2>4. Applied(k)' /\ k \in 0 .. step'
        BY <1>1, <1>3, <1>5, <2>2 DEF Applied
    <2>5. QED
        BY <2>3, <2>4 DEF RampInv
<1>6. CASE /\ toUno' = Append(toUno, [Request(LastStep) EXCEPT !.broadcast = TRUE])
           /\ UNCHANGED toPc
    <2> DEFINE request == [Request(LastStep) EXCEPT !.broadcast = TRUE]
    <2>1. /\ request \in Requests /\ request.broadcast
          /\ request.brightness = Brightness(request.sequence)
        BY <1>2, BrightnessNat DEF Request, Requests
    <2> HIDE DEF request
    <2>2. toUno' = Append(toUno, request)
        BY <1>6 DEF request
    <2>3. \A item : InOrder(item, request)
        BY <2>1 DEF InOrder
    <2>4. toUno' \in Seq(Requests)
        BY <1>2, <2>1, <2>2, AppendItems
    <2>5. Meant(toUno') /\ Ordered(toUno')
        BY <1>2, <2>1, <2>2, <2>3, AppendKeeps DEF RampInv, Pending
    <2>6. NotAfter(toUno', step) /\ NotBefore(toUno', k)
        BY <1>1, <1>2, <2>1, <2>2, AppendKeeps DEF RampInv, Pending, Applied
    <2>7. ASSUME NEW i \in 1 .. Len(queue), NEW j \in 1 .. Len(toUno')
          PROVE  InOrder(queue[i], toUno'[j])
        <3>1. /\ Len(toUno) \in Nat /\ Len(toUno') = Len(toUno) + 1
              /\ \A n \in 1 .. Len(toUno) : toUno'[n] = toUno[n]
              /\ toUno'[Len(toUno) + 1] = request
            BY <1>2, <2>1, <2>2, AppendItems
        <3>2. j \in 1 .. Len(toUno) \/ j = Len(toUno) + 1
            BY <3>1
        <3>3. QED
            BY <2>3, <3>1, <3>2 DEF RampInv, Pending
    <2>8. RampTypeOK' /\ Pending'
        BY <1>3, <1>6, <2>4, <2>5, <2>6, <2>7 DEF RampInv, RampTypeOK, Pending
    <2>9. Applied(k)' /\ k \in 0 .. step'
        BY <1>1, <1>3, <1>6, <2>6 DEF Applied
    <2>10. QED
        BY <2>8, <2>9 DEF RampInv
<1>7. QED
    BY <1>4, <1>5, <1>6 DEF Disturb

(* uart_receiver_.process() moves requests into the queue, or drops them   *)
(* at a full one.                                                          *)
LEMMA UartProcessKeeps ==
    ASSUME RampInv, UartProcess
    PROVE  RampInv'
<1>1. UNCHANGED <<step, script, toPc, shown>>
    BY DEF UartProcess, ramp
<1>2. CASE toUno # <<>> /\ toUno' = Tail(toUno) /\ queue' = Enqueue(queue, Head(toUno))
    <2>1. queue' \in {queue, Append(queue, Head(toUno))}
        BY <1>2 DEF Enqueue
    <2>2. QED
        BY <1>1, <1>2, <2>1, LineShortens
<1>3. CASE UNCHANGED <<toUno, queue>>
    BY <1>1, <1>3 DEF RampInv, RampTypeOK, Pending, Applied
<1>4. QED
    BY <1>2, <1>3 DEF UartProcess

(* LedControlService::run() applies the oldest request and answers it; the *)
(* step it applies is at least the one it showed.                          *)
LEMMA LedRequestKeeps ==
    ASSUME RampInv, LedRequest
    PROVE  RampInv'
<1> DEFINE request == Head(queue)
<1>1. PICK k \in 0 .. step : Applied(k)
    BY DEF RampInv
<1>2. /\ step \in Steps /\ k \in Steps /\ LastStep \in Nat
      /\ queue \in Seq(Requests) /\ queue # <<>>
      /\ toPc \in Seq(Responses) /\ toUno \in Seq(Requests)
    BY DemoAssumption DEF RampInv, RampTypeOK, Steps, LedRequest
<1>3. /\ request \in Requests /\ request = queue[1] /\ 1 \in 1 .. Len(queue)
      /\ Tail(queue) \in Seq(Requests)
      /\ \A i \in 1 .. Len(Tail(queue)) :
             Tail(queue)[i] = queue[i + 1] /\ i + 1 \in 1 .. Len(queue)
    BY <1>2, TailItems
<1>4. /\ queue' = Tail(queue) /\ UNCHANGED <<step, script, toUno>>
      /\ request.broadcast => UNCHANGED <<shown, toPc>>
      /\ ~request.broadcast =>
           /\ shown' = request.brightness
           /\ toPc' = Append(toPc, [brightness |-> request.brightness,
                                    sequence |-> request.sequence])
    BY DEF LedRequest, ramp
<1> HIDE DEF request
<1>5. /\ Meant(queue') /\ Ordered(queue') /\ NotAfter(queue', step) /\ NotBefore(queue', k)
      /\ \A i \in 1 .. Len(queue') : InOrder(request, queue'[i])
    BY <1>1, <1>2, <1>4, TailKeeps DEF RampInv, Pending, Applied, request
<1>6. \A i \in 1 .. Len(queue') : \A j \in 1 .. Len(toUno') : InOrder(queue'[i], toUno'[j])
    BY <1>3, <1>4 DEF RampInv, Pending
<1>7. Pending'
    BY <1>4, <1>5, <1>6 DEF RampInv, Pending
<1>8. CASE request.broadcast
    <2>1. RampTypeOK'
        BY <1>3, <1>4, <1>8 DEF RampInv, RampTypeOK
    <2>2. Applied(k)' /\ k \in 0 .. step'
        BY <1>1, <1>4, <1>5, <1>8 DEF Applied
    <2>3. QED
        BY <1>7, <2>1, <2>2 DEF RampInv
<1>9. CASE ~request.broadcast
    <2>1. PICK now \in Steps : now = request.sequence
        BY <1>3 DEF Requests
    <2> DEFINE answer == [brightness |-> request.brightness, sequence |-> now]
    <2>2. answer \in Responses /\ answer.sequence = now
        BY <1>3 DEF Requests, Responses
    <2>3. k <= now /\ now <= step /\ shown' = Brightness(now)
        BY <1>1, <1>3, <1>4, <1>9, <2>1
        DEF RampInv, Pending, Applied, Meant, NotBefore, NotAfter
    <2>4. toPc' = Append(toPc, answer)
        BY <1>4, <1>9, <2>1
    <2> HIDE DEF answer
    <2>5. RampTypeOK'
        BY <1>2, <1>3, <1>4, <2>2, <2>4, AppendItems DEF RampInv, RampTypeOK
    <2>6. NotBefore(queue', now)
        BY <1>5, <1>9, <2>1 DEF NotBefore, InOrder
    <2>7. NotBefore(toUno', now)
        BY <1>3, <1>4, <1>9, <2>1 DEF RampInv, Pending, NotBefore, InOrder
    <2>8. Answers(toPc', now)
        <3>1. /\ Len(toPc) \in Nat /\ Len(toPc') = Len(toPc) + 1
              /\ \A n \in 1 .. Len(toPc) : toPc'[n] = toPc[n]
              /\ toPc'[Len(toPc) + 1] = answer
            BY <1>2, <2>2, <2>4, AppendItems
        <3>2. ASSUME NEW i \in 1 .. Len(toPc') PROVE toPc'[i].sequence <= now
            <4>1. CASE i \in 1 .. Len(toPc)
                <5>1. toPc[i].sequence <= k /\ toPc[i] \in Responses
                    BY <1>1, <1>2, <4>1, ElementOfSeq DEF Applied, Answers
                <5>2. QED
                    BY <1>2, <2>2, <2>3, <3>1, <4>1, <5>1 DEF Responses, Steps
            <4>2. CASE i = Len(toPc) + 1
                BY <2>2, <3>1, <4>2 DEF Steps
            <4>3. QED
                BY <3>1, <4>1, <4>2
        <3>3. QED
            BY <3>2 DEF Answers
    <2>9. script' = "Acknowledged" => now = step'
        BY <1>1, <1>2, <1>4, <2>2, <2>3 DEF Applied, Steps
    <2>10. Applied(now)' /\ now \in 0 .. step'
        BY <1>2, <1>4, <2>2, <2>3, <2>6, <2>7, <2>8, <2>9 DEF Applied, Steps
    <2>11. QED
        BY <1>7, <2>5, <2>10 DEF RampInv
<1>10. QED
    BY <1>8, <1>9

(* No step of the script, the line, the loop or a handler breaks the ramp. *)
LEMMA RampStep ==
    ASSUME RampInv, [Next]_vars
    PROVE  RampInv'
<1>1. CASE UNCHANGED <<step, script, toUno, queue, toPc, shown>>
    BY <1>1 DEF RampInv, RampTypeOK, Pending, Applied
<1>2. CASE SendRequest \/ ReadResponse
    BY <1>2, SendRequestKeeps, ReadResponseKeeps
<1>3. CASE NextStep \/ GiveUp
    BY <1>3, ScriptKeeps
<1>4. CASE Disturb
    BY <1>4, DisturbKeeps
<1>5. CASE UartProcess
    BY <1>5, UartProcessKeeps
<1>6. CASE LedRequest
    BY <1>6, LedRequestKeeps
<1>7. \/ SendRequest \/ ReadResponse \/ NextStep \/ GiveUp \/ Disturb
      \/ UartProcess \/ LedRequest
      \/ UNCHANGED <<step, script, toUno, queue, toPc, shown>>
    BY DEF Next, vars, ramp, TimerEvent, TimerInterrupt, Tick, HeartbeatRun, LedDone
<1>8. QED
    BY <1>1, <1>2, <1>3, <1>4, <1>5, <1>6, <1>7

---------------------------------------------------------------------------
(* The theorems                                                            *)

(* The image starts with the LED dark and the script at brightness 0.      *)
LEMMA DemoStarts == Init => DemoInv
<1> SUFFICES ASSUME Init PROVE DemoInv
    OBVIOUS
<1>1. ClockModulus \in Nat /\ period_ms \in Nat \ {0} /\ MaxStall \in Nat /\ LastStep \in Nat
      /\ period_ms + MaxStall <= ClockModulus /\ MaxStall > 0
    BY DemoAssumption
<1>2. HeartbeatInv
    BY <1>1 DEF Init, HeartbeatInv
<1>3. LedInv
    BY DEF Init, LedInv, Leds, InitialLed
<1>4. RampTypeOK
    BY <1>1 DEF Init, RampTypeOK, Steps
<1>5. Pending
    BY DEF Init, Pending, Meant, Ordered, NotAfter
<1>6. Applied(0) /\ 0 \in 0 .. step
    BY <1>1, BrightnessNat DEF Init, Applied, NotBefore, Answers
<1>7. QED
    BY <1>2, <1>3, <1>4, <1>5, <1>6 DEF DemoInv, RampInv

(* The inductive invariant of the image, the line and the script holds.    *)
LEMMA DemoInvariant == Spec => []DemoInv
<1>1. Init => DemoInv
    BY DemoStarts
<1>2. DemoInv /\ [Next]_vars => DemoInv'
    <2> SUFFICES ASSUME DemoInv, [Next]_vars PROVE DemoInv'
        OBVIOUS
    <2>1. HeartbeatInv'
        BY HeartbeatStep DEF DemoInv
    <2>2. LedInv'
        BY LedStep DEF DemoInv, RampInv, RampTypeOK
    <2>3. RampInv'
        BY RampStep DEF DemoInv
    <2>4. QED
        BY <2>1, <2>2, <2>3 DEF DemoInv
<1>3. QED
    BY <1>1, <1>2, PTL DEF Spec

(* led_ramp.py never reports a brightness that is not the last applied,    *)
(* however often it repeats a request and whatever is lost, late, dropped  *)
(* at the full queue or broadcast by another tool.                         *)
THEOREM RampReportsWhatIsShown == Spec => []AcknowledgedIsShown
<1>1. DemoInv => AcknowledgedIsShown
    BY DEF DemoInv, RampInv, Applied, AcknowledgedIsShown
<1>2. QED
    BY <1>1, DemoInvariant, PTL

(* setBuiltinLedBrightness() leaves the two handlers of Timer 1 nothing to *)
(* undo: the port is steady at 0 and at 255, and the PWM runs in between.  *)
THEOREM LedIsAsApplied == Spec => []LedFollowsBrightness
<1>1. DemoInv => LedFollowsBrightness
    <2> SUFFICES ASSUME DemoInv PROVE LedFollowsBrightness
        OBVIOUS
    <2>1. CASE shown = 0
        BY <2>1 DEF DemoInv, LedInv, LedFollowsBrightness
    <2>2. CASE shown = 255
        BY <2>2 DEF DemoInv, LedInv, LedFollowsBrightness
    <2>3. CASE shown \notin {0, 255}
        BY <2>3 DEF DemoInv, LedInv, LedFollowsBrightness
    <2>4. QED
        BY <2>1, <2>2, <2>3
<1>2. QED
    BY <1>1, DemoInvariant, PTL

(* HeartbeatService::run() spaces its heartbeats by a period or more, and  *)
(* sends one at the first poll after it, for every width of the clock.     *)
THEOREM HeartbeatKeepsItsPeriod == Spec => []HeartbeatsAreSpaced
<1>1. DemoInv => HeartbeatsAreSpaced
    BY DemoAssumption DEF DemoInv, HeartbeatInv, HeartbeatsAreSpaced
<1>2. QED
    BY <1>1, DemoInvariant, PTL

============================================================================
