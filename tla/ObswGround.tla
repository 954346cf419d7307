----------------------------- MODULE ObswGround -----------------------------
(***************************************************************************)
(* The flight application with the ground segment at the other end of the  *)
(* link: what an operator can conclude from the telemetry received so far. *)
(* The added variables only observe; every step is a step of Obsw.         *)
(***************************************************************************)
EXTENDS ObswEnv

VARIABLES gnd,     \* what the events received tell: mode, heater, overflow count
          muted,   \* some event has been disabled since the last boot
          alarms   \* temperature alarms queued in the current excursion
ground_vars == <<gnd, muted, alarms>>

AfterBoot == [mode |-> OBC_MODE_SAFE, heater |-> PUS_FALSE, overflow |-> 0]

GInit == Init /\ gnd = AfterBoot /\ muted = FALSE /\ alarms = 0

IsEvent(p, id) == p.service = PUS_SERVICE_EVENT /\ p.data[1] = id

\* What the ground knows once packet p has arrived.
Learn(g, p) ==
  CASE IsEvent(p, OBC_EVT_BOOT_COMPLETED)    -> AfterBoot
    [] IsEvent(p, OBC_EVT_MODE_CHANGED)      -> [g EXCEPT !.mode = p.data[2]]
    [] IsEvent(p, OBC_EVT_HEATER_SWITCHED)   -> [g EXCEPT !.heater = p.data[2]]
    [] IsEvent(p, OBC_EVT_TM_QUEUE_OVERFLOW) -> [g EXCEPT !.overflow = p.data[2]]
    [] OTHER -> g

Newly(id) == {i \in Len(queue) + 1 .. Len(queue') : IsEvent(queue'[i], id)}

GProcessTc == /\ \E raw \in Telecommands : obc_process_tc(raw)
              /\ muted' = (muted \/ evt_enabled' # AllEvents)
              /\ UNCHANGED <<gnd, alarms>>

GTick == /\ obc_tick
         /\ alarms' = IF hal_temperature < OBC_TEMP_HEATER_OFF_DC THEN 0
                      ELSE alarms + Cardinality(Newly(OBC_EVT_TEMP_ALARM))
         /\ UNCHANGED <<gnd, muted>>

GReceive == /\ DownlinkOne
            /\ gnd' = Learn(gnd, Head(queue))
            /\ UNCHANGED <<muted, alarms>>

\* A reconnection: the packets still queued are lost with the old connection.
GReconnect == obc_init /\ gnd' = AfterBoot /\ muted' = FALSE /\ alarms' = 0

GNext == GProcessTc \/ GTick \/ GReceive \/ GReconnect
g_vars == <<vars, ground_vars>>
GSpec == GInit /\ [][GNext]_g_vars

\* The driver (ObcSim) runs a minor cycle in every pause of the ground and writes the
\* queue out after every step; here a ground that pauses again and again.  Commands
\* and reconnections need never come.
GFairSpec == GSpec /\ WF_g_vars(GTick) /\ WF_g_vars(GReceive)

-----------------------------------------------------------------------------
\* What the ground knows after each of the packets, if it knew g before the first.
Heard(g, packets) ==
  LET after[i \in 0 .. Len(packets)] ==
        IF i = 0 THEN g ELSE Learn(after[i - 1], packets[i])
  IN after

\* The ground's knowledge when the first k queued packets have arrived too.
ViewAfter(k) == Heard(gnd, queue)[k]
View == ViewAfter(Len(queue))

\* SWREQ-APP-030 and SWREQ-APP-130 together: as long as nothing was dropped and
\* no event disabled, the mode and heater events queued and received, read in
\* order, give the unit's present mode and heater line, and every essential
\* housekeeping report on the way agrees with the events before it.
EventsTrackUnit ==
  ~muted /\ overflows = 0 =>
    /\ View.mode = state.mode /\ View.heater = hal_heater
    /\ \A i \in DOMAIN queue :
         LET p == queue[i] IN
         p.service = PUS_SERVICE_HOUSEKEEPING /\ p.data[1] = OBC_HK_SID_ESSENTIAL
           => p.data[2] = ViewAfter(i - 1).mode /\ p.data[5] = ViewAfter(i - 1).heater

\* SWREQ-APP-120: a sampled overflow count that still stands has been reported.
\* The report may itself be dropped by the full queue, but that drop changes the
\* counter and so causes another report, as long as the counter has not saturated.
OverflowNeverForgotten ==
  ~muted /\ overflows = last_overflow /\ overflows < COUNTER_MAX
    => View.overflow = overflows

\* The same without the saturation proviso, as SWREQ-APP-120 states it: "shall
\* report a low severity event when the downlink queue overflow counter changes,
\* once the queue has room again".
OverflowNeverForgottenAtAll ==
  ~muted /\ overflows = last_overflow /\ Len(queue) < DEPTH => View.overflow = overflows

\* SWREQ-APP-070: "shall report that event once per excursion", however often the
\* ground commands NOMINAL again before the unit has cooled below 25.0 degrees: never
\* twice, and (nothing dropped, no event disabled) never not at all, for the latch does
\* not stand without an alarm of this excursion, so no old one silences a new one.
AlarmOncePerExcursion ==
  /\ alarms <= 1
  /\ ~muted /\ overflows = 0 /\ alarm_latched = PUS_TRUE => alarms = 1

\* SWREQ-APP-120 as a promise to the ground: once a packet has been dropped the
\* ground comes to know the count of dropped packets, unless the counter
\* saturates, an event is disabled, or a reconnection clears the counter.
OverflowReachesGround ==
  (overflows > 0) ~> (\/ gnd.overflow = overflows \/ overflows \in {0, COUNTER_MAX}
                      \/ muted)
=============================================================================
