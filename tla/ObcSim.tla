------------------------------- MODULE ObcSim -------------------------------
(***************************************************************************)
(* sim/obc_sim.c : the platform driver.  One thread accepts a connection,  *)
(* restarts the flight application, and then lets select decide: nothing   *)
(* to read for a tick period is a minor cycle, something to read is a      *)
(* telecommand, cut out of the octet stream by the length its header       *)
(* declares.  After either the downlink queue is written out, and send     *)
(* waits while the ground leaves too much telemetry unread.                *)
(*                                                                         *)
(* The ground and the connection are the environment: octets it sends      *)
(* arrive in order, in segments of any of the sizes SEGMENTS; it reads     *)
(* telemetry when it likes, or never; it may close the connection, and any *)
(* system call may fail.  Options, socket set-up and logging come before   *)
(* Init or change no state.                                                *)
(***************************************************************************)
EXTENDS Obsw, TcWire, SequencesExt

CONSTANTS Packets,    \* the octet sequences the ground may send
          RX_SIZE,    \* sizeof(buf), PUS_MAX_PACKET_SIZE
          SEGMENTS,   \* sizes of the segments in which octets arrive
          SEND_ROOM,  \* unread packets of telemetry the connection holds before send waits
          WINDOW,     \* bound: most octets sent and not yet read
          STRAY       \* the same bound once a packet had a false length
ASSUME DriverAssumption == /\ Packets \subseteq Seq(Octet) /\ SEGMENTS \subseteq Nat \ {0}
                           /\ {RX_SIZE, WINDOW, STRAY} \subseteq Nat
                           /\ SEND_ROOM \in Nat \ {0}

VARIABLES pc,       \* where the thread is: accept, drain, select, header, body, exit
          conn,     \* the client: none, open, or closed by the ground
          unread,   \* packets of telemetry written that the ground has not read
          buf,      \* the header read of a telecommand whose body is being read
          uplink,   \* octets that can be read
          transit,  \* octets sent that have not arrived
          honest,   \* history: every packet sent on this connection has the length it declares
          due,      \* history: the packets sent and not yet handed over, while honest
          told      \* history: the alarm of the current excursion was written, or was disabled
sim_vars == <<pc, conn, unread, buf, uplink, transit, honest, due, told>>
all_vars == <<vars, sim_vars>>

stream_vars == <<buf, uplink, transit, honest, due>>

SimInit == /\ Init
           /\ pc = "accept" /\ conn = "none" /\ unread = 0
           /\ buf = <<>> /\ uplink = <<>> /\ transit = <<>>
           /\ honest = TRUE /\ due = <<>> /\ told = FALSE

-----------------------------------------------------------------------------
(* main and serve_client *)

\* accept succeeds; serve_client starts with obc_init.
Accept == /\ pc = "accept" /\ conn # "none"
          /\ obc_init
          /\ pc' = "drain" /\ told' = FALSE
          /\ UNCHANGED <<conn, unread, stream_vars>>

\* accept fails: the loop of main ends and with it the process.
AcceptFails == /\ pc = "accept" /\ pc' = "exit"
               /\ UNCHANGED <<vars, conn, unread, stream_vars, told>>

\* serve_client returns and main closes the socket; what was in the stream is lost,
\* either way.
HangUp == /\ pc' = "accept" /\ conn' = "none" /\ unread' = 0
          /\ buf' = <<>> /\ uplink' = <<>> /\ transit' = <<>>
          /\ honest' = TRUE /\ due' = <<>>
          /\ UNCHANGED told

Readable == uplink # <<>> \/ (conn = "closed" /\ transit = <<>>)

\* select times out: a minor cycle.
Tick == /\ pc = "select" /\ ~Readable
        /\ obc_tick
        /\ told' = IF alarm_latched' = PUS_FALSE THEN FALSE
                   ELSE told \/ OBC_EVT_TEMP_ALARM \notin evt_enabled
        /\ pc' = "drain"
        /\ UNCHANGED <<conn, unread, stream_vars>>

SelectReadable == /\ pc = "select" /\ Readable
                  /\ pc' = "header"
                  /\ UNCHANGED <<vars, conn, unread, stream_vars, told>>

\* select or recv reports an error.
LinkError == /\ pc \in {"select", "header", "body"}
             /\ HangUp /\ UNCHANGED vars

-----------------------------------------------------------------------------
(* drain_downlink *)

\* Mutant: one packet per turn of the loop.
AfterWrite_one_per_turn == "select"

\* The next place after a packet was written: the loop condition again.
AfterWrite == IF Len(queue) > 1 THEN "drain" ELSE "select"

\* send does not wait.
CanWrite == unread < SEND_ROOM

\* tm_queue_pop and write_all, which waits until there is room and has no time-out.
\* (The packet is out of the queue while send waits: nothing else looks at the queue.)
WriteOne == /\ pc = "drain" /\ DownlinkOne
            /\ CanWrite /\ unread' = unread + 1
            /\ told' = (told \/ LET p == Head(queue) IN
                                p.service = PUS_SERVICE_EVENT /\ p.data[1] = OBC_EVT_TEMP_ALARM)
            /\ pc' = AfterWrite
            /\ UNCHANGED <<conn, stream_vars>>

\* The packet has left the queue when write_all fails, at once or after a wait.
WriteFails == pc = "drain" /\ DownlinkOne /\ HangUp

NothingToWrite == /\ pc = "drain" /\ queue = <<>> /\ pc' = "select"
                  /\ UNCHANGED <<vars, conn, unread, stream_vars, told>>

-----------------------------------------------------------------------------
(* receive_tc and obc_process_tc; read_exact waits until it has what it needs *)

Declared(header) == ccsds_total_length(ccsds_unpack_primary(header))

Malformed(header) == \/ Declared(header) > RX_SIZE
                     \/ Declared(header) <= CCSDS_PRIMARY_HEADER_LEN

\* The packet is handed over and the first n octets of uplink are gone.
Process(packet, n) ==
  /\ pc' = "drain"
  /\ buf' = <<>> /\ uplink' = SubSeq(uplink, n + 1, Len(uplink))
  /\ due' = IF due = <<>> THEN <<>> ELSE Tail(due)
  /\ \E octets \in {packet} : \E raw \in {ReceivedTc(octets)} : obc_process_tc(raw)

\* The header alone goes to the acceptance checks when its length makes no sense.
ReadHeader ==
  /\ pc = "header" /\ Len(uplink) >= CCSDS_PRIMARY_HEADER_LEN
  /\ LET header == SubSeq(uplink, 1, CCSDS_PRIMARY_HEADER_LEN) IN
     IF Malformed(header) THEN Process(header, CCSDS_PRIMARY_HEADER_LEN)
     ELSE /\ buf' = header
          /\ uplink' = SubSeq(uplink, CCSDS_PRIMARY_HEADER_LEN + 1, Len(uplink))
          /\ pc' = "body"
          /\ UNCHANGED <<vars, due>>
  /\ UNCHANGED <<conn, unread, transit, honest, told>>

\* Mutant: the body is taken to be as long as the packet.
Missing_whole_packet == IF pc = "header" THEN CCSDS_PRIMARY_HEADER_LEN ELSE Declared(buf)

\* What read_exact has been asked for.
Missing == IF pc = "header" THEN CCSDS_PRIMARY_HEADER_LEN
           ELSE Declared(buf) - CCSDS_PRIMARY_HEADER_LEN

ReadBody == /\ pc = "body" /\ Len(uplink) >= Missing
            /\ Process(buf \o SubSeq(uplink, 1, Missing), Missing)
            /\ UNCHANGED <<conn, unread, transit, honest, told>>

\* recv returns 0 before read_exact is done.
EndOfStream == /\ pc \in {"header", "body"} /\ conn = "closed" /\ transit = <<>>
               /\ Len(uplink) < Missing
               /\ HangUp /\ UNCHANGED vars

-----------------------------------------------------------------------------
(* The ground *)

Connect == /\ pc # "exit" /\ conn = "none" /\ conn' = "open"
           /\ UNCHANGED <<vars, pc, unread, stream_vars, told>>

Close == /\ conn = "open" /\ conn' = "closed"
         /\ UNCHANGED <<vars, pc, unread, stream_vars, told>>

\* The ground reads a packet of telemetry, even one that has closed its sending side.
ReadTelemetry == /\ unread # 0 /\ unread' = unread - 1
                 /\ UNCHANGED <<vars, pc, conn, stream_vars, told>>

\* A packet the driver can tell from the next one: its length is what it declares
\* (the data length field counts the octets after the header, less one).
Honest(p) == /\ Len(p) \in CCSDS_PRIMARY_HEADER_LEN + 1 .. RX_SIZE
             /\ CCSDS_PRIMARY_HEADER_LEN + pus_get_u16(p, 5) + 1 = Len(p)

Send(p) == /\ pc # "exit" /\ conn = "open"
           /\ honest' = (honest /\ Honest(p))
           /\ Len(uplink \o transit \o p) <= IF honest' THEN WINDOW ELSE STRAY
           /\ transit' = transit \o p
           /\ due' = IF honest' THEN Append(due, p) ELSE <<>>
           /\ UNCHANGED <<vars, pc, conn, unread, buf, uplink, told>>

Arrive(n) == /\ transit # <<>>
             /\ LET k == Lesser(n, Len(transit)) IN
                /\ uplink' = uplink \o SubSeq(transit, 1, k)
                /\ transit' = SubSeq(transit, k + 1, Len(transit))
             /\ UNCHANGED <<vars, pc, conn, unread, buf, honest, due, told>>

Exited == pc = "exit" /\ UNCHANGED all_vars

Driver == \/ Accept \/ SelectReadable \/ WriteOne \/ NothingToWrite
          \/ ReadHeader \/ ReadBody \/ EndOfStream
Ground == Connect \/ Close \/ ReadTelemetry
          \/ (\E p \in Packets : Send(p)) \/ (\E n \in SEGMENTS : Arrive(n))

SimNext == \/ Driver \/ Tick
           \/ AcceptFails \/ LinkError \/ WriteFails
           \/ Ground \/ Exited
SimSpec == SimInit /\ [][SimNext]_all_vars

\* The thread runs when it can and TCP delivers what was sent, so both go on.  The
\* ground need not read: a write that waits is not enabled, so fairness does not end it.
\* A time-out needs a pause of the ground that lasts a tick period: a ground that pauses
\* again and again gets minor cycles again and again.
SimFairSpec == /\ SimSpec
               /\ WF_all_vars(Driver) /\ WF_all_vars(\E n \in SEGMENTS : Arrive(n))
               /\ SF_all_vars(Tick)

-----------------------------------------------------------------------------
\* SWREQ-ROB-030 and SWREQ-ROB-040: as long as the ground declares true lengths,
\* what is still to be read is exactly the packets not yet handed over.  However
\* the octets arrive, whichever packets are refused, receive_tc never loses, splits,
\* merges or reorders telecommands.
InStep == honest => buf \o uplink \o transit = FlattenSeq(due)

\* SWREQ-APP-070: the alarm is latched whether or not its event was queued, and is
\* not raised again.  Under the driver it cannot be lost: every minor cycle starts
\* on a drained queue, so by the next select the ground has been sent the alarm of
\* the excursion (unless it had disabled the event).
AlarmReachesGround == pc = "select" /\ alarm_latched = PUS_TRUE => told

\* SWREQ-ROB-030, and the robustness tests' "A rejection that also wedges the
\* receiver is not a rejection": after any sequence of telecommands with true
\* lengths, refused or not, the thread returns to select; it is never left waiting
\* for octets nobody will send.  The premise is about the ground: send in write_all has no
\* time-out, so a ground that leaves its telemetry unread for ever stops the thread,
\* whatever it sent; one that makes room again and again does not.
NeverWedged == []<>CanWrite => []<>(~honest \/ pc \in {"select", "accept", "exit"})

Idle == pc = "select" /\ ~Readable

\* SWREQ-APP-070 under the driver, where obc_tick runs only when the uplink is
\* quiet: if the ground pauses again and again, an over-temperature in NOMINAL mode
\* ends in SAFE mode with the heater off, unless the reading recovers or the
\* connection ends, however often NOMINAL is commanded.
HotUnitGoesSafe ==
  []<>Idle =>
    ((state.mode = OBC_MODE_NOMINAL /\ hal_temperature >= OBC_TEMP_ALARM_DC)
       ~> (\/ state.mode = OBC_MODE_SAFE /\ hal_heater = PUS_FALSE
           \/ hal_temperature < OBC_TEMP_ALARM_DC
           \/ pc \in {"accept", "exit"}))
=============================================================================
