----------------------------- MODULE SimSession -----------------------------
(***************************************************************************)
(* Two sessions of ReCapABR/sim_transport/sim_session.c, their peers set   *)
(* to each other, and the UDP network between them.  Everything a session  *)
(* does runs under its mutex, so each call of the application, each        *)
(* datagram handled and each heartbeat is one step.                        *)
(*                                                                         *)
(* Video, its acknowledgements, feedback, FIR, padding and FEC datagrams   *)
(* belong to the sender and the receiver: here a session only has one or   *)
(* has not.  Round trip times and statistics are left out.                 *)
(*                                                                         *)
(* Time is counted in quarters of a second, the ping's period.  A session  *)
(* keeps the quarters since its last command (now_ts - commad_ts) up to    *)
(* the four after which a connect or disconnect is due again.              *)
(***************************************************************************)
EXTENDS Integers, FiniteSets

CONSTANTS
  Ends,              \* the two sessions
  Callers,           \* those whose application calls sim_connect
  MaxCalls,          \* bound: calls placed in all
  MaxCreates,        \* bound: times a destroyed session is created again
  GiveUp,            \* quarters of resending without an answer: 40 in the code
  InterruptResends,  \* resends after which the network counts as interrupted: 12 in the code
  Beats,             \* quarters that may pass between two heartbeats
  Duplicating,       \* a datagram may arrive again, however late
  Losing             \* a datagram may be lost (with Duplicating, it may just never arrive)

ASSUME EndsAssumption ==
  /\ Callers \subseteq Ends
  /\ \E a, b \in Ends : a # b /\ Ends = {a, b}
ASSUME BoundsAssumption == MaxCalls \in Nat /\ MaxCreates \in Nat
ASSUME TimersAssumption ==
  /\ GiveUp \in Nat /\ InterruptResends \in Nat /\ InterruptResends < GiveUp
  /\ Beats \subseteq Nat \ {0}
ASSUME NetworkAssumption == Duplicating \in BOOLEAN /\ Losing \in BOOLEAN

Peer(n) == CHOOSE m \in Ends : m # n

PING_TICK    == 1     \* TICK_DELAY_MS / 4
COMMAND_TICK == 4     \* TICK_DELAY_MS

NoCid == 0   \* a call id no datagram carries; those of calls are 1, 2, ..., the draws of rand()

VARIABLES
  ses,      \* the sessions
  app,      \* what each application has been told by return values and notifications
  up,       \* the session exists, and its thread runs
  creates,  \* times a session was created again
  calls,    \* call ids drawn so far
  silence,  \* quarters since a session heard from its peer or placed its call
  net       \* datagrams in flight

vars == <<ses, app, up, creates, calls, silence, net>>

Session == [state     : {"idle", "connecting", "connected", "disconnected"},
            scid      : Nat,         \* our call
            rcid      : Nat,         \* the call our receiver belongs to
            sender    : BOOLEAN,     \* s->sender # NULL
            receiver  : BOOLEAN,     \* s->receiver # NULL
            interrupt : {"normal", "interrupt", "recover"},
            resend    : Nat,
            waited    : 0 .. COMMAND_TICK]

(* call: our call; playing: between start and stop of play; recording: the  *)
(* camera runs.                                                             *)
Application == [call      : {"none", "dialing", "up", "closing"},
                playing   : BOOLEAN,
                recording : BOOLEAN]

Message == [type : {"CONNECT", "CONNECT_ACK", "DISCONNECT", "DISCONNECT_ACK", "PING", "PONG"},
            to   : Ends,
            cid  : Nat]

Msg(t, to, cid) == [type |-> t, to |-> to, cid |-> cid]

-----------------------------------------------------------------------------
(* sim_session_reset, and the session sim_session_create returns.           *)
sim_session_reset ==
  [state |-> "idle", scid |-> NoCid, rcid |-> NoCid, sender |-> FALSE, receiver |-> FALSE,
   interrupt |-> "normal", resend |-> 0, waited |-> 0]

(* Mutant: the resends left are counted down.                               *)
Commanded_CountsDown(s) == [s EXCEPT !.waited = 0, !.resend = s.resend - 1]

(* Every command sent restarts the timer they share and counts as a resend. *)
Commanded(s) == [s EXCEPT !.waited = 0, !.resend = s.resend + 1]

(* Mutant: hearing from the peer does not restart the count of resends.     *)
Heard_KeepsResend(s) == [s EXCEPT !.interrupt = IF s.interrupt = "interrupt" THEN "recover" ELSE s.interrupt]

(* sim_session_process, ahead of the handlers: the network is back.         *)
Heard(s) == [s EXCEPT !.interrupt = IF s.interrupt = "interrupt" THEN "recover" ELSE s.interrupt,
                      !.resend = 0]

Watched(s) == s.state # "idle" \/ s.sender \/ s.receiver

(* The applications of sim_test: what a notification changes.               *)
NewApp      == [call |-> "none", playing |-> FALSE, recording |-> FALSE]
Connected(a) == [a EXCEPT !.call = "up", !.recording = TRUE]
Ended(a)     == [a EXCEPT !.call = "none", !.recording = FALSE]
Started(a)   == [a EXCEPT !.playing = TRUE]
Stopped(a)   == [a EXCEPT !.playing = FALSE]
Paused(a)    == [a EXCEPT !.recording = FALSE]
Resumed(a)   == [a EXCEPT !.recording = TRUE]

(* Mutant: the network comes back without a notification.                   *)
HeardApp_Untold(n) == app[n]

HeardApp(n)  == IF ses[n].interrupt = "interrupt" THEN Resumed(app[n]) ELSE app[n]

-----------------------------------------------------------------------------
Init ==
  /\ ses = [n \in Ends |-> sim_session_reset]
  /\ app = [n \in Ends |-> NewApp]
  /\ up = [n \in Ends |-> TRUE]
  /\ creates = 0
  /\ calls = 0
  /\ silence = [n \in Ends |-> 0]
  /\ net = {}

(* Mutant: a call may be placed while the last one is still ending.         *)
sim_session_connect_TooEarly(n) ==
  /\ up[n] /\ n \in Callers /\ calls < MaxCalls
  /\ ses[n].state \in {"idle", "disconnected"}
  /\ calls' = calls + 1
  /\ ses' = [ses EXCEPT ![n] = Commanded([@ EXCEPT !.state = "connecting",
                                                   !.resend = 0,
                                                   !.scid = calls + 1])]
  /\ app' = [app EXCEPT ![n].call = "dialing"]
  /\ net' = net \cup {Msg("CONNECT", Peer(n), calls + 1)}
  /\ silence' = [silence EXCEPT ![n] = 0]
  /\ UNCHANGED <<up, creates>>

(* sim_session_connect: a new call id, a first CONNECT.                     *)
sim_session_connect(n) ==
  /\ up[n] /\ n \in Callers /\ calls < MaxCalls
  /\ ses[n].state = "idle"
  /\ calls' = calls + 1
  /\ ses' = [ses EXCEPT ![n] = Commanded([@ EXCEPT !.state = "connecting",
                                                   !.resend = 0,
                                                   !.scid = calls + 1])]
  /\ app' = [app EXCEPT ![n].call = "dialing"]
  /\ net' = net \cup {Msg("CONNECT", Peer(n), calls + 1)}
  /\ silence' = [silence EXCEPT ![n] = 0]
  /\ UNCHANGED <<up, creates>>

(* sim_session_disconnect: refused when there is no call or it ends already. *)
sim_session_disconnect(n) ==
  /\ up[n]
  /\ ses[n].state \in {"connecting", "connected"}
  /\ ses' = [ses EXCEPT ![n] = Commanded([@ EXCEPT !.state = "disconnected", !.resend = 0])]
  /\ app' = [app EXCEPT ![n].call = "closing"]
  /\ net' = net \cup {Msg("DISCONNECT", Peer(n), ses[n].scid)}
  /\ UNCHANGED <<up, creates, calls, silence>>

(* sim_session_destroy says nothing to the peer; the application is gone.   *)
sim_session_destroy(n) ==
  /\ up[n]
  /\ up' = [up EXCEPT ![n] = FALSE]
  /\ ses' = [ses EXCEPT ![n] = sim_session_reset]
  /\ app' = [app EXCEPT ![n] = NewApp]
  /\ silence' = [silence EXCEPT ![n] = 0]
  /\ UNCHANGED <<creates, calls, net>>

sim_session_create(n) ==
  /\ ~up[n] /\ creates < MaxCreates
  /\ up' = [up EXCEPT ![n] = TRUE]
  /\ creates' = creates + 1
  /\ UNCHANGED <<ses, app, calls, silence, net>>

-----------------------------------------------------------------------------
(* The datagram m reaches its session, which sends the given answers.       *)
Arrives(m, answers) ==
  /\ m \in net
  /\ up[m.to]
  /\ net' = (IF Duplicating THEN net ELSE net \ {m}) \cup answers
  /\ silence' = [silence EXCEPT ![m.to] = 0]
  /\ UNCHANGED <<up, creates, calls>>

(* A receiver is created, or an existing one started afresh for this call.  *)
process_sim_connect(n, m) ==
  /\ m.type = "CONNECT"
  /\ Arrives(m, {Msg("CONNECT_ACK", Peer(n), m.cid)})
  /\ ses' = [ses EXCEPT ![n] = [Heard(@) EXCEPT !.receiver = TRUE, !.rcid = m.cid, !.waited = 0]]
  /\ app' = [app EXCEPT ![n] = IF ses[n].receiver THEN HeardApp(n) ELSE Started(HeardApp(n))]

(* The id in the acknowledgement is not looked at.                          *)
process_sim_connect_ack(n, m) ==
  /\ m.type = "CONNECT_ACK"
  /\ Arrives(m, {})
  /\ IF ses[n].state = "connecting"
     THEN /\ ses' = [ses EXCEPT ![n] = [Heard(@) EXCEPT !.state = "connected",
                                                        !.sender = TRUE,
                                                        !.interrupt = "recover"]]
          /\ app' = [app EXCEPT ![n] = Connected(HeardApp(n))]
     ELSE /\ ses' = [ses EXCEPT ![n] = Heard(@)]
          /\ app' = [app EXCEPT ![n] = HeardApp(n)]

(* Mutant: any DISCONNECT ends the receiver.                                *)
process_sim_disconnect_AnyCall(n, m) ==
  /\ m.type = "DISCONNECT"
  /\ Arrives(m, {Msg("DISCONNECT_ACK", Peer(n), m.cid)})
  /\ ses' = [ses EXCEPT ![n] = [Heard(@) EXCEPT !.receiver = FALSE]]
  /\ app' = [app EXCEPT ![n] = Stopped(HeardApp(n))]

(* Always acknowledged; the receiver goes if it belongs to this call.       *)
process_sim_disconnect(n, m) ==
  /\ m.type = "DISCONNECT"
  /\ Arrives(m, {Msg("DISCONNECT_ACK", Peer(n), m.cid)})
  /\ LET gone == ses[n].receiver /\ ses[n].rcid = m.cid
     IN  /\ ses' = [ses EXCEPT ![n] = [Heard(ses[n]) EXCEPT !.receiver = IF gone THEN FALSE ELSE @]]
         /\ app' = [app EXCEPT ![n] = IF gone THEN Stopped(HeardApp(n)) ELSE HeardApp(n)]

(* The whole session is reset, a receiver it still has included.            *)
process_sim_disconnect_ack(n, m) ==
  /\ m.type = "DISCONNECT_ACK"
  /\ Arrives(m, {})
  /\ IF ses[n].state = "disconnected"
     THEN /\ ses' = [ses EXCEPT ![n] = sim_session_reset]
          /\ app' = [app EXCEPT ![n] = Ended(HeardApp(n))]
     ELSE /\ ses' = [ses EXCEPT ![n] = Heard(@)]
          /\ app' = [app EXCEPT ![n] = HeardApp(n)]

process_sim_ping(n, m) ==
  /\ m.type = "PING"
  /\ Arrives(m, {Msg("PONG", Peer(n), NoCid)})
  /\ ses' = [ses EXCEPT ![n] = Heard(@)]
  /\ app' = [app EXCEPT ![n] = HeardApp(n)]

process_sim_pong(n, m) ==
  /\ m.type = "PONG"
  /\ Arrives(m, {})
  /\ ses' = [ses EXCEPT ![n] = Heard(@)]
  /\ app' = [app EXCEPT ![n] = HeardApp(n)]

sim_session_process(m) ==
  \/ process_sim_connect(m.to, m)
  \/ process_sim_connect_ack(m.to, m)
  \/ process_sim_disconnect(m.to, m)
  \/ process_sim_disconnect_ack(m.to, m)
  \/ process_sim_ping(m.to, m)
  \/ process_sim_pong(m.to, m)

Lose(m) ==
  /\ Losing /\ m \in net
  /\ net' = net \ {m}
  /\ UNCHANGED <<ses, app, up, creates, calls, silence>>

-----------------------------------------------------------------------------
(* The heartbeat.  Its two timers share commad_ts, so one fires at most:    *)
(* the command's if it is due, else the ping's.                             *)

Aged(s, d) == [s EXCEPT !.waited = IF s.waited + d < COMMAND_TICK THEN s.waited + d ELSE COMMAND_TICK]

CommandDue(s) == s.state \in {"connecting", "disconnected"} /\ s.waited >= COMMAND_TICK
PingDue(s)    == ~CommandDue(s) /\ (s.sender \/ s.receiver) /\ s.waited >= PING_TICK

(* Mutants: the end is not told to the caller, to the player, or the        *)
(* receiver is left behind.                                                 *)
GiveUpCall_CallerUntold(n) ==
  /\ ses' = [ses EXCEPT ![n] = sim_session_reset]
  /\ app' = [app EXCEPT ![n] = IF ses[n].receiver THEN Stopped(@) ELSE @]
  /\ UNCHANGED net

GiveUpCall_PlayerUntold(n) ==
  /\ ses' = [ses EXCEPT ![n] = sim_session_reset]
  /\ app' = [app EXCEPT ![n] = Ended(@)]
  /\ UNCHANGED net

GiveUpCall_KeepsReceiver(n) ==
  /\ ses' = [ses EXCEPT ![n] = [sim_session_reset EXCEPT !.receiver = ses[n].receiver]]
  /\ app' = [app EXCEPT ![n] = Ended(@)]
  /\ UNCHANGED net

(* sim_session_state_timer, once too many resends went unanswered.          *)
GiveUpCall(n) ==
  /\ ses' = [ses EXCEPT ![n] = sim_session_reset]
  /\ app' = [app EXCEPT ![n] = IF ses[n].receiver THEN Stopped(Ended(@)) ELSE Ended(@)]
  /\ UNCHANGED net

(* Mutant: a command is resent without end.                                 *)
ResendCommand_ForEver(n, s) ==
  /\ CommandDue(s)
  /\ ses' = [ses EXCEPT ![n] = [Commanded(s) EXCEPT !.resend = s.resend]]
  /\ net' = net \cup {Msg(IF s.state = "connecting" THEN "CONNECT" ELSE "DISCONNECT",
                          Peer(n), s.scid)}
  /\ UNCHANGED app

ResendCommand(n, s) ==
  /\ CommandDue(s)
  /\ IF s.resend * COMMAND_TICK < GiveUp
     THEN /\ ses' = [ses EXCEPT ![n] = Commanded(s)]
          /\ net' = net \cup {Msg(IF s.state = "connecting" THEN "CONNECT" ELSE "DISCONNECT",
                                  Peer(n), s.scid)}
          /\ UNCHANGED app
     ELSE GiveUpCall(n)

(* Mutant: the ping's resends are not counted past the interruption.        *)
sim_session_send_ping_ForEver(n, s) ==
  /\ PingDue(s)
  /\ LET cut == s.resend + 1 > InterruptResends
     IN  /\ ses' = [ses EXCEPT ![n] = [Commanded(s) EXCEPT !.interrupt = IF cut THEN "interrupt" ELSE @,
                                                           !.resend = IF cut THEN s.resend ELSE @]]
         /\ app' = [app EXCEPT ![n] = IF cut THEN Paused(@) ELSE @]
         /\ net' = net \cup {Msg("PING", Peer(n), NoCid)}

sim_session_send_ping(n, s) ==
  /\ PingDue(s)
  /\ IF s.resend * PING_TICK < GiveUp
     THEN LET cut == s.resend + 1 > InterruptResends
          IN  /\ ses' = [ses EXCEPT ![n] = [Commanded(s) EXCEPT !.interrupt = IF cut THEN "interrupt" ELSE @]]
              /\ app' = [app EXCEPT ![n] = IF cut THEN Paused(@) ELSE @]
              /\ net' = net \cup {Msg("PING", Peer(n), NoCid)}
     ELSE GiveUpCall(n)

NothingDue(n, s) ==
  /\ ~CommandDue(s) /\ ~PingDue(s)
  /\ ses' = [ses EXCEPT ![n] = s]
  /\ UNCHANGED <<app, net>>

sim_session_heartbeat(n, d) ==
  /\ up[n]
  /\ Watched(ses[n])
  /\ \/ ResendCommand(n, Aged(ses[n], d))
     \/ sim_session_send_ping(n, Aged(ses[n], d))
     \/ NothingDue(n, Aged(ses[n], d))
  /\ silence' = [silence EXCEPT ![n] = IF @ + d < GiveUp THEN @ + d ELSE GiveUp]
  /\ UNCHANGED <<up, creates, calls>>

-----------------------------------------------------------------------------
Next ==
  \/ \E n \in Ends : \/ sim_session_connect(n)
                     \/ sim_session_disconnect(n)
                     \/ sim_session_destroy(n)
                     \/ sim_session_create(n)
                     \/ \E d \in Beats : sim_session_heartbeat(n, d)
  \/ \E m \in net : sim_session_process(m) \/ Lose(m)

Spec == Init /\ [][Next]_vars

(* The session's thread wakes at least every 5 ms, so heartbeats go on as   *)
(* long as it lives; the network loses datagrams, but not every copy of a   *)
(* connect or disconnect, or of its acknowledgement, sent again and again.  *)
Commands ==
  [type : {"CONNECT", "DISCONNECT"}, to : {Peer(n) : n \in Callers}, cid : 1 .. MaxCalls]
    \cup [type : {"CONNECT_ACK", "DISCONNECT_ACK"}, to : Callers, cid : 1 .. MaxCalls]

Fairness ==
  /\ \A n \in Ends : WF_vars(\E d \in Beats : sim_session_heartbeat(n, d))
  /\ \A m \in Commands : SF_vars(m \in net /\ sim_session_process(m))

FairSpec == Spec /\ Fairness

-----------------------------------------------------------------------------
(* The variables have the types of sim_session_t and of the datagrams.      *)
TypeOK ==
  /\ ses \in [Ends -> Session]
  /\ app \in [Ends -> Application]
  /\ up \in [Ends -> BOOLEAN]
  /\ creates \in 0 .. MaxCreates
  /\ calls \in 0 .. MaxCalls
  /\ silence \in [Ends -> 0 .. GiveUp]
  /\ net \subseteq Message

(* A session has a sender from the acknowledgement of its call until the    *)
(* call is reset, through every handler and timer: sim_session_send_video   *)
(* always finds one, and no idle or connecting session keeps one.           *)
SenderOfCall == \A n \in Ends :
  /\ ses[n].state = "connected" => ses[n].sender
  /\ ses[n].sender => ses[n].state \in {"connected", "disconnected"}

(* What the application knows of its call from return values and            *)
(* notifications is the session's state: no end of a call goes untold.      *)
CallKnown == \A n \in Ends :
  app[n].call = CASE ses[n].state = "idle"         -> "none"
                  [] ses[n].state = "connecting"   -> "dialing"
                  [] ses[n].state = "connected"    -> "up"
                  [] ses[n].state = "disconnected" -> "closing"

(* The application plays video exactly while its session has a receiver.    *)
PlayKnown == \A n \in Ends : app[n].playing <=> ses[n].receiver

(* While the call is up the camera runs exactly when the network is not     *)
(* interrupted: no resume notification is missed, none comes too early.     *)
RecordingExact == \A n \in Ends :
  ses[n].state = "connected" => (app[n].recording <=> ses[n].interrupt # "interrupt")

GivesUp(n) ==
  /\ Watched(ses[n]) /\ ses'[n] = sim_session_reset
  /\ up'[n] /\ silence'[n] > 0

(* A session gives up on its peer only after hearing nothing from it for    *)
(* the whole of the resending time, whichever mix of connects, disconnects, *)
(* pings and state changes the shared counter went through.                 *)
GivesUpOnSilence == [][\A n \in Ends : GivesUp(n) => silence'[n] >= GiveUp]_vars

(* While a caller is connected, the receiver of that very call goes only    *)
(* by its own end's doing: no late or repeated DISCONNECT of another call   *)
(* takes it away.                                                           *)
CallSurvives == [][\A n \in Ends :
  /\ ses[n].receiver /\ ses[Peer(n)].state = "connected"
  /\ ses[n].rcid = ses[Peer(n)].scid
  /\ ~ses'[n].receiver
  => GivesUp(n) \/ ~up'[n] \/ ses[n].state = "disconnected"]_vars

(* A call being placed is answered, refused, given up or cancelled.         *)
ConnectResolves == \A n \in Ends :
  ses[n].state = "connecting" ~> ses[n].state # "connecting"

(* An interrupted session recovers or ends: the camera is not paused for    *)
(* ever with the call still up.                                             *)
InterruptResolves == \A n \in Ends :
  ses[n].interrupt = "interrupt" ~> ses[n].interrupt # "interrupt"

(* No session waits for ever: for the answer to its call, or for the network *)
(* to be back.                                                              *)
WaitingResolves == ConnectResolves /\ InterruptResolves

(* When the peer is gone for good, a session releases what it holds for it. *)
SilentPeerReleased == \A n \in Ends :
  <>[](~up[Peer(n)]) => <>[](~ses[n].sender /\ ~ses[n].receiver)

(* A call that the application ends is over some time.                      *)
DisconnectResolves == \A n \in Ends :
  ses[n].state = "disconnected" ~> ses[n].state # "disconnected"
=============================================================================
