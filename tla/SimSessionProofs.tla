-------------------------- MODULE SimSessionProofs --------------------------
(***************************************************************************)
(* Proofs about SimSession, for any number of calls, any resending limits  *)
(* and a network that loses, delays, repeats and reorders at will.  The    *)
(* invariant has a part that holds of each session with its application    *)
(* (Good) and a part about the DISCONNECTs in flight (EndedCalls).  With   *)
(* one caller, PlayInv holds too; with a heartbeat in every quarter of a   *)
(* second, SilenceInv.                                                     *)
(***************************************************************************)
EXTENDS SimSession, TLAPS

(* One session and what its application knows of it.                        *)
Good(s, a) ==
  /\ s \in Session /\ a \in Application
  /\ s.state = "connected" => s.sender
  /\ s.sender => s.state \in {"connected", "disconnected"}
  /\ a.call = CASE s.state = "idle"         -> "none"
                [] s.state = "connecting"   -> "dialing"
                [] s.state = "connected"    -> "up"
                [] s.state = "disconnected" -> "closing"
  /\ s.state = "connected" => (a.recording <=> s.interrupt # "interrupt")
  /\ s.state # "idle" => s.scid # NoCid

LEMMA PeerIsOther ==
  \A n \in Ends : Peer(n) \in Ends /\ Peer(n) # n /\ Peer(Peer(n)) = n
<1>1. PICK a, b \in Ends : a # b /\ Ends = {a, b}
  BY EndsAssumption
<1>2. ASSUME NEW n \in Ends PROVE Peer(n) \in Ends /\ Peer(n) # n
  <2>1. \E m \in Ends : m # n
    BY <1>1
  <2>2. QED
    BY <2>1 DEF Peer
<1>3. QED
  BY <1>1, <1>2

-----------------------------------------------------------------------------
(* What the handlers and timers make of one session and its application.    *)

LEMMA ResetGood == Good(sim_session_reset, NewApp)
BY DEF Good, sim_session_reset, NewApp, Session, Application, NoCid, COMMAND_TICK

LEMMA ResetEnded ==
  ASSUME NEW a \in Application
  PROVE  Good(sim_session_reset, Ended(a)) /\ Good(sim_session_reset, Stopped(Ended(a)))
<1>1. Ended(a) \in Application /\ Stopped(Ended(a)) \in Application
  BY DEF Ended, Stopped, Application
<1>2. Ended(a).call = "none" /\ Stopped(Ended(a)).call = "none"
  BY DEF Ended, Stopped, Application
<1>3. sim_session_reset \in Session
  BY ResetGood DEF Good
<1>4. /\ sim_session_reset.state = "idle" /\ ~sim_session_reset.sender
  BY DEF sim_session_reset
<1>5. QED
  BY <1>1, <1>2, <1>3, <1>4 DEF Good

(* The session as the handlers find it, and what its application knows then. *)
LEMMA HeardGood ==
  ASSUME NEW s, NEW a, Good(s, a)
  PROVE  LET h == Heard(s)
             b == IF s.interrupt = "interrupt" THEN Resumed(a) ELSE a
         IN  /\ Good(h, b) /\ h.interrupt # "interrupt"
             /\ h.state = s.state /\ h.scid = s.scid /\ h.rcid = s.rcid
             /\ h.receiver = s.receiver /\ h.sender = s.sender
             /\ h.waited = s.waited /\ h.resend = 0
BY DEF Good, Heard, Resumed, Session, Application

LEMMA ReceiverGood ==
  ASSUME NEW s, NEW a, Good(s, a), NEW c \in Nat
  PROVE  LET t == [s EXCEPT !.receiver = TRUE, !.rcid = c, !.waited = 0]
         IN  Good(t, a) /\ Good(t, Started(a)) /\ t.state = s.state /\ t.scid = s.scid
<1> DEFINE t == [s EXCEPT !.receiver = TRUE, !.rcid = c, !.waited = 0]
<1>1. s \in Session /\ 0 \in 0 .. COMMAND_TICK
  BY DEF Good, COMMAND_TICK
<1>2. /\ t \in Session /\ t.state = s.state /\ t.scid = s.scid
      /\ t.sender = s.sender /\ t.interrupt = s.interrupt
  BY <1>1 DEF Session
<1>3. a \in Application
  BY DEF Good
<1>4. /\ Started(a) \in Application /\ Started(a).call = a.call
      /\ Started(a).recording = a.recording
  BY <1>3 DEF Started, Application
<1> HIDE DEF t
<1>5. Good(t, a)
  BY <1>2 DEF Good
<1>6. Good(t, Started(a))
  BY <1>2, <1>4, <1>5 DEF Good
<1>7. QED
  BY <1>2, <1>5, <1>6 DEF t

LEMMA StoppedGood ==
  ASSUME NEW s, NEW a, Good(s, a), NEW g \in BOOLEAN
  PROVE  LET t == [s EXCEPT !.receiver = IF g THEN FALSE ELSE @]
         IN  Good(t, a) /\ Good(t, Stopped(a)) /\ t.state = s.state /\ t.scid = s.scid
BY DEF Good, Stopped, Session, Application

LEMMA ConnectedGood ==
  ASSUME NEW s, NEW a, Good(s, a), s.state = "connecting"
  PROVE  LET t == [s EXCEPT !.state = "connected", !.sender = TRUE, !.interrupt = "recover"]
         IN  Good(t, Connected(a)) /\ t.state = "connected" /\ t.scid = s.scid
BY DEF Good, Connected, Session, Application

LEMMA CommandedGood ==
  ASSUME NEW s, NEW a, Good(s, a)
  PROVE  /\ Good(Commanded(s), a)
         /\ Commanded(s).state = s.state /\ Commanded(s).scid = s.scid
<1>1. s \in Session /\ 0 \in 0 .. COMMAND_TICK
  BY DEF Good, COMMAND_TICK
<1>2. s.resend + 1 \in Nat
  BY <1>1 DEF Session
<1>3. /\ Commanded(s) \in Session /\ Commanded(s).state = s.state /\ Commanded(s).scid = s.scid
      /\ Commanded(s).sender = s.sender /\ Commanded(s).interrupt = s.interrupt
  BY <1>1, <1>2 DEF Commanded, Session
<1>4. QED
  BY <1>3 DEF Good

LEMMA PlacedGood ==
  ASSUME NEW s, NEW a, Good(s, a), s.state = "idle", NEW c \in Nat, c # NoCid
  PROVE  LET t == [s EXCEPT !.state = "connecting", !.resend = 0, !.scid = c]
         IN  Good(t, [a EXCEPT !.call = "dialing"]) /\ t.state = "connecting" /\ t.scid = c
BY DEF Good, Session, Application

LEMMA LeavingGood ==
  ASSUME NEW s, NEW a, Good(s, a), s.state \in {"connecting", "connected"}
  PROVE  LET t == [s EXCEPT !.state = "disconnected", !.resend = 0]
         IN  Good(t, [a EXCEPT !.call = "closing"]) /\ t.state = "disconnected" /\ t.scid = s.scid
BY DEF Good, Session, Application

LEMMA AgedGood ==
  ASSUME NEW s, NEW a, Good(s, a), NEW d \in Nat
  PROVE  /\ Good(Aged(s, d), a)
         /\ Aged(s, d).state = s.state /\ Aged(s, d).scid = s.scid
BY DEF Good, Aged, Session, COMMAND_TICK

LEMMA PingedGood ==
  ASSUME NEW s, NEW a, Good(s, a), NEW cut \in BOOLEAN
  PROVE  LET t == [Commanded(s) EXCEPT !.interrupt = IF cut THEN "interrupt" ELSE @]
         IN  Good(t, IF cut THEN Paused(a) ELSE a) /\ t.state = s.state /\ t.scid = s.scid
<1> DEFINE t == [Commanded(s) EXCEPT !.interrupt = IF cut THEN "interrupt" ELSE @]
           b == IF cut THEN Paused(a) ELSE a
<1>1. /\ Good(Commanded(s), a)
      /\ Commanded(s).state = s.state /\ Commanded(s).scid = s.scid
  BY CommandedGood
<1>2. Commanded(s) \in Session /\ a \in Application
  BY <1>1 DEF Good
<1>3. /\ t \in Session /\ t.state = s.state /\ t.scid = s.scid
      /\ t.sender = Commanded(s).sender
      /\ t.interrupt = IF cut THEN "interrupt" ELSE Commanded(s).interrupt
  BY <1>1, <1>2 DEF Session
<1>4. /\ b \in Application /\ b.call = a.call
      /\ b.recording = IF cut THEN FALSE ELSE a.recording
  BY <1>2 DEF Paused, Application
<1> HIDE DEF t, b
<1>5. Good(t, b)
  BY <1>1, <1>3, <1>4 DEF Good
<1>6. QED
  BY <1>3, <1>5 DEF t, b
-----------------------------------------------------------------------------
(* The invariant.                                                           *)

Sessions ==
  /\ ses \in [Ends -> Session] /\ app \in [Ends -> Application]
  /\ \A n \in Ends : Good(ses[n], app[n]) /\ ses[n].scid <= calls

(* A DISCONNECT in flight belongs to a call that has ended or is ending:    *)
(* what makes the receiver's test of the call id enough.                    *)
EndedCalls ==
  \A m \in net : m.type = "DISCONNECT" =>
    /\ m.cid \in 1 .. calls
    /\ ses[Peer(m.to)].scid = m.cid => ses[Peer(m.to)].state = "disconnected"

Rest ==
  /\ up \in [Ends -> BOOLEAN]
  /\ creates \in 0 .. MaxCreates
  /\ calls \in 0 .. MaxCalls
  /\ silence \in [Ends -> 0 .. GiveUp]
  /\ net \subseteq Message

IInv == Sessions /\ EndedCalls /\ Rest

(* How a step may change the call of a session: by ending it, by placing a  *)
(* new one, or not at all, and then an ending call goes on ending.          *)
Moves(s, t, old) ==
  \/ t.scid = NoCid
  \/ t.scid > old
  \/ t.scid = s.scid /\ (s.state = "disconnected" => t.state = "disconnected")

(* Every step changes one session; the DISCONNECT it may send is its own.   *)
LEMMA StepKeeps ==
  ASSUME IInv, Rest', NEW n \in Ends, NEW t, NEW b,
         ses' = [ses EXCEPT ![n] = t], app' = [app EXCEPT ![n] = b],
         Good(t, b), Moves(ses[n], t, calls),
         calls <= calls', t.scid <= calls',
         \A m \in net' : \/ m \in net
                         \/ m.type # "DISCONNECT"
                         \/ /\ m.to = Peer(n) /\ m.cid = t.scid
                            /\ t.state = "disconnected"
  PROVE  IInv'
<1>1. /\ ses \in [Ends -> Session] /\ app \in [Ends -> Application]
      /\ t \in Session /\ b \in Application
      /\ calls \in Nat /\ calls' \in Nat
      /\ \A x \in Ends : ses[x].scid \in Nat /\ ses[x].scid <= calls
  BY DEF IInv, Sessions, Good, Rest, Session
<1>2. /\ \A x \in Ends : x # n => ses'[x] = ses[x] /\ app'[x] = app[x]
      /\ ses'[n] = t /\ app'[n] = b
  BY <1>1
<1>3. ses' \in [Ends -> Session] /\ app' \in [Ends -> Application]
  BY <1>1
<1>4. Sessions'
  <2> SUFFICES ASSUME NEW x \in Ends PROVE Good(ses'[x], app'[x]) /\ ses'[x].scid <= calls'
    BY <1>3 DEF Sessions
  <2>1. CASE x = n
    BY <2>1, <1>2
  <2>2. CASE x # n
    <3>1. Good(ses[x], app[x])
      BY DEF IInv, Sessions
    <3>2. QED
      BY <3>1, <2>2, <1>2, <1>1
  <2>3. QED
    BY <2>1, <2>2
<1>5. EndedCalls'
  <2> SUFFICES ASSUME NEW m \in net', m.type = "DISCONNECT"
               PROVE  /\ m.cid \in 1 .. calls'
                      /\ ses'[Peer(m.to)].scid = m.cid => ses'[Peer(m.to)].state = "disconnected"
    BY DEF EndedCalls
  <2>1. m.to \in Ends /\ Peer(m.to) \in Ends /\ Peer(Peer(n)) = n
    BY PeerIsOther DEF Rest, Message
  <2>2. CASE m \in net
    <3>1. /\ m.cid \in 1 .. calls
          /\ ses[Peer(m.to)].scid = m.cid => ses[Peer(m.to)].state = "disconnected"
      BY <2>2 DEF IInv, EndedCalls
    <3>2. CASE Peer(m.to) = n
      BY <3>1, <3>2, <1>1, <1>2 DEF Moves, NoCid
    <3>3. CASE Peer(m.to) # n
      BY <3>1, <3>3, <2>1, <1>1, <1>2
    <3>4. QED
      BY <3>2, <3>3
  <2>3. CASE m \notin net
    <3>1. m.to = Peer(n) /\ m.cid = t.scid /\ t.state = "disconnected"
      BY <2>3
    <3>2. t.scid \in Nat /\ t.scid # NoCid
      BY <3>1, <1>1 DEF Good, Session
    <3>3. QED
      BY <3>1, <3>2, <2>1, <1>1, <1>2 DEF NoCid
  <2>4. QED
    BY <2>2, <2>3
<1>6. QED
  BY <1>4, <1>5 DEF IInv

LEMMA InitIInv == Init => IInv
<1> SUFFICES ASSUME Init PROVE IInv
  OBVIOUS
<1>1. sim_session_reset \in Session /\ NewApp \in Application /\ sim_session_reset.scid = 0
  BY ResetGood DEF Good, sim_session_reset, NoCid
<1>2. Sessions
  BY <1>1, ResetGood DEF Init, Sessions
<1>3. QED
  BY <1>2, BoundsAssumption, TimersAssumption DEF Init, IInv, EndedCalls, Rest
-----------------------------------------------------------------------------
(* Each action keeps the invariant.                                         *)

LEMMA ConnectKeeps ==
  ASSUME IInv, NEW n \in Ends, sim_session_connect(n)
  PROVE  IInv'
<1> DEFINE p == [ses[n] EXCEPT !.state = "connecting", !.resend = 0, !.scid = calls + 1]
           t == Commanded(p)
           b == [app[n] EXCEPT !.call = "dialing"]
<1>1. /\ calls \in Nat /\ calls < MaxCalls /\ calls' = calls + 1
      /\ ses' = [ses EXCEPT ![n] = t] /\ app' = [app EXCEPT ![n] = b]
      /\ net' = net \cup {Msg("CONNECT", Peer(n), calls + 1)}
  BY DEF sim_session_connect, IInv, Rest
<1>2. Good(p, b) /\ p.scid = calls + 1
  <2>1. /\ Good(ses[n], app[n]) /\ ses[n].state = "idle"
        /\ calls + 1 \in Nat /\ calls + 1 # NoCid
    BY <1>1 DEF IInv, Sessions, sim_session_connect, NoCid
  <2>2. QED
    BY <2>1, PlacedGood
<1> HIDE DEF p, b
<1>3. Good(t, b) /\ t.scid = calls + 1
  BY <1>2, CommandedGood
<1>4. Rest'
  BY <1>1, PeerIsOther, BoundsAssumption, TimersAssumption DEF IInv, Rest, sim_session_connect, Msg, Message
<1>5. Msg("CONNECT", Peer(n), calls + 1).type # "DISCONNECT"
  BY DEF Msg
<1> HIDE DEF t
<1>6. Moves(ses[n], t, calls) /\ calls <= calls' /\ t.scid <= calls'
  BY <1>1, <1>3 DEF Moves
<1>7. QED
  BY <1>1, <1>3, <1>4, <1>5, <1>6, StepKeeps

LEMMA DisconnectKeeps ==
  ASSUME IInv, NEW n \in Ends, sim_session_disconnect(n)
  PROVE  IInv'
<1> DEFINE p == [ses[n] EXCEPT !.state = "disconnected", !.resend = 0]
           t == Commanded(p)
           b == [app[n] EXCEPT !.call = "closing"]
           d == Msg("DISCONNECT", Peer(n), ses[n].scid)
<1>1. /\ calls \in Nat /\ calls' = calls
      /\ ses' = [ses EXCEPT ![n] = t] /\ app' = [app EXCEPT ![n] = b]
      /\ net' = net \cup {d}
  BY DEF sim_session_disconnect, IInv, Rest
<1>2. Good(p, b) /\ p.scid = ses[n].scid /\ p.state = "disconnected"
  BY LeavingGood DEF IInv, Sessions, sim_session_disconnect
<1> HIDE DEF p, b
<1>3. Good(t, b) /\ t.scid = ses[n].scid /\ t.state = "disconnected"
  BY <1>2, CommandedGood
<1>4. ses[n].scid \in Nat /\ ses[n].scid <= calls
  BY DEF IInv, Sessions, Session
<1>5. Rest'
  BY <1>4, PeerIsOther DEF IInv, Rest, sim_session_disconnect, Msg, Message
<1>6. d.to = Peer(n) /\ d.cid = ses[n].scid
  BY DEF Msg
<1> HIDE DEF t, d
<1>7. Moves(ses[n], t, calls) /\ calls <= calls' /\ t.scid <= calls'
  BY <1>1, <1>3, <1>4 DEF Moves
<1>8. QED
  BY <1>1, <1>3, <1>5, <1>6, <1>7, StepKeeps

LEMMA DestroyKeeps ==
  ASSUME IInv, NEW n \in Ends, sim_session_destroy(n)
  PROVE  IInv'
<1>1. /\ calls \in Nat /\ calls' = calls /\ net' = net
      /\ ses' = [ses EXCEPT ![n] = sim_session_reset] /\ app' = [app EXCEPT ![n] = NewApp]
  BY DEF sim_session_destroy, IInv, Rest
<1>2. Good(sim_session_reset, NewApp) /\ sim_session_reset.scid = NoCid
  BY ResetGood DEF sim_session_reset
<1>3. Rest'
  BY TimersAssumption DEF IInv, Rest, sim_session_destroy
<1>4. /\ Moves(ses[n], sim_session_reset, calls) /\ sim_session_reset.scid <= calls'
      /\ calls <= calls'
  BY <1>1, <1>2 DEF Moves, NoCid
<1>5. \A m \in net' : m \in net
  BY <1>1
<1>6. QED
  BY <1>1, <1>2, <1>3, <1>4, <1>5, StepKeeps

LEMMA CreateKeeps ==
  ASSUME IInv, NEW n \in Ends, sim_session_create(n)
  PROVE  IInv'
<1>1. Rest'
  BY BoundsAssumption DEF IInv, Rest, sim_session_create
<1>2. QED
  BY <1>1 DEF IInv, Sessions, EndedCalls, sim_session_create

(* The part the handlers of datagrams share.                                *)
LEMMA ArrivalKeeps ==
  ASSUME IInv, NEW m \in net, NEW answers \in SUBSET Message, Arrives(m, answers),
         \A x \in answers : x.type # "DISCONNECT",
         NEW t, NEW b, Good(t, b),
         ses' = [ses EXCEPT ![m.to] = t], app' = [app EXCEPT ![m.to] = b],
         t.scid = NoCid \/ (t.scid = ses[m.to].scid /\ (ses[m.to].state = "disconnected" => t.state = "disconnected"))
  PROVE  IInv'
<1>1. m.to \in Ends /\ m \in Message
  BY DEF IInv, Rest, Message
<1>2. /\ calls \in Nat /\ calls' = calls
      /\ \A x \in net' : x \in net \/ x.type # "DISCONNECT"
  BY DEF Arrives, IInv, Rest
<1>3. Rest'
  BY <1>1, TimersAssumption DEF IInv, Rest, Arrives
<1>4. ses[m.to].scid \in Nat /\ ses[m.to].scid <= calls
  BY <1>1 DEF IInv, Sessions, Session
<1>5. Moves(ses[m.to], t, calls) /\ t.scid <= calls' /\ calls <= calls'
  BY <1>2, <1>4 DEF Moves, NoCid
<1> DEFINE n == m.to
<1> HIDE DEF n
<1>6. n \in Ends /\ Moves(ses[n], t, calls)
      /\ ses' = [ses EXCEPT ![n] = t] /\ app' = [app EXCEPT ![n] = b]
  BY <1>1, <1>5 DEF n
<1>7. QED
  BY <1>2, <1>3, <1>5, <1>6, StepKeeps

(* What every handler finds.                                                *)
LEMMA ArrivedGood ==
  ASSUME IInv, NEW m \in net
  PROVE  /\ m.to \in Ends /\ Peer(m.to) \in Ends /\ m.cid \in Nat
         /\ Good(Heard(ses[m.to]), HeardApp(m.to))
         /\ Heard(ses[m.to]).state = ses[m.to].state
         /\ Heard(ses[m.to]).scid = ses[m.to].scid
         /\ Heard(ses[m.to]).receiver = ses[m.to].receiver
         /\ ses[m.to].receiver \in BOOLEAN
         /\ HeardApp(m.to) \in Application
<1>1. m.to \in Ends /\ m.cid \in Nat
  BY DEF IInv, Rest, Message
<1>2. Good(ses[m.to], app[m.to])
  BY <1>1 DEF IInv, Sessions
<1>3. Good(Heard(ses[m.to]), HeardApp(m.to))
  BY <1>2, HeardGood DEF HeardApp
<1>4. QED
  BY <1>1, <1>2, <1>3, HeardGood, PeerIsOther DEF Good, Session
LEMMA ProcessKeeps ==
  ASSUME IInv, NEW m \in net, sim_session_process(m)
  PROVE  IInv'
<1> DEFINE n == m.to
           h == Heard(ses[n])
           b == HeardApp(n)
<1>1. /\ n \in Ends /\ Peer(n) \in Ends /\ m.cid \in Nat /\ Good(h, b)
      /\ h.state = ses[n].state /\ h.scid = ses[n].scid /\ h.receiver = ses[n].receiver
      /\ ses[n].receiver \in BOOLEAN /\ b \in Application
  BY ArrivedGood
<1> DEFINE none == {}
<1>0. none \in SUBSET Message /\ \A x \in none : x.type # "DISCONNECT"
  OBVIOUS
<1> HIDE DEF none
<1>2. CASE process_sim_connect(n, m)
  <2> DEFINE t == [h EXCEPT !.receiver = TRUE, !.rcid = m.cid, !.waited = 0]
             c == IF ses[n].receiver THEN b ELSE Started(b)
             ack == {Msg("CONNECT_ACK", Peer(n), m.cid)}
  <2>1. /\ ses' = [ses EXCEPT ![m.to] = t] /\ app' = [app EXCEPT ![m.to] = c]
        /\ Arrives(m, ack)
    BY <1>2 DEF process_sim_connect
  <2>2. ack \in SUBSET Message /\ \A x \in ack : x.type # "DISCONNECT"
    BY <1>1 DEF Msg, Message
  <2> HIDE DEF h, b, ack
  <2>3. Good(t, c) /\ t.state = h.state /\ t.scid = h.scid
    BY <1>1, ReceiverGood
  <2> HIDE DEF t, c
  <2>4. QED
    BY <2>1, <2>2, <2>3, <1>1, ArrivalKeeps
<1>3. CASE process_sim_connect_ack(n, m)
  <2>1. Arrives(m, none)
    BY <1>3 DEF none, process_sim_connect_ack
  <2>2. CASE ses[n].state = "connecting"
    <3> DEFINE t == [h EXCEPT !.state = "connected", !.sender = TRUE, !.interrupt = "recover"]
               c == Connected(b)
    <3>1. ses' = [ses EXCEPT ![m.to] = t] /\ app' = [app EXCEPT ![m.to] = c]
      BY <1>3, <2>2 DEF process_sim_connect_ack
    <3> HIDE DEF h, b
    <3>2. Good(t, c) /\ t.scid = h.scid
      BY <1>1, <2>2, ConnectedGood
    <3> HIDE DEF t, c
    <3>3. QED
      BY <2>1, <2>2, <3>1, <3>2, <1>0, <1>1, ArrivalKeeps
  <2>3. CASE ses[n].state # "connecting"
    <3>1. ses' = [ses EXCEPT ![m.to] = h] /\ app' = [app EXCEPT ![m.to] = b]
      BY <1>3, <2>3 DEF process_sim_connect_ack
    <3> HIDE DEF h, b
    <3>2. QED
      BY <2>1, <3>1, <1>0, <1>1, ArrivalKeeps
  <2>4. QED
    BY <2>2, <2>3
<1>4. CASE process_sim_disconnect(n, m)
  <2> DEFINE gone == ses[n].receiver /\ ses[n].rcid = m.cid
             t == [h EXCEPT !.receiver = IF gone THEN FALSE ELSE @]
             c == IF gone THEN Stopped(b) ELSE b
             ack == {Msg("DISCONNECT_ACK", Peer(n), m.cid)}
  <2>1. /\ ses' = [ses EXCEPT ![m.to] = t] /\ app' = [app EXCEPT ![m.to] = c]
        /\ Arrives(m, ack)
    BY <1>4 DEF process_sim_disconnect
  <2>2. ack \in SUBSET Message /\ \A x \in ack : x.type # "DISCONNECT"
    BY <1>1 DEF Msg, Message
  <2>3. gone \in BOOLEAN
    BY <1>1
  <2> HIDE DEF h, b, ack, gone
  <2>4. Good(t, c) /\ t.state = h.state /\ t.scid = h.scid
    BY <1>1, <2>3, StoppedGood
  <2> HIDE DEF t, c
  <2>5. QED
    BY <2>1, <2>2, <2>4, <1>1, ArrivalKeeps
<1>5. CASE process_sim_disconnect_ack(n, m)
  <2>1. Arrives(m, none)
    BY <1>5 DEF none, process_sim_disconnect_ack
  <2>2. CASE ses[n].state = "disconnected"
    <3>1. ses' = [ses EXCEPT ![m.to] = sim_session_reset] /\ app' = [app EXCEPT ![m.to] = Ended(b)]
      BY <1>5, <2>2 DEF process_sim_disconnect_ack
    <3>2. Good(sim_session_reset, Ended(b)) /\ sim_session_reset.scid = NoCid
      BY <1>1, ResetEnded DEF sim_session_reset
    <3> HIDE DEF b
    <3>3. QED
      BY <2>1, <3>1, <3>2, <1>0, ArrivalKeeps
  <2>3. CASE ses[n].state # "disconnected"
    <3>1. ses' = [ses EXCEPT ![m.to] = h] /\ app' = [app EXCEPT ![m.to] = b]
      BY <1>5, <2>3 DEF process_sim_disconnect_ack
    <3> HIDE DEF h, b
    <3>2. QED
      BY <2>1, <3>1, <1>0, <1>1, ArrivalKeeps
  <2>4. QED
    BY <2>2, <2>3
<1>6. CASE process_sim_ping(n, m)
  <2> DEFINE pong == {Msg("PONG", Peer(n), NoCid)}
  <2>1. /\ ses' = [ses EXCEPT ![m.to] = h] /\ app' = [app EXCEPT ![m.to] = b]
        /\ Arrives(m, pong)
    BY <1>6 DEF process_sim_ping
  <2>2. pong \in SUBSET Message /\ \A x \in pong : x.type # "DISCONNECT"
    BY <1>1 DEF Msg, Message, NoCid
  <2> HIDE DEF h, b, pong
  <2>3. QED
    BY <2>1, <2>2, <1>1, ArrivalKeeps
<1>7. CASE process_sim_pong(n, m)
  <2>1. /\ ses' = [ses EXCEPT ![m.to] = h] /\ app' = [app EXCEPT ![m.to] = b]
        /\ Arrives(m, none)
    BY <1>7 DEF none, process_sim_pong
  <2> HIDE DEF h, b
  <2>2. QED
    BY <2>1, <1>0, <1>1, ArrivalKeeps
<1>8. QED
  BY <1>2, <1>3, <1>4, <1>5, <1>6, <1>7 DEF sim_session_process

LEMMA LoseKeeps ==
  ASSUME IInv, NEW m \in net, Lose(m)
  PROVE  IInv'
<1>1. net' \subseteq net /\ UNCHANGED <<ses, app, up, creates, calls, silence>>
  BY DEF Lose
<1>2. QED
  BY <1>1 DEF IInv, Sessions, EndedCalls, Rest

LEMMA HeartbeatKeeps ==
  ASSUME IInv, NEW n \in Ends, NEW d \in Beats, sim_session_heartbeat(n, d)
  PROVE  IInv'
<1> DEFINE s == Aged(ses[n], d)
           a == app[n]
<1>1. /\ Good(ses[n], a) /\ Good(s, a) /\ s.state = ses[n].state /\ s.scid = ses[n].scid
      /\ a \in Application /\ s.scid \in Nat /\ s.scid <= calls /\ s \in Session
      /\ Peer(n) \in Ends /\ calls \in Nat /\ calls' = calls /\ d \in Nat
      /\ ses[n].receiver \in BOOLEAN
  <2>1. Good(ses[n], a) /\ d \in Nat /\ Peer(n) \in Ends /\ ses[n].scid <= calls
    BY TimersAssumption, PeerIsOther DEF IInv, Sessions
  <2>2. Good(s, a) /\ s.state = ses[n].state /\ s.scid = ses[n].scid
    BY <2>1, AgedGood
  <2>3. calls \in Nat /\ calls' = calls
    BY DEF IInv, Rest, sim_session_heartbeat
  <2> HIDE DEF s, a
  <2>4. QED
    BY <2>1, <2>2, <2>3 DEF Good, Session
<1>2. ASSUME NEW c, c \in {"CONNECT", "DISCONNECT", "PING"}, NEW i \in Nat
      PROVE  Msg(c, Peer(n), i) \in Message
    BY <1>1, <1>2 DEF Msg, Message
<1>3. ASSUME net' \subseteq Message PROVE Rest'
  BY <1>1, <1>3, TimersAssumption DEF IInv, Rest, sim_session_heartbeat
<1>4. CASE GiveUpCall(n)
  <2> DEFINE b == IF ses[n].receiver THEN Stopped(Ended(a)) ELSE Ended(a)
  <2>1. /\ ses' = [ses EXCEPT ![n] = sim_session_reset] /\ app' = [app EXCEPT ![n] = b]
        /\ net' = net
    BY <1>4 DEF GiveUpCall
  <2>2. Good(sim_session_reset, b) /\ sim_session_reset.scid = NoCid
    BY <1>1, ResetEnded DEF sim_session_reset
  <2> HIDE DEF b
  <2>3. Rest'
    BY <1>3, <2>1 DEF IInv, Rest
  <2>4. /\ Moves(ses[n], sim_session_reset, calls) /\ sim_session_reset.scid <= calls'
        /\ calls <= calls' /\ \A m \in net' : m \in net
    BY <1>1, <2>1, <2>2 DEF Moves, NoCid
  <2>5. QED
    BY <2>1, <2>2, <2>3, <2>4, StepKeeps
<1>5. CASE ResendCommand(n, s) /\ ~GiveUpCall(n)
  <2> DEFINE t == Commanded(s)
             k == IF s.state = "connecting" THEN "CONNECT" ELSE "DISCONNECT"
             x == Msg(k, Peer(n), s.scid)
  <2>1. /\ ses' = [ses EXCEPT ![n] = t] /\ app' = app /\ net' = net \cup {x}
        /\ s.state \in {"connecting", "disconnected"}
    BY <1>5 DEF ResendCommand, CommandDue
  <2>2. app' = [app EXCEPT ![n] = a]
    BY <2>1 DEF IInv, Sessions
  <2>3. Good(t, a) /\ t.state = s.state /\ t.scid = s.scid
    BY <1>1, CommandedGood
  <2>4. /\ x.type = k /\ x.to = Peer(n) /\ x.cid = s.scid
        /\ k = "DISCONNECT" => s.state = "disconnected"
    BY <2>1 DEF Msg
  <2>5. x \in Message
    BY <1>1, <1>2
  <2> HIDE DEF t, x, k
  <2>6. Rest'
    BY <1>3, <2>1, <2>5 DEF IInv, Rest
  <2>7. Moves(ses[n], t, calls) /\ t.scid <= calls' /\ calls <= calls'
    BY <1>1, <2>3 DEF Moves
  <2> HIDE DEF s, a
  <2>8. \A m \in net' : \/ m \in net
                        \/ m.type # "DISCONNECT"
                        \/ /\ m.to = Peer(n) /\ m.cid = t.scid
                           /\ t.state = "disconnected"
    BY <2>1, <2>3, <2>4
  <2>9. QED
    BY <2>1, <2>2, <2>3, <2>6, <2>7, <2>8, StepKeeps
<1>6. CASE sim_session_send_ping(n, s) /\ ~GiveUpCall(n)
  <2> DEFINE cut == s.resend + 1 > InterruptResends
             t == [Commanded(s) EXCEPT !.interrupt = IF cut THEN "interrupt" ELSE @]
             b == IF cut THEN Paused(a) ELSE a
             x == Msg("PING", Peer(n), NoCid)
  <2>1. /\ ses' = [ses EXCEPT ![n] = t] /\ app' = [app EXCEPT ![n] = b] /\ net' = net \cup {x}
    BY <1>6 DEF sim_session_send_ping
  <2>2. x.type # "DISCONNECT"
    BY DEF Msg
  <2>3. x \in Message
    BY <1>2 DEF NoCid
  <2>4. cut \in BOOLEAN
    OBVIOUS
  <2> HIDE DEF cut, x, s, a
  <2>5. Good(t, b) /\ t.state = s.state /\ t.scid = s.scid
    BY <1>1, <2>4, PingedGood
  <2> HIDE DEF t, b
  <2>6. Rest'
    BY <1>3, <2>1, <2>3 DEF IInv, Rest
  <2>7. Moves(ses[n], t, calls) /\ t.scid <= calls' /\ calls <= calls'
    BY <1>1, <2>5 DEF Moves
  <2>8. QED
    BY <2>1, <2>2, <2>5, <2>6, <2>7, StepKeeps
<1>7. CASE NothingDue(n, s)
  <2>1. /\ ses' = [ses EXCEPT ![n] = s] /\ app' = app /\ net' = net
    BY <1>7 DEF NothingDue
  <2>2. app' = [app EXCEPT ![n] = a]
    BY <2>1 DEF IInv, Sessions
  <2>3. Rest'
    BY <1>3, <2>1 DEF IInv, Rest
  <2> HIDE DEF s, a
  <2>4. /\ Moves(ses[n], s, calls) /\ s.scid <= calls' /\ calls <= calls'
        /\ \A m \in net' : m \in net
    BY <1>1, <2>1 DEF Moves
  <2>5. QED
    BY <1>1, <2>1, <2>2, <2>3, <2>4, StepKeeps
<1>8. QED
  BY <1>4, <1>5, <1>6, <1>7 DEF sim_session_heartbeat
THEOREM InductiveInvariant == Spec => []IInv
<1>1. ASSUME IInv, [Next]_vars PROVE IInv'
  <2>1. CASE UNCHANGED vars
    BY <1>1, <2>1 DEF vars, IInv, Sessions, EndedCalls, Rest
  <2>2. CASE Next
    BY <1>1, <2>2, ConnectKeeps, DisconnectKeeps, DestroyKeeps, CreateKeeps, HeartbeatKeeps,
       ProcessKeeps, LoseKeeps DEF Next
  <2>3. QED
    BY <1>1, <2>1, <2>2
<1>2. QED
  BY <1>1, InitIInv, PTL DEF Spec

-----------------------------------------------------------------------------
(* The session's variables keep their types.                                *)
THEOREM TypeCorrect == Spec => []TypeOK
<1>1. IInv => TypeOK
  BY DEF IInv, Sessions, Rest, TypeOK
<1>2. QED
  BY <1>1, InductiveInvariant, PTL

(* A session has a sender from the acknowledgement of its call to its       *)
(* reset, so a connected one always does.                                   *)
THEOREM SenderAlwaysOfCall == Spec => []SenderOfCall
<1>1. IInv => SenderOfCall
  BY DEF IInv, Sessions, Good, SenderOfCall
<1>2. QED
  BY <1>1, InductiveInvariant, PTL

(* The application knows the state of its call from what it is told.        *)
THEOREM CallAlwaysKnown == Spec => []CallKnown
<1>1. IInv => CallKnown
  BY DEF IInv, Sessions, Good, CallKnown
<1>2. QED
  BY <1>1, InductiveInvariant, PTL

(* While the call is up the camera runs exactly when the network does.      *)
THEOREM RecordingAlwaysExact == Spec => []RecordingExact
<1>1. IInv => RecordingExact
  BY DEF IInv, Sessions, Good, RecordingExact
<1>2. QED
  BY <1>1, InductiveInvariant, PTL

-----------------------------------------------------------------------------
LEMMA ReceiverStays ==
  ASSUME IInv, Next, NEW n \in Ends, ses[n].receiver,
         ses[Peer(n)].state = "connected", ses[n].rcid = ses[Peer(n)].scid,
         ~ses'[n].receiver
  PROVE  GivesUp(n) \/ ~up'[n] \/ ses[n].state = "disconnected"
<1>1. /\ ses \in [Ends -> Session] /\ up \in [Ends -> BOOLEAN]
      /\ silence \in [Ends -> 0 .. GiveUp] /\ net \subseteq Message
      /\ ses[n] \in Session
  BY DEF IInv, Sessions, Rest
<1>2. ASSUME NEW x \in Ends, NEW t, t.receiver = ses[x].receiver, ses' = [ses EXCEPT ![x] = t]
      PROVE  FALSE
  <2>1. CASE x = n
    BY <1>1, <1>2, <2>1
  <2>2. CASE x # n
    BY <1>1, <1>2, <2>2
  <2>3. QED
    BY <2>1, <2>2
<1>3. ASSUME NEW x \in Ends, sim_session_connect(x) PROVE FALSE
  <2> DEFINE t == Commanded([ses[x] EXCEPT !.state = "connecting", !.resend = 0, !.scid = calls + 1])
  <2>1. ses' = [ses EXCEPT ![x] = t]
    BY <1>3 DEF sim_session_connect
  <2>2. ses[x] \in Session
    BY <1>1
  <2>3. t.receiver = ses[x].receiver
    BY <2>2 DEF Commanded, Session
  <2> HIDE DEF t
  <2>4. QED
    BY <1>2, <2>1, <2>3
<1>4. ASSUME NEW x \in Ends, sim_session_disconnect(x) PROVE FALSE
  <2> DEFINE t == Commanded([ses[x] EXCEPT !.state = "disconnected", !.resend = 0])
  <2>1. ses' = [ses EXCEPT ![x] = t]
    BY <1>4 DEF sim_session_disconnect
  <2>2. ses[x] \in Session
    BY <1>1
  <2>3. t.receiver = ses[x].receiver
    BY <2>2 DEF Commanded, Session
  <2> HIDE DEF t
  <2>4. QED
    BY <1>2, <2>1, <2>3
<1>5. ASSUME NEW x \in Ends, sim_session_destroy(x) PROVE ~up'[n]
  BY <1>1, <1>5 DEF sim_session_destroy
<1>6. ASSUME NEW x \in Ends, sim_session_create(x) PROVE FALSE
  BY <1>6 DEF sim_session_create
<1>7. ASSUME NEW x \in Ends, NEW d \in Beats, sim_session_heartbeat(x, d) PROVE GivesUp(n)
  <2> DEFINE a == Aged(ses[x], d)
  <2>1. ses[x] \in Session /\ d \in Nat /\ d > 0
    BY <1>1, TimersAssumption
  <2>2. a \in Session /\ a.receiver = ses[x].receiver
    <3>1. ses[x].waited + d < COMMAND_TICK => ses[x].waited + d \in 0 .. COMMAND_TICK
      BY <2>1 DEF Session, COMMAND_TICK
    <3>2. COMMAND_TICK \in 0 .. COMMAND_TICK
      BY DEF COMMAND_TICK
    <3>3. QED
      BY <2>1, <3>1, <3>2 DEF Aged, Session
  <2>3. CASE GiveUpCall(x)
    <3>1. ses' = [ses EXCEPT ![x] = sim_session_reset]
      BY <2>3 DEF GiveUpCall
    <3>2. x = n
      BY <1>1, <3>1
    <3>3. ses'[n] = sim_session_reset /\ Watched(ses[n]) /\ up'[n]
      BY <1>1, <1>7, <3>1, <3>2 DEF sim_session_heartbeat, Watched
    <3>4. silence'[n] = IF silence[n] + d < GiveUp THEN silence[n] + d ELSE GiveUp
      BY <1>1, <1>7, <3>2 DEF sim_session_heartbeat
    <3>5. silence[n] \in Nat /\ GiveUp \in Nat /\ GiveUp > 0
      BY <1>1, TimersAssumption
    <3>6. QED
      BY <2>1, <3>3, <3>4, <3>5 DEF GivesUp
  <2>4. CASE ResendCommand(x, a) /\ ~GiveUpCall(x)
    <3>1. ses' = [ses EXCEPT ![x] = Commanded(a)]
      BY <2>4 DEF ResendCommand
    <3> HIDE DEF a
    <3>2. Commanded(a).receiver = a.receiver
      BY <2>2 DEF Commanded, Session
    <3>3. QED
      BY <1>2, <2>2, <3>1, <3>2
  <2>5. CASE sim_session_send_ping(x, a) /\ ~GiveUpCall(x)
    <3> DEFINE cut == a.resend + 1 > InterruptResends
               t == [Commanded(a) EXCEPT !.interrupt = IF cut THEN "interrupt" ELSE @]
    <3>1. ses' = [ses EXCEPT ![x] = t]
      BY <2>5 DEF sim_session_send_ping
    <3> HIDE DEF a, cut
    <3>2. t.receiver = a.receiver
      BY <2>2 DEF Commanded, Session
    <3> HIDE DEF t
    <3>3. QED
      BY <1>2, <2>2, <3>1, <3>2
  <2>6. CASE NothingDue(x, a)
    <3>1. ses' = [ses EXCEPT ![x] = a]
      BY <2>6 DEF NothingDue
    <3> HIDE DEF a
    <3>2. QED
      BY <1>2, <2>2, <3>1
  <2>7. QED
    BY <1>7, <2>3, <2>4, <2>5, <2>6 DEF sim_session_heartbeat
<1>8. ASSUME NEW m \in net, sim_session_process(m) PROVE ses[n].state = "disconnected"
  <2> DEFINE x == m.to
             h == Heard(ses[x])
  <2>1. x \in Ends /\ ses[x] \in Session
    BY <1>1 DEF Message
  <2>2. h \in Session /\ h.receiver = ses[x].receiver /\ h.state = ses[x].state
    BY <2>1 DEF Heard, Session
  <2>3. CASE ses' = [ses EXCEPT ![x] = h]
    BY <1>2, <2>1, <2>2, <2>3
  <2>4. CASE process_sim_connect(x, m)
    <3>1. ses' = [ses EXCEPT ![x] = [h EXCEPT !.receiver = TRUE, !.rcid = m.cid, !.waited = 0]]
      BY <2>4 DEF process_sim_connect
    <3> HIDE DEF h
    <3>2. x # n => ses'[n].receiver
      BY <1>1, <3>1
    <3>3. x = n => ses'[n].receiver
      BY <1>1, <2>2, <3>1 DEF Session
    <3>4. QED
      BY <3>2, <3>3
  <2>5. CASE process_sim_connect_ack(x, m) /\ ses[x].state = "connecting"
    <3> DEFINE t == [h EXCEPT !.state = "connected", !.sender = TRUE, !.interrupt = "recover"]
    <3>1. ses' = [ses EXCEPT ![x] = t]
      BY <2>5 DEF process_sim_connect_ack
    <3> HIDE DEF h
    <3>2. t.receiver = ses[x].receiver
      BY <2>2 DEF Session
    <3> HIDE DEF t
    <3>3. QED
      BY <1>2, <2>1, <3>1, <3>2
  <2>6. CASE process_sim_disconnect(x, m)
    <3> DEFINE gone == ses[x].receiver /\ ses[x].rcid = m.cid
               t == [h EXCEPT !.receiver = IF gone THEN FALSE ELSE @]
    <3>1. ses' = [ses EXCEPT ![x] = t] /\ m.type = "DISCONNECT"
      BY <2>6 DEF process_sim_disconnect
    <3>2. CASE x = n /\ gone
      <4>1. ses[Peer(n)].scid = m.cid
        BY <3>2
      <4>2. ses[Peer(n)].state = "disconnected"
        BY <3>1, <3>2, <4>1 DEF IInv, EndedCalls
      <4>3. QED
        BY <4>2
    <3>3. CASE x # n
      BY <1>1, <3>1, <3>3
    <3>4. CASE ~gone
      <4> HIDE DEF h, gone
      <4>1. t.receiver = ses[x].receiver
        BY <2>2, <3>4 DEF Session
      <4> HIDE DEF t
      <4>2. QED
        BY <1>2, <2>1, <3>1, <4>1
    <3>5. QED
      BY <3>2, <3>3, <3>4
  <2>7. CASE process_sim_disconnect_ack(x, m) /\ ses[x].state = "disconnected"
    <3>1. ses' = [ses EXCEPT ![x] = sim_session_reset]
      BY <2>7 DEF process_sim_disconnect_ack
    <3>2. x = n
      BY <1>1, <3>1
    <3>3. QED
      BY <2>7, <3>2
  <2>8. QED
    BY <1>8, <2>3, <2>4, <2>5, <2>6, <2>7 DEF sim_session_process, process_sim_connect_ack,
       process_sim_disconnect_ack, process_sim_ping, process_sim_pong
<1>9. ASSUME NEW m \in net, Lose(m) PROVE FALSE
  BY <1>9 DEF Lose
<1>10. QED
  BY <1>3, <1>4, <1>5, <1>6, <1>7, <1>8, <1>9 DEF Next

(* No DISCONNECT of another call, however late or often it arrives, takes   *)
(* away the receiver of the call its caller is connected in.                *)
THEOREM CallsSurvive == Spec => CallSurvives
<1>1. IInv /\ [Next]_vars =>
        [\A n \in Ends :
           /\ ses[n].receiver /\ ses[Peer(n)].state = "connected"
           /\ ses[n].rcid = ses[Peer(n)].scid
           /\ ~ses'[n].receiver
           => GivesUp(n) \/ ~up'[n] \/ ses[n].state = "disconnected"]_vars
  BY ReceiverStays
<1>2. QED
  BY <1>1, InductiveInvariant, PTL DEF Spec, CallSurvives

-----------------------------------------------------------------------------
(* A step changes one end only, by one of its own operations or handlers.   *)
Unmoved(n) == ses'[n] = ses[n] /\ app'[n] = app[n] /\ silence'[n] = silence[n]

Moved(n) ==
  \/ sim_session_connect(n)
  \/ sim_session_disconnect(n)
  \/ sim_session_destroy(n)
  \/ \E d \in Beats : sim_session_heartbeat(n, d)
  \/ \E m \in net : m.to = n /\ sim_session_process(m)

LEMMA StepOfEnd ==
  ASSUME IInv, Next, NEW n \in Ends
  PROVE  Unmoved(n) \/ Moved(n)
<1>1. /\ ses \in [Ends -> Session] /\ app \in [Ends -> Application]
      /\ silence \in [Ends -> 0 .. GiveUp] /\ net \subseteq Message
  BY DEF IInv, Sessions, Rest
<1>2. ASSUME NEW x \in Ends, x # n,
             \E t : ses' = [ses EXCEPT ![x] = t],
             \E b : app' = [app EXCEPT ![x] = b],
             silence' = silence \/ \E q : silence' = [silence EXCEPT ![x] = q]
      PROVE  Unmoved(n)
  BY <1>1, <1>2 DEF Unmoved
<1>3. ASSUME ses' = ses, app' = app, silence' = silence
      PROVE  Unmoved(n)
  BY <1>3 DEF Unmoved
<1>4. ASSUME NEW x \in Ends, x # n, sim_session_connect(x) PROVE Unmoved(n)
  <2>1. app' = [app EXCEPT ![x] = [app[x] EXCEPT !.call = "dialing"]]
    BY <1>1, <1>4 DEF sim_session_connect
  <2>2. QED
    BY <1>2, <1>4, <2>1 DEF sim_session_connect
<1>5. ASSUME NEW x \in Ends, x # n, sim_session_disconnect(x) PROVE Unmoved(n)
  <2>1. app' = [app EXCEPT ![x] = [app[x] EXCEPT !.call = "closing"]]
    BY <1>1, <1>5 DEF sim_session_disconnect
  <2>2. QED
    BY <1>2, <1>5, <2>1 DEF sim_session_disconnect
<1>6. ASSUME NEW x \in Ends, x # n, sim_session_destroy(x) PROVE Unmoved(n)
  BY <1>2, <1>6 DEF sim_session_destroy
<1>7. ASSUME NEW x \in Ends, x # n, NEW d \in Beats, sim_session_heartbeat(x, d)
      PROVE  Unmoved(n)
  <2>1. app' = app => app' = [app EXCEPT ![x] = app[x]]
    BY <1>1
  <2>2. /\ \E t : ses' = [ses EXCEPT ![x] = t]
        /\ \E b : app' = [app EXCEPT ![x] = b]
    BY <1>7, <2>1 DEF sim_session_heartbeat, ResendCommand, sim_session_send_ping, NothingDue, GiveUpCall
  <2>3. \E q : silence' = [silence EXCEPT ![x] = q]
    BY <1>7 DEF sim_session_heartbeat
  <2>4. QED
    BY <1>2, <1>7, <2>2, <2>3
<1>8. ASSUME NEW m \in net, m.to # n, sim_session_process(m) PROVE Unmoved(n)
  <2>1. m.to \in Ends
    BY <1>1 DEF Message
  <2>2. /\ \E t : ses' = [ses EXCEPT ![m.to] = t]
        /\ \E b : app' = [app EXCEPT ![m.to] = b]
    BY <1>8 DEF sim_session_process, process_sim_connect, process_sim_connect_ack, process_sim_disconnect,
       process_sim_disconnect_ack, process_sim_ping, process_sim_pong
  <2>3. \E q : silence' = [silence EXCEPT ![m.to] = q]
    BY <1>8 DEF sim_session_process, process_sim_connect, process_sim_connect_ack, process_sim_disconnect,
       process_sim_disconnect_ack, process_sim_ping, process_sim_pong, Arrives
  <2>4. QED
    BY <1>2, <1>8, <2>1, <2>2, <2>3
<1>9. ASSUME NEW x \in Ends, sim_session_create(x) PROVE Unmoved(n)
  BY <1>3, <1>9 DEF sim_session_create
<1>10. ASSUME NEW m \in net, Lose(m) PROVE Unmoved(n)
  BY <1>3, <1>10 DEF Lose
<1>11. QED
  BY <1>4, <1>5, <1>6, <1>7, <1>8, <1>9, <1>10 DEF Next, Moved

-----------------------------------------------------------------------------
(* With one caller only the other end has a receiver, and that end places   *)
(* no call whose end could take the receiver away unsaid.                   *)
PlayFits(n, s, a) ==
  /\ a.playing <=> s.receiver
  /\ s.receiver => n \notin Callers
  /\ n \notin Callers => s.state = "idle"

PlayInv ==
  /\ \A n \in Ends : PlayFits(n, ses[n], app[n])
  /\ \A m \in net : m.type = "CONNECT" => m.to \notin Callers

LEMMA HeardPlays ==
  ASSUME NEW n, NEW s, NEW a, Good(s, a), PlayFits(n, s, a)
  PROVE  PlayFits(n, Heard(s), IF s.interrupt = "interrupt" THEN Resumed(a) ELSE a)
BY DEF PlayFits, Good, Heard, Resumed, Session, Application

LEMMA EndPlays ==
  ASSUME IInv, PlayInv, NEW n \in Ends, Moved(n)
  PROVE  PlayFits(n, ses'[n], app'[n])
<1> DEFINE s == ses[n]
           a == app[n]
           h == Heard(s)
           b == HeardApp(n)
<1>1. /\ s \in Session /\ a \in Application /\ Good(s, a) /\ PlayFits(n, s, a)
      /\ ses \in [Ends -> Session] /\ app \in [Ends -> Application] /\ net \subseteq Message
  BY DEF IInv, Sessions, Rest, PlayInv
<1>2. Good(h, b) /\ PlayFits(n, h, b) /\ h \in Session /\ b \in Application
  <2>1. b = IF s.interrupt = "interrupt" THEN Resumed(a) ELSE a
    BY DEF HeardApp
  <2> HIDE DEF s, a, b
  <2>2. Good(h, b)
    BY <1>1, <2>1, HeardGood
  <2>3. PlayFits(n, h, b)
    BY <1>1, <2>1, HeardPlays
  <2>4. QED
    BY <2>2, <2>3 DEF Good
<1>3. CASE sim_session_connect(n)
  <2>1. /\ ses'[n] = Commanded([s EXCEPT !.state = "connecting", !.resend = 0, !.scid = calls + 1])
        /\ app'[n] = [a EXCEPT !.call = "dialing"] /\ n \in Callers
    BY <1>1, <1>3 DEF sim_session_connect
  <2> HIDE DEF s, a
  <2>2. QED
    BY <1>1, <2>1 DEF PlayFits, Commanded, Session, Application
<1>4. CASE sim_session_disconnect(n)
  <2>1. /\ ses'[n] = Commanded([s EXCEPT !.state = "disconnected", !.resend = 0])
        /\ app'[n] = [a EXCEPT !.call = "closing"] /\ s.state # "idle"
    BY <1>1, <1>4 DEF sim_session_disconnect
  <2> HIDE DEF s, a
  <2>2. QED
    BY <1>1, <2>1 DEF PlayFits, Commanded, Session, Application
<1>5. CASE sim_session_destroy(n)
  BY <1>1, <1>5 DEF sim_session_destroy, PlayFits, sim_session_reset, NewApp
<1>6. ASSUME NEW d \in Beats, sim_session_heartbeat(n, d) PROVE PlayFits(n, ses'[n], app'[n])
  <2> DEFINE g == Aged(s, d)
  <2>1. d \in Nat
    BY TimersAssumption
  <2>2. Good(g, a) /\ g \in Session
    BY <1>1, <2>1, AgedGood DEF Good
  <2>3. g.state = s.state /\ g.receiver = s.receiver
    BY <1>1 DEF Aged, Session
  <2>4. PlayFits(n, g, a)
    BY <1>1, <2>3 DEF PlayFits
  <2>5. CASE GiveUpCall(n)
    <3>1. /\ ses'[n] = sim_session_reset
          /\ app'[n] = IF s.receiver THEN Stopped(Ended(a)) ELSE Ended(a)
      BY <1>1, <2>5 DEF GiveUpCall
    <3> HIDE DEF s, a
    <3>2. QED
      BY <1>1, <3>1 DEF PlayFits, sim_session_reset, Stopped, Ended, Application
  <2>6. CASE ResendCommand(n, g) /\ ~GiveUpCall(n)
    <3>1. ses'[n] = Commanded(g) /\ app'[n] = a
      BY <1>1, <2>6 DEF ResendCommand
    <3> HIDE DEF g, a
    <3>2. QED
      BY <2>2, <2>4, <3>1 DEF PlayFits, Commanded, Session
  <2>7. CASE sim_session_send_ping(n, g) /\ ~GiveUpCall(n)
    <3> DEFINE cut == g.resend + 1 > InterruptResends
    <3>1. /\ ses'[n] = [Commanded(g) EXCEPT !.interrupt = IF cut THEN "interrupt" ELSE @]
          /\ app'[n] = IF cut THEN Paused(a) ELSE a
      BY <1>1, <2>7 DEF sim_session_send_ping
    <3> HIDE DEF g, a, cut
    <3>2. QED
      BY <1>1, <2>2, <2>4, <3>1 DEF PlayFits, Commanded, Session, Paused, Application
  <2>8. CASE NothingDue(n, g)
    BY <1>1, <2>4, <2>8 DEF NothingDue
  <2>9. QED
    BY <1>6, <2>5, <2>6, <2>7, <2>8 DEF sim_session_heartbeat
<1>7. ASSUME NEW m \in net, m.to = n, sim_session_process(m) PROVE PlayFits(n, ses'[n], app'[n])
  <2>1. CASE ses'[n] = h /\ app'[n] = b
    BY <1>2, <2>1
  <2>2. CASE process_sim_connect(n, m)
    <3>1. /\ ses'[n] = [h EXCEPT !.receiver = TRUE, !.rcid = m.cid, !.waited = 0]
          /\ app'[n] = IF s.receiver THEN b ELSE Started(b)
          /\ n \notin Callers
      BY <1>1, <1>7, <2>2 DEF process_sim_connect, PlayInv
    <3>2. h.receiver = s.receiver
      BY <1>1, HeardGood
    <3> HIDE DEF h, b, s
    <3>3. QED
      BY <1>2, <3>1, <3>2 DEF PlayFits, Started, Session, Application
  <2>3. CASE process_sim_connect_ack(n, m) /\ s.state = "connecting"
    <3>1. /\ ses'[n] = [h EXCEPT !.state = "connected", !.sender = TRUE, !.interrupt = "recover"]
          /\ app'[n] = Connected(b)
      BY <1>1, <1>7, <2>3 DEF process_sim_connect_ack
    <3>2. n \in Callers
      BY <1>1, <2>3 DEF PlayFits
    <3> HIDE DEF h, b, s
    <3>3. QED
      BY <1>2, <3>1, <3>2 DEF PlayFits, Connected, Session, Application
  <2>4. CASE process_sim_disconnect(n, m)
    <3> DEFINE gone == s.receiver /\ s.rcid = m.cid
    <3>1. /\ ses'[n] = [h EXCEPT !.receiver = IF gone THEN FALSE ELSE @]
          /\ app'[n] = IF gone THEN Stopped(b) ELSE b
      BY <1>1, <1>7, <2>4 DEF process_sim_disconnect
    <3> HIDE DEF h, b, gone
    <3>3. QED
      BY <1>2, <3>1 DEF PlayFits, Stopped, Session, Application
  <2>5. CASE process_sim_disconnect_ack(n, m) /\ s.state = "disconnected"
    <3>1. ses'[n] = sim_session_reset /\ app'[n] = Ended(b)
      BY <1>1, <1>7, <2>5 DEF process_sim_disconnect_ack
    <3>2. ~h.receiver
      BY <1>1, <2>5, HeardGood DEF PlayFits
    <3> HIDE DEF h, b
    <3>3. QED
      BY <1>2, <3>1, <3>2 DEF PlayFits, Ended, sim_session_reset, Application
  <2>6. QED
    BY <1>1, <1>7, <2>1, <2>2, <2>3, <2>4, <2>5 DEF sim_session_process, process_sim_connect_ack,
       process_sim_disconnect_ack, process_sim_ping, process_sim_pong
<1>8. QED
  BY <1>3, <1>4, <1>5, <1>6, <1>7 DEF Moved

LEMMA ConnectsPlay ==
  ASSUME IInv, PlayInv, Next, NEW c, Callers \subseteq {c}, NEW m \in net', m.type = "CONNECT"
  PROVE  m.to \notin Callers
<1>1. /\ ses \in [Ends -> Session] /\ net \subseteq Message
      /\ \A n \in Ends : n \in Callers => Peer(n) \notin Callers
  BY PeerIsOther DEF IInv, Sessions, Rest
<1>2. CASE m \in net
  BY <1>2 DEF PlayInv
<1>3. ASSUME NEW n \in Ends, sim_session_connect(n), m \notin net PROVE m.to \notin Callers
  BY <1>1, <1>3 DEF sim_session_connect, Msg
<1>4. ASSUME NEW n \in Ends, sim_session_disconnect(n), m \notin net PROVE FALSE
  BY <1>4 DEF sim_session_disconnect, Msg
<1>5. ASSUME NEW n \in Ends, NEW d \in Beats, sim_session_heartbeat(n, d), m \notin net
      PROVE  m.to \notin Callers
  <2>1. m.to = Peer(n) /\ Aged(ses[n], d).state = "connecting"
    BY <1>5 DEF sim_session_heartbeat, ResendCommand, sim_session_send_ping, NothingDue, GiveUpCall, Msg
  <2>2. ses[n].state = "connecting"
    BY <1>1, <2>1 DEF Aged, Session
  <2>3. n \in Callers
    BY <2>2 DEF PlayInv, PlayFits
  <2>4. QED
    BY <1>1, <2>1, <2>3
<1>6. ASSUME NEW x \in net, sim_session_process(x), m \notin net PROVE FALSE
  BY <1>6 DEF sim_session_process, process_sim_connect, process_sim_connect_ack, process_sim_disconnect,
     process_sim_disconnect_ack, process_sim_ping, process_sim_pong, Arrives, Msg
<1>7. QED
  BY <1>2, <1>3, <1>4, <1>5, <1>6 DEF Next, sim_session_destroy, sim_session_create, Lose

(* With one caller, the application plays video exactly while its session   *)
(* has a receiver: every start and stop is told.                            *)
THEOREM PlayAlwaysKnown ==
  ASSUME NEW CONSTANT c, Callers \subseteq {c}
  PROVE  Spec => []PlayKnown
<1>1. Init => PlayInv
  BY DEF Init, PlayInv, PlayFits, sim_session_reset, NewApp
<1>2. ASSUME IInv, PlayInv, [Next]_vars PROVE PlayInv'
  <2>1. CASE UNCHANGED vars
    BY <1>2, <2>1 DEF vars, PlayInv
  <2>2. CASE Next
    <3>1. ASSUME NEW n \in Ends PROVE PlayFits(n, ses'[n], app'[n])
      BY <1>2, <2>2, StepOfEnd, EndPlays DEF Unmoved, PlayInv
    <3>2. \A m \in net' : m.type = "CONNECT" => m.to \notin Callers
      BY <1>2, <2>2, ConnectsPlay
    <3>3. QED
      BY <3>1, <3>2 DEF PlayInv
  <2>3. QED
    BY <1>2, <2>1, <2>2
<1>3. PlayInv => PlayKnown
  BY DEF PlayInv, PlayFits, PlayKnown
<1>4. QED
  BY <1>1, <1>2, <1>3, InductiveInvariant, PTL DEF Spec


-----------------------------------------------------------------------------
(* How long a session that counts c resends and has waited for w since the  *)
(* last must have heard nothing: a ping takes a quarter of a second, a      *)
(* command four, though the peer may be heard just before the first.        *)
Pinging(s)  == s.sender \/ s.receiver
InCommand(s) == s.state \in {"connecting", "disconnected"}

Silent(s, q) ==
  /\ Pinging(s) => q >= GiveUp \/ q >= s.resend + (IF s.waited > 0 THEN 1 ELSE 0) - PING_TICK
  /\ Pinging(s) /\ InCommand(s) => s.waited = 0
  /\ ~Pinging(s) /\ InCommand(s) =>
       q >= GiveUp \/ q >= COMMAND_TICK * s.resend + s.waited - COMMAND_TICK

SilenceInv == \A n \in Ends : Silent(ses[n], silence[n])

(* A session that has just heard from its peer, or has begun a call or its  *)
(* end, fits whatever it was.                                               *)
LEMMA FreshSilent ==
  ASSUME NEW s \in Session, NEW q \in Nat,
         \/ s.resend = 0 /\ (Pinging(s) /\ InCommand(s) => s.waited = 0)
         \/ s.resend = 1 /\ s.waited = 0
  PROVE  Silent(s, q)
BY DEF Silent, Session, PING_TICK, COMMAND_TICK

(* A command sent counts as a resend and restarts the timer.                *)
LEMMA CommandedCounts ==
  ASSUME NEW s \in Session
  PROVE  /\ Commanded(s) \in Session /\ Commanded(s).resend = s.resend + 1 /\ Commanded(s).waited = 0
         /\ Commanded(s).state = s.state /\ Commanded(s).sender = s.sender
         /\ Commanded(s).receiver = s.receiver
<1>1. 0 \in 0 .. COMMAND_TICK /\ s.resend + 1 \in Nat
  BY DEF Session, COMMAND_TICK
<1>2. QED
  BY <1>1 DEF Commanded, Session

LEMMA EndSilent ==
  ASSUME IInv, SilenceInv, Beats \subseteq {1}, NEW n \in Ends, Moved(n)
  PROVE  /\ Silent(ses'[n], silence'[n])
         /\ GivesUp(n) => silence'[n] >= GiveUp
<1> DEFINE s == ses[n]
           q == silence[n]
           h == Heard(s)
<1>1. /\ s \in Session /\ Good(s, app[n]) /\ Silent(s, q) /\ q \in Nat /\ q <= GiveUp
      /\ ses \in [Ends -> Session] /\ silence \in [Ends -> 0 .. GiveUp] /\ net \subseteq Message
      /\ GiveUp \in Nat
  BY TimersAssumption DEF IInv, Sessions, Rest, SilenceInv
<1>2. /\ h \in Session /\ h.resend = 0 /\ h.state = s.state /\ h.sender = s.sender
      /\ h.receiver = s.receiver /\ h.waited = s.waited
  BY <1>1 DEF Heard, Session
<1>3. CASE sim_session_connect(n)
  <2> DEFINE p == [s EXCEPT !.state = "connecting", !.resend = 0, !.scid = calls + 1]
             t == Commanded(p)
  <2>1. ses'[n] = t /\ silence'[n] = 0 /\ calls \in Nat
    BY <1>1, <1>3 DEF sim_session_connect, IInv, Rest
  <2>2. t \in Session /\ t.resend = 1 /\ t.waited = 0
    <3> HIDE DEF s
    <3>1. calls + 1 \in Nat
      BY <2>1
    <3>2. p \in Session /\ p.resend = 0
      BY <1>1, <3>1 DEF Session
    <3> HIDE DEF p
    <3>3. QED
      BY <3>2, CommandedCounts
  <2>3. t # sim_session_reset
    BY <2>2 DEF sim_session_reset
  <2> HIDE DEF t
  <2>4. QED
    BY <2>1, <2>2, <2>3, FreshSilent DEF GivesUp
<1>4. CASE sim_session_disconnect(n)
  <2> DEFINE p == [s EXCEPT !.state = "disconnected", !.resend = 0]
             t == Commanded(p)
  <2>1. ses'[n] = t /\ silence'[n] = q
    BY <1>1, <1>4 DEF sim_session_disconnect
  <2>2. t \in Session /\ t.resend = 1 /\ t.waited = 0
    <3> HIDE DEF s
    <3>1. p \in Session /\ p.resend = 0
      BY <1>1 DEF Session
    <3> HIDE DEF p
    <3>2. QED
      BY <3>1, CommandedCounts
  <2>3. t # sim_session_reset
    BY <2>2 DEF sim_session_reset
  <2> HIDE DEF t
  <2>4. QED
    BY <1>1, <2>1, <2>2, <2>3, FreshSilent DEF GivesUp
<1>5. CASE sim_session_destroy(n)
  <2>1. ses'[n] = sim_session_reset /\ silence'[n] = 0 /\ ~up'[n]
    BY <1>1, <1>5 DEF sim_session_destroy, IInv, Rest
  <2>2. QED
    BY <2>1 DEF GivesUp, Silent, Pinging, InCommand, sim_session_reset
<1>6. ASSUME NEW d \in Beats, sim_session_heartbeat(n, d)
      PROVE  /\ Silent(ses'[n], silence'[n])
             /\ GivesUp(n) => silence'[n] >= GiveUp
  <2> DEFINE g == Aged(s, d)
             r == silence'[n]
  <2>1. d = 1
    BY <1>6
  <2>2. r = IF q + 1 < GiveUp THEN q + 1 ELSE GiveUp
    BY <1>1, <1>6, <2>1 DEF sim_session_heartbeat
  <2>3. r \in Nat /\ (r >= GiveUp \/ r = q + 1)
    BY <1>1, <2>2
  <2>4. /\ g \in Session /\ g.state = s.state /\ g.sender = s.sender /\ g.receiver = s.receiver
        /\ g.resend = s.resend
        /\ g.waited = IF s.waited + 1 < COMMAND_TICK THEN s.waited + 1 ELSE COMMAND_TICK
    BY <1>1, <2>1, AgedGood DEF Aged, Good, Session, COMMAND_TICK
  <2>5. g.waited \in 1 .. COMMAND_TICK /\ g.waited <= s.waited + 1 /\ s.waited \in Nat /\ g.resend \in Nat
    BY <1>1, <2>4 DEF Session, COMMAND_TICK
  <2>6. Pinging(g) => r >= GiveUp \/ r >= g.resend + 1 - PING_TICK
    BY <1>1, <2>3, <2>4, <2>5 DEF Silent, Pinging, PING_TICK
  <2>7. Pinging(g) /\ InCommand(g) => g.waited = 1
    BY <1>1, <2>4 DEF Silent, Pinging, InCommand, COMMAND_TICK
  <2>8. ~Pinging(g) /\ InCommand(g) => r >= GiveUp \/ r >= COMMAND_TICK * g.resend + g.waited - COMMAND_TICK
    BY <1>1, <2>3, <2>4, <2>5 DEF Silent, Pinging, InCommand, COMMAND_TICK
  <2> HIDE DEF s, q, g, r
  <2>9. CASE CommandDue(g)
    <3>1. InCommand(g) /\ g.waited = COMMAND_TICK /\ ~Pinging(g)
      BY <2>5, <2>7, <2>9 DEF CommandDue, InCommand, COMMAND_TICK
    <3>2. r >= GiveUp \/ r >= COMMAND_TICK * g.resend
      BY <2>5, <2>8, <3>1 DEF COMMAND_TICK
    <3>3. CASE g.resend * COMMAND_TICK < GiveUp
      <4>1. ResendCommand(n, g)
        BY <1>6, <2>9 DEF sim_session_heartbeat, sim_session_send_ping, NothingDue, PingDue, g, s
      <4>2. ses'[n] = Commanded(g)
        BY <1>1, <3>3, <4>1 DEF ResendCommand
      <4>3. /\ Commanded(g) \in Session /\ Commanded(g).resend = g.resend + 1 /\ Commanded(g).waited = 0
            /\ Commanded(g).state = g.state /\ Commanded(g).sender = g.sender
            /\ Commanded(g).receiver = g.receiver
        BY <2>4, CommandedCounts
      <4>4. ~Pinging(Commanded(g)) /\ InCommand(Commanded(g))
        BY <3>1, <4>3 DEF Pinging, InCommand
      <4>5. Silent(Commanded(g), r)
        BY <2>5, <3>2, <4>3, <4>4 DEF Silent, COMMAND_TICK
      <4>6. Commanded(g) # sim_session_reset
        BY <2>5, <4>3 DEF sim_session_reset
      <4>7. QED
        BY <4>2, <4>5, <4>6 DEF GivesUp, r
    <3>4. CASE ~(g.resend * COMMAND_TICK < GiveUp)
      <4>1. GiveUpCall(n)
        BY <1>6, <2>9, <3>4 DEF sim_session_heartbeat, sim_session_send_ping, NothingDue, PingDue, ResendCommand, g, s
      <4>2. ses'[n] = sim_session_reset
        BY <1>1, <4>1 DEF GiveUpCall
      <4>3. r >= GiveUp
        BY <1>1, <2>3, <2>5, <3>2, <3>4 DEF COMMAND_TICK
      <4>4. QED
        BY <4>2, <4>3 DEF r, Silent, Pinging, InCommand, sim_session_reset
    <3>5. QED
      BY <3>3, <3>4
  <2>10. CASE PingDue(g)
    <3>1. Pinging(g) /\ (r >= GiveUp \/ r >= g.resend)
      BY <2>3, <2>5, <2>6, <2>10 DEF PingDue, Pinging, PING_TICK
    <3>2. CASE g.resend * PING_TICK < GiveUp
      <4> DEFINE cut == g.resend + 1 > InterruptResends
                 t == [Commanded(g) EXCEPT !.interrupt = IF cut THEN "interrupt" ELSE @]
      <4>1. sim_session_send_ping(n, g)
        BY <1>6, <2>10 DEF sim_session_heartbeat, ResendCommand, NothingDue, PingDue, g, s
      <4>2. ses'[n] = t
        BY <1>1, <3>2, <4>1 DEF sim_session_send_ping
      <4> HIDE DEF cut
      <4>3. /\ t.resend = g.resend + 1 /\ t.waited = 0
            /\ t.sender = g.sender /\ t.receiver = g.receiver
        BY <2>4, <2>5 DEF Commanded, Session
      <4> HIDE DEF t
      <4>4. Pinging(t) /\ t # sim_session_reset
        BY <2>5, <3>1, <4>3 DEF Pinging, sim_session_reset
      <4>5. Silent(t, r)
        BY <2>5, <3>1, <4>3, <4>4 DEF Silent, PING_TICK
      <4>6. QED
        BY <4>2, <4>4, <4>5 DEF GivesUp, r
    <3>3. CASE ~(g.resend * PING_TICK < GiveUp)
      <4>1. GiveUpCall(n)
        BY <1>6, <2>10, <3>3 DEF sim_session_heartbeat, sim_session_send_ping, NothingDue, PingDue, ResendCommand, g, s
      <4>2. ses'[n] = sim_session_reset
        BY <1>1, <4>1 DEF GiveUpCall
      <4>3. r >= GiveUp
        BY <1>1, <2>3, <2>5, <3>1, <3>3 DEF PING_TICK
      <4>4. QED
        BY <4>2, <4>3 DEF r, Silent, Pinging, InCommand, sim_session_reset
    <3>4. QED
      BY <3>2, <3>3
  <2>11. CASE ~CommandDue(g) /\ ~PingDue(g)
    <3>1. NothingDue(n, g)
      BY <1>6, <2>11 DEF sim_session_heartbeat, ResendCommand, sim_session_send_ping, g, s
    <3>2. ses'[n] = g
      BY <1>1, <3>1 DEF NothingDue
    <3>3. ~Pinging(g)
      BY <2>5, <2>11 DEF PingDue, Pinging, PING_TICK
    <3>4. Silent(g, r)
      BY <2>8, <3>3 DEF Silent
    <3>5. g # sim_session_reset
      BY <2>5 DEF sim_session_reset
    <3>6. QED
      BY <3>2, <3>4, <3>5 DEF GivesUp, r
  <2>12. QED
    BY <2>9, <2>10, <2>11
<1>7. ASSUME NEW m \in net, m.to = n, sim_session_process(m)
      PROVE  /\ Silent(ses'[n], silence'[n])
             /\ GivesUp(n) => silence'[n] >= GiveUp
  <2>1. silence'[n] = 0
    BY <1>1, <1>7 DEF sim_session_process, process_sim_connect, process_sim_connect_ack, process_sim_disconnect,
       process_sim_disconnect_ack, process_sim_ping, process_sim_pong, Arrives
  <2>2. ~GivesUp(n)
    BY <2>1 DEF GivesUp
  <2>3. CASE ses'[n] = h
    <3>1. Pinging(h) /\ InCommand(h) => h.waited = 0
      BY <1>1, <1>2 DEF Silent, Pinging, InCommand
    <3> HIDE DEF h
    <3>2. QED
      BY <1>2, <2>1, <2>2, <2>3, <3>1, FreshSilent
  <2>4. CASE process_sim_connect(n, m)
    <3> DEFINE t == [h EXCEPT !.receiver = TRUE, !.rcid = m.cid, !.waited = 0]
    <3>1. ses'[n] = t /\ m.cid \in Nat
      BY <1>1, <1>7, <2>4 DEF process_sim_connect, Message
    <3> HIDE DEF h
    <3>2. 0 \in 0 .. COMMAND_TICK
      BY DEF COMMAND_TICK
    <3>3. t \in Session /\ t.resend = 0 /\ t.waited = 0
      BY <1>2, <3>1, <3>2 DEF Session
    <3> HIDE DEF t
    <3>4. QED
      BY <2>1, <2>2, <3>1, <3>3, FreshSilent
  <2>5. CASE process_sim_connect_ack(n, m) /\ s.state = "connecting"
    <3> DEFINE t == [h EXCEPT !.state = "connected", !.sender = TRUE, !.interrupt = "recover"]
    <3>1. ses'[n] = t
      BY <1>1, <1>7, <2>5 DEF process_sim_connect_ack
    <3> HIDE DEF h
    <3>2. t \in Session /\ t.resend = 0 /\ t.state = "connected"
      BY <1>2 DEF Session
    <3> HIDE DEF t
    <3>3. QED
      BY <2>1, <2>2, <3>1, <3>2, FreshSilent DEF InCommand
  <2>6. CASE process_sim_disconnect(n, m)
    <3> DEFINE gone == s.receiver /\ s.rcid = m.cid
               t == [h EXCEPT !.receiver = IF gone THEN FALSE ELSE @]
    <3>1. ses'[n] = t
      BY <1>1, <1>7, <2>6 DEF process_sim_disconnect
    <3>2. Pinging(s) /\ InCommand(s) => s.waited = 0
      BY <1>1 DEF Silent
    <3> HIDE DEF h, gone
    <3>3. /\ t \in Session /\ t.resend = 0 /\ t.waited = s.waited /\ t.state = s.state
          /\ t.sender = s.sender /\ (t.receiver => s.receiver)
      BY <1>2 DEF Session
    <3> HIDE DEF t
    <3>4. Pinging(t) /\ InCommand(t) => t.waited = 0
      BY <3>2, <3>3 DEF Pinging, InCommand
    <3>5. QED
      BY <2>1, <2>2, <3>1, <3>3, <3>4, FreshSilent
  <2>7. CASE process_sim_disconnect_ack(n, m) /\ s.state = "disconnected"
    <3>1. ses'[n] = sim_session_reset
      BY <1>1, <1>7, <2>7 DEF process_sim_disconnect_ack
    <3>2. QED
      BY <2>1, <2>2, <3>1 DEF Silent, Pinging, InCommand, sim_session_reset
  <2>8. QED
    BY <1>1, <1>7, <2>3, <2>4, <2>5, <2>6, <2>7 DEF sim_session_process, process_sim_connect_ack,
       process_sim_disconnect_ack, process_sim_ping, process_sim_pong
<1>8. QED
  BY <1>3, <1>4, <1>5, <1>6, <1>7 DEF Moved

(* With a heartbeat in every quarter of a second, a session gives up on its *)
(* peer only after hearing nothing for the whole of the resending time.     *)
THEOREM GivesUpOnlyOnSilence ==
  ASSUME Beats \subseteq {1}
  PROVE  Spec => GivesUpOnSilence
<1>1. Init => SilenceInv
  BY DEF Init, SilenceInv, Silent, Pinging, InCommand, sim_session_reset
<1>2. ASSUME IInv, SilenceInv, Next, NEW n \in Ends
      PROVE  /\ Silent(ses'[n], silence'[n])
             /\ GivesUp(n) => silence'[n] >= GiveUp
  <2>1. CASE Moved(n)
    BY <1>2, <2>1, EndSilent
  <2>2. CASE Unmoved(n)
    <3>1. ses[n] # sim_session_reset \/ ~Watched(ses[n])
      BY DEF Watched, sim_session_reset
    <3>2. QED
      BY <1>2, <2>2, <3>1 DEF Unmoved, SilenceInv, GivesUp
  <2>3. QED
    BY <1>2, <2>1, <2>2, StepOfEnd
<1>3. ASSUME IInv, SilenceInv, [Next]_vars PROVE SilenceInv'
  <2>1. CASE UNCHANGED vars
    BY <1>3, <2>1 DEF vars, SilenceInv
  <2>2. CASE Next
    BY <1>2, <1>3, <2>2 DEF SilenceInv
  <2>3. QED
    BY <1>3, <2>1, <2>2
<1>4. IInv /\ SilenceInv /\ [Next]_vars => [\A n \in Ends : GivesUp(n) => silence'[n] >= GiveUp]_vars
  BY <1>2
<1>5. QED
  BY <1>1, <1>3, <1>4, InductiveInvariant, PTL DEF Spec, GivesUpOnSilence
=============================================================================
