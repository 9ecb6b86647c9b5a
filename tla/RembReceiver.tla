---------------------------- MODULE RembReceiver ----------------------------
(***************************************************************************)
(* The receiver of REMB congestion control, remb/remb_receiver.c: it       *)
(* measures what comes and reports it at intervals.  Packets come in any   *)
(* order, more than once or never.                                         *)
(*                                                                         *)
(* A report's structure is not initialised and its flags are set by "or":  *)
(* one without a loss fraction may be marked as having one, which then     *)
(* says anything (Garbage).                                                *)
(***************************************************************************)
EXTENDS ReceiveStats

CONSTANTS
  remb_time_event,   \* 200 ms
  RembSizes,         \* sizes of packets
  LastId,            \* bound: the greatest number of a packet
  PerTime,           \* bound: bytes that come at one time
  LastTime,          \* bound of the clock
  Pauses             \* times between two events of interest

ASSUME RembAssumption ==
  /\ remb_time_event \in Nat /\ LastId \in Nat /\ PerTime \in Nat /\ LastTime \in Nat
  /\ RembSizes \subseteq Nat /\ Pauses \subseteq Nat \ {0}

VARIABLES
  remb,      \* the remb_receiver_t
  rembNow,   \* GET_SYS_MS()
  remb_msg,  \* the report just sent, or NoReport
  bytes,     \* history: what came, by its time, as far back as the window
  seen,      \* history: numbers that came
  tooLate    \* history: a packet came after one with a greater number had left the list

rembVars == <<remb, rembNow, remb_msg, bytes, seen, tooLate>>

Garbage  == [lost |-> -2, num |-> -2]
NoReport == [remb |-> 0, loss |-> NoFraction]

remb_receive_create == [feedback_ts |-> 0, loss_stat |-> loss_statistics_init, rate |-> rate_stat_init]

RembInit ==
  /\ remb = remb_receive_create
  /\ rembNow = 0
  /\ remb_msg = NoReport
  /\ bytes = [t \in 0 .. LastTime |-> 0]
  /\ seen = {}
  /\ tooLate = FALSE

remb_receive_on_received(id, size) ==
  /\ bytes[rembNow] + size <= PerTime
  /\ remb' = [remb EXCEPT !.loss_stat = loss_statistics_incoming(remb.loss_stat, id, rembNow),
                          !.rate = rate_stat_update(remb.rate, size, rembNow)]
  /\ bytes' = [bytes EXCEPT ![rembNow] = bytes[rembNow] + size]
  /\ seen' = seen \cup {id}
  /\ tooLate' = (tooLate \/ \E x \in seen : x > id /\ x \notin DOMAIN remb.loss_stat.list)
  /\ remb_msg' = NoReport
  /\ UNCHANGED rembNow

remb_receive_heartbeat ==
  /\ remb.feedback_ts + remb_time_event <= rembNow
  /\ LET rate    == rate_stat_erase(remb.rate, rembNow)
         bitrate == RateOf(rate, rembNow)
         loss    == [remb.loss_stat EXCEPT !.list = loss_evict_oldest(remb.loss_stat.list, rembNow)]
     IN  IF bitrate <= 0
         THEN remb' = [remb EXCEPT !.rate = rate] /\ remb_msg' = NoReport
         ELSE /\ remb' = [feedback_ts |-> rembNow, loss_stat |-> loss, rate |-> rate]
              /\ \E fraction \in IF FractionOf(loss) = NoFraction THEN {NoFraction, Garbage} ELSE {FractionOf(loss)} :
                    remb_msg' = [remb |-> bitrate, loss |-> fraction]
  /\ UNCHANGED <<rembNow, bytes, seen, tooLate>>

RembTick(ms) == /\ rembNow + ms <= LastTime
                /\ rembNow' = rembNow + ms
                /\ bytes' = [t \in 0 .. LastTime |-> IF t > rembNow' - wnd_size THEN bytes[t] ELSE 0]
                /\ remb_msg' = NoReport
                /\ UNCHANGED <<remb, seen, tooLate>>

RembNext == \/ \E id \in 0 .. LastId, size \in RembSizes : remb_receive_on_received(id, size)
            \/ remb_receive_heartbeat
            \/ \E ms \in Pauses : RembTick(ms)

RembSpec == RembInit /\ [][RembNext]_rembVars

-----------------------------------------------------------------------------
Reported == remb_msg' # NoReport

(* The rate a report gives is that of what came within the window before    *)
(* it, through idle times of any length and however the ring has turned     *)
(* (rate_stat.c).                                                           *)
RateTrue ==
  remb_msg'.remb = SumFunctionOnSet(bytes, {t \in 0 .. rembNow : t > rembNow - wnd_size})

(* Where a report counts packets lost they are those never seen between the *)
(* oldest in the list and the newest: eviction leaves no holes and a packet *)
(* that comes late or twice is counted right (cc_loss_stat.c).  Unless it   *)
(* comes after the list has gone past it: then all that left the list since *)
(* counts as lost.                                                          *)
LossTrue ==
  remb_msg'.loss.num > 0 /\ ~tooLate =>
    LET newest == Max(seen)
    IN  remb_msg'.loss.lost = Cardinality((newest - remb_msg'.loss.num + 1 .. newest) \ seen)

(* A report gives the rate and the loss of what really came.                *)
RembTrue == [][Reported => RateTrue /\ LossTrue]_rembVars
=============================================================================
