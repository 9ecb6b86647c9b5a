----------------------------- MODULE PacerQueue -----------------------------
(***************************************************************************)
(* The pacing queue of ReCapABR/pacing/pacer_queue.c, as operators over a  *)
(* record que with the fields of pacer_queue_t:                            *)
(*   cache       the skip list: packet sequence number -> packet event     *)
(*   l           the list of the same events in order of insertion         *)
(*   total_size  bytes of the events not sent yet                          *)
(*   oldest_ts   que_ts of the oldest event, NoTs when the queue is empty   *)
(* A list element is a pointer to the event the skip list owns; here it is *)
(* the key of that event, so a freed event that is still listed shows as   *)
(* an element of l outside DOMAIN cache.  The flag packet_event_t.retrans  *)
(* is handed through to the send callback and never read here: left out.   *)
(***************************************************************************)
EXTENDS Integers, Sequences, FiniteSets, FiniteSetsExt

CONSTANTS
  PacketSeqs,   \* the packet sequence numbers (send ids) a run uses
  MaxQueMs      \* que->max_que_ms

ASSUME PacketSeqsAssumption == PacketSeqs \subseteq Nat
ASSUME MaxQueMsAssumption == MaxQueMs \in Nat /\ MaxQueMs >= 250   \* pacer_queue_init raises it to k_max_pace_queue_ms

NoTs == -1

PacketEvent == [size : Nat, que_ts : Nat, sent : BOOLEAN]

IsQue(q) ==
  /\ q = [cache |-> q.cache, l |-> q.l, total_size |-> q.total_size, oldest_ts |-> q.oldest_ts]
  /\ DOMAIN q.cache \subseteq PacketSeqs
  /\ q.cache \in [DOMAIN q.cache -> PacketEvent]
  /\ q.l \in Seq(PacketSeqs)
  /\ q.total_size \in Nat
  /\ q.oldest_ts \in Nat \cup {NoTs}

EmptyQue == [cache |-> <<>>, l |-> <<>>, total_size |-> 0, oldest_ts |-> NoTs]

Listed(q)  == {q.l[i] : i \in DOMAIN q.l}
Unsent(q)  == {s \in DOMAIN q.cache : ~q.cache[s].sent}

-----------------------------------------------------------------------------
(* pacer_queue_push: a new number joins the cache and the tail of the list; *)
(* a number already marked sent but not collected yet becomes unsent again, *)
(* keeping its place, size and time stamp; an unsent number is refused.     *)

Inserted(q, s, size, ts) ==
  [q EXCEPT !.cache = [x \in DOMAIN q.cache \cup {s} |->
                         IF x = s
                         THEN [size |-> size, que_ts |-> ts, sent |-> FALSE]
                         ELSE q.cache[x]],
            !.l = Append(q.l, s),
            !.total_size = q.total_size + size]

(* Mutant: the revived event's bytes are not counted again.                 *)
Revived_Uncounted(q, s) == [q EXCEPT !.cache[s].sent = FALSE]

Revived(q, s) ==
  [q EXCEPT !.cache[s].sent = FALSE,
            !.total_size = q.total_size + q.cache[s].size]

Accepted(q, s, size, ts) ==
  IF s \notin DOMAIN q.cache THEN Inserted(q, s, size, ts)
  ELSE IF q.cache[s].sent THEN Revived(q, s)
  ELSE q

pacer_queue_push(q, s, size, ts) ==
  [Accepted(q, s, size, ts) EXCEPT
     !.oldest_ts = IF q.oldest_ts = NoTs \/ q.oldest_ts > ts THEN ts ELSE q.oldest_ts]

(* Mutant: the lowest sequence number, sent already or not.                 *)
pacer_queue_front_AnyEvent(q) ==
  CHOOSE s \in DOMAIN q.cache : \A x \in DOMAIN q.cache : s <= x

(* pacer_queue_front walks the skip list in key order to the first event    *)
(* not sent, and returns the last event of all when there is none.          *)
pacer_queue_front(q) ==
  IF Unsent(q) # {} THEN CHOOSE s \in Unsent(q) : \A x \in Unsent(q) : s <= x
  ELSE CHOOSE s \in DOMAIN q.cache : \A x \in DOMAIN q.cache : s >= x

(* pacer_queue_final: drop the longest sent prefix of the list, and its     *)
(* events; an empty list clears the whole queue.                            *)
FirstUnsent(q) ==
  CHOOSE i \in 1 .. Len(q.l) + 1 :
    /\ \A j \in 1 .. i - 1 : q.cache[q.l[j]].sent
    /\ i <= Len(q.l) => ~q.cache[q.l[i]].sent

(* Mutant: one event collected per call instead of the whole sent prefix.   *)
pacer_queue_final_OneOnly(q) ==
  IF q.l = <<>> THEN EmptyQue
  ELSE IF q.cache[Head(q.l)].sent
  THEN IF Tail(q.l) = <<>> THEN EmptyQue
       ELSE [q EXCEPT !.l = Tail(q.l),
                      !.cache = [x \in DOMAIN q.cache \ {Head(q.l)} |-> q.cache[x]],
                      !.oldest_ts = q.cache[Head(Tail(q.l))].que_ts]
  ELSE q

(* Mutant: the age of the queue is kept when its head is collected.         *)
pacer_queue_final_StaleAge(q) ==
  LET k       == FirstUnsent(q)
      removed == {q.l[j] : j \in 1 .. k - 1}
  IN  IF k > Len(q.l) THEN EmptyQue
      ELSE [q EXCEPT !.l = SubSeq(q.l, k, Len(q.l)),
                     !.cache = [x \in DOMAIN q.cache \ removed |-> q.cache[x]]]

pacer_queue_final(q) ==
  LET k       == FirstUnsent(q)
      rest    == SubSeq(q.l, k, Len(q.l))
      removed == {q.l[j] : j \in 1 .. k - 1}
  IN  IF rest = <<>>
      THEN EmptyQue
      ELSE [q EXCEPT !.l = rest,
                     !.cache = [x \in DOMAIN q.cache \ removed |-> q.cache[x]],
                     !.oldest_ts = q.cache[Head(rest)].que_ts]

(* Mutant: the bytes are taken off once for the mark and once for the       *)
(* collection, with no check.                                               *)
Marked_CountedTwice(q, s) ==
  [q EXCEPT !.cache[s].sent = TRUE,
            !.total_size = q.total_size - 2 * q.cache[s].size]

(* pacer_queue_sent: mark the event, take its bytes off, collect.           *)
Marked(q, s) ==
  [q EXCEPT !.cache[s].sent = TRUE,
            !.total_size = IF q.total_size >= q.cache[s].size
                           THEN q.total_size - q.cache[s].size ELSE 0]

pacer_queue_sent(q, s) == pacer_queue_final(Marked(q, s))

(* pacer_queue_empty answers from the skip list, not from the bytes.        *)
pacer_queue_empty(q) == DOMAIN q.cache = {}

(* pacer_queue_target_bitrate_kbps: the rate that sends every waiting byte  *)
(* before the oldest reaches max_que_ms; once it is older, within 500 ms.   *)
Space(q, now) ==
  IF q.oldest_ts # NoTs /\ now > q.oldest_ts
  THEN IF now - q.oldest_ts >= MaxQueMs THEN 500 ELSE MaxQueMs - (now - q.oldest_ts)
  ELSE MaxQueMs - 1

pacer_queue_target_bitrate_kbps(q, now) ==
  IF DOMAIN q.cache # {} /\ q.total_size > 0
  THEN (q.total_size * 8) \div Space(q, now)
  ELSE 0

-----------------------------------------------------------------------------
(* What the queue's two structures owe each other.                          *)

NoDuplicates(q) == \A i, j \in DOMAIN q.l : q.l[i] = q.l[j] => i = j

(* The list holds exactly the events the skip list owns: no dangling list   *)
(* element, no event that can never be collected.                           *)
SameEvents(q) == Listed(q) = DOMAIN q.cache

(* Collection is complete: the event at the head of the list is unsent, so  *)
(* a queue that is not empty has something to send.                         *)
HeadUnsent(q) == q.l # <<>> => ~q.cache[Head(q.l)].sent

(* total_size counts the bytes of the unsent events and of no other.        *)
SizeExact(q) ==
  q.total_size = MapThenSumSet(LAMBDA s : q.cache[s].size, Unsent(q))

(* oldest_ts is the time stamp of the head of the list, and no waiting      *)
(* event is older.                                                          *)
OldestExact(q) ==
  /\ q.l = <<>> <=> q.oldest_ts = NoTs
  /\ q.l # <<>> => q.oldest_ts = q.cache[Head(q.l)].que_ts
  /\ \A s \in Unsent(q) : q.oldest_ts <= q.cache[s].que_ts
=============================================================================
