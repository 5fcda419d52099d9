---------------------------- MODULE BrokerDelivery ----------------------------
(***************************************************************************)
(* The outbound half of src/selective-telegram-broker.mjs: the run loop    *)
(* polls, flushes the queued replies and drains the event table, sending   *)
(* each in chunks through the outbound rate limiter of src/security.mjs    *)
(* and the retries of src/telegram-api.mjs.  Only the event table and its  *)
(* acknowledgements survive the broker process.                            *)
(*                                                                         *)
(* Of time the module keeps what the limiter tells apart: how many long    *)
(* polls ago a send was counted.  A long poll that no update cuts short    *)
(* lasts 25 s, so a send has left the window of 60 s after three of them.  *)
(* A request that reaches Telegram does so before its call returns.        *)
(***************************************************************************)
EXTENDS Naturals, Sequences, FiniteSets, FiniteSetsExt

CONSTANTS MaxHits,      \* MAX_RATE.max, sends in a window
          WindowPolls,  \* long polls that outlast the window
          MaxAttempts,  \* maxRetries + 1
          MaxPerDrain,  \* MAX_EVENTS_PER_DRAIN
          MaxReplies,   \* MAX_PENDING_REPLIES
          MaxChunks,    \* chunks of the longest message
          MaxEvents, MaxAsked, MaxTroubles  \* bounds

ASSUME ConstantsAssumption ==
    /\ {MaxHits, WindowPolls, MaxAttempts, MaxPerDrain, MaxReplies, MaxChunks}
          \subseteq Nat \ {0}
    /\ {MaxEvents, MaxAsked, MaxTroubles} \subseteq Nat

VARIABLES
    events,    \* store: of each event, in event_id order, its rendered chunks
    acked,     \* store: events with an acknowledged_at
    phone,     \* Telegram: the messages in the chat
    stage,     \* where the run loop stands
    replies,   \* memory: #pendingReplies
    asked,     \* history: chunks of every reply ever queued
    chunk,     \* memory: the chunk to send next; past the last: all are sent
    attempt,   \* memory: attempt of the call in flight, or 0
    hits,      \* memory: of each a, counted sends not older than a long polls
    drained,   \* memory: events of this drain
    troubles

item == <<chunk, attempt>>
vars == <<events, acked, phone, stage, replies, asked, chunk, attempt, hits,
          drained, troubles>>

Message == [what : {"event", "reply"}, n : Nat, chunk : Nat]

NoHits == [a \in 1..WindowPolls |-> 0]
Counted == hits[WindowPolls]

OneMore == [a \in 1..WindowPolls |-> hits[a] + 1]

Unacked == DOMAIN events \ acked

(* Plausible bug: ORDER BY event_id DESC.                                     *)
NewestPending == Max(Unacked)

(* listPendingBrokerTuiEvents({ limit: 1 })                                   *)
Oldest == Min(Unacked)

(* The message in hand and the number of its chunks.                          *)
InHand == CASE stage = "flush" -> [what |-> "reply", n |-> Head(replies)]
            [] OTHER -> [what |-> "event", n |-> Oldest]
Chunks == IF stage = "flush" THEN asked[Head(replies)] ELSE events[Oldest]

Busy ==
    \/ stage = "flush" /\ replies # <<>>
    \/ stage = "drain" /\ Unacked # {} /\ drained < MaxPerDrain /\ events[Oldest] > 0
-----------------------------------------------------------------------------
(* The run loop *)

StartOver == chunk' = 1 /\ attempt' = 0

(* A poll cut short by an update, whose handling queues a reply.  (What a full *)
(* queue drops is never on its way: see SelectiveBroker.)                     *)
PollUpdate(n) ==
    /\ stage = "poll" /\ Len(asked) < MaxAsked
    /\ Len(replies) < MaxReplies
    /\ replies' = Append(replies, Len(asked) + 1)
    /\ asked' = Append(asked, n)
    /\ stage' = "flush"
    /\ UNCHANGED <<events, acked, phone, item, hits, drained, troubles>>

(* What a whole long poll leaves in the window.                               *)
Aged == [a \in 1..WindowPolls |-> IF a = 1 THEN 0 ELSE hits[a - 1]]

QuietPoll ==
    /\ stage = "poll"
    /\ hits' = Aged
    /\ stage' = "flush"
    /\ UNCHANGED <<events, acked, phone, replies, asked, item, drained, troubles>>

(* The oldest counted send leaves the window while the broker does something. *)
Elapse ==
    /\ Counted > 0
    /\ hits' = [a \in 1..WindowPolls |->
                    IF hits[a] = Counted THEN Counted - 1 ELSE hits[a]]
    /\ UNCHANGED <<events, acked, phone, stage, replies, asked, item, drained,
                   troubles>>

BeginDrain == stage' = "drain" /\ drained' = 0

FlushEnds ==
    /\ stage = "flush" /\ replies = <<>>
    /\ BeginDrain
    /\ UNCHANGED <<events, acked, phone, replies, asked, item, hits, troubles>>

DrainEnds ==
    /\ stage = "drain" /\ (Unacked = {} \/ drained = MaxPerDrain)
    /\ stage' = "poll"
    /\ UNCHANGED <<events, acked, phone, replies, asked, item, hits, drained,
                   troubles>>

(* Plausible bug: what has no rendering is neither sent nor acknowledged.     *)
LeaveUnrendered ==
    /\ stage = "drain" /\ Unacked # {} /\ drained < MaxPerDrain
    /\ events[Oldest] = 0
    /\ stage' = "poll"
    /\ UNCHANGED <<events, acked, phone, replies, asked, item, hits, drained,
                   troubles>>

(* #renderEvent answers null: acknowledged unsent.                            *)
AckUnrendered ==
    /\ stage = "drain" /\ Unacked # {} /\ drained < MaxPerDrain
    /\ events[Oldest] = 0
    /\ acked' = acked \cup {Oldest}
    /\ drained' = drained + 1
    /\ UNCHANGED <<events, phone, stage, replies, asked, item, hits, troubles>>
-----------------------------------------------------------------------------
(* #sendChunks *)

(* Plausible bug: the limiter counts but does not refuse.                     *)
TakeUnlimited ==
    /\ Busy /\ attempt = 0 /\ chunk <= Chunks
    /\ hits' = OneMore
    /\ attempt' = 1
    /\ UNCHANGED <<events, acked, phone, stage, replies, asked, chunk, drained,
                   troubles>>

(* #takeOutbound grants a token; the call for the next chunk begins.          *)
Take ==
    /\ Busy /\ attempt = 0 /\ chunk <= Chunks
    /\ Counted < MaxHits
    /\ hits' = OneMore
    /\ attempt' = 1
    /\ UNCHANGED <<events, acked, phone, stage, replies, asked, chunk, drained,
                   troubles>>

(* Plausible bug: a throttled reply is dropped like a failed one.             *)
ThrottledAndDropped ==
    /\ Busy /\ attempt = 0 /\ chunk <= Chunks
    /\ Counted = MaxHits
    /\ StartOver
    /\ IF stage = "flush" THEN BeginDrain /\ replies' = Tail(replies)
                          ELSE stage' = "poll" /\ UNCHANGED <<drained, replies>>
    /\ UNCHANGED <<events, acked, phone, asked, hits, troubles>>

(* 'rate_limited': the reply stays queued, the event pending; both start      *)
(* over with their first chunk in the next cycle.                             *)
Throttled ==
    /\ Busy /\ attempt = 0 /\ chunk <= Chunks
    /\ Counted = MaxHits
    /\ StartOver
    /\ IF stage = "flush" THEN BeginDrain ELSE stage' = "poll" /\ UNCHANGED drained
    /\ UNCHANGED <<events, acked, phone, replies, asked, hits, troubles>>

Arrives ==
    phone' = Append(phone, [what |-> InHand.what, n |-> InHand.n, chunk |-> chunk])

(* Plausible bug: a reply that was sent stays at the head of the queue.       *)
SendOkKeepingReply ==
    /\ attempt > 0
    /\ Arrives
    /\ attempt' = 0
    /\ chunk' = IF stage = "flush" /\ chunk = Chunks THEN 1 ELSE chunk + 1
    /\ UNCHANGED <<events, acked, stage, replies, asked, hits, drained, troubles>>

SendOk ==
    /\ attempt > 0
    /\ Arrives
    /\ attempt' = 0
    /\ IF stage = "flush" /\ chunk = Chunks
       THEN replies' = Tail(replies) /\ chunk' = 1
       ELSE UNCHANGED replies /\ chunk' = chunk + 1
    /\ UNCHANGED <<events, acked, stage, asked, hits, drained, troubles>>

Trouble == troubles < MaxTroubles /\ troubles' = troubles + 1
ArrivesOrNot == Arrives \/ UNCHANGED phone

(* 'network', 'timeout', 'server', 'rate_limited', 'bad_response'.            *)
Retry ==
    /\ attempt > 0 /\ attempt < MaxAttempts
    /\ Trouble
    /\ ArrivesOrNot
    /\ attempt' = attempt + 1
    /\ UNCHANGED <<events, acked, stage, replies, asked, chunk, hits, drained>>

(* Plausible bug: an event of uncertain delivery counts as delivered, as a    *)
(* reply does.                                                                *)
GiveUpAcknowledging ==
    /\ attempt > 0
    /\ Trouble
    /\ ArrivesOrNot
    /\ StartOver
    /\ IF stage = "flush"
       THEN replies' = Tail(replies) /\ UNCHANGED <<stage, acked>>
       ELSE stage' = "poll" /\ acked' = acked \cup {Oldest} /\ UNCHANGED replies
    /\ UNCHANGED <<events, asked, hits, drained>>

(* 'uncertain' after the last attempt, or 'failed' after any: a reply is      *)
(* given up, an event ends the drain and is retried whole.                    *)
GiveUp ==
    /\ attempt > 0
    /\ Trouble
    /\ ArrivesOrNot
    /\ StartOver
    /\ IF stage = "flush" THEN replies' = Tail(replies) /\ UNCHANGED stage
                          ELSE stage' = "poll" /\ UNCHANGED replies
    /\ UNCHANGED <<events, acked, asked, hits, drained>>

(* All chunks 'sent'.                                                         *)
Acknowledge ==
    /\ stage = "drain" /\ Busy /\ chunk > Chunks
    /\ acked' = acked \cup {Oldest}
    /\ drained' = drained + 1
    /\ StartOver
    /\ UNCHANGED <<events, phone, stage, replies, asked, hits, troubles>>

(* The broker dies, by itself or because a store call of the drain threw, and *)
(* is started again.                                                          *)
Restart ==
    /\ Trouble
    /\ IF attempt > 0 THEN ArrivesOrNot ELSE UNCHANGED phone
    /\ stage' = "poll" /\ replies' = <<>> /\ StartOver
    /\ hits' = NoHits /\ drained' = 0
    /\ UNCHANGED <<events, acked, asked>>
-----------------------------------------------------------------------------
(* A Pi session appends an event.                                             *)
Publish(n) ==
    /\ Len(events) < MaxEvents
    /\ events' = Append(events, n)
    /\ UNCHANGED <<acked, phone, stage, replies, asked, item, hits, drained,
                   troubles>>

Init ==
    /\ events = <<>> /\ acked = {} /\ phone = <<>>
    /\ stage = "poll" /\ replies = <<>> /\ asked = <<>>
    /\ chunk = 1 /\ attempt = 0
    /\ hits = NoHits /\ drained = 0 /\ troubles = 0

Loop ==
    \/ QuietPoll \/ FlushEnds \/ DrainEnds \/ AckUnrendered
    \/ Take \/ Throttled \/ SendOk \/ Acknowledge

Next ==
    \/ Loop
    \/ \E n \in 1..MaxChunks : PollUpdate(n)
    \/ Elapse \/ Retry \/ GiveUp \/ Restart
    \/ \E n \in 0..MaxChunks : Publish(n)

Spec == Init /\ [][Next]_vars

(* The loop goes on as long as the process lives; a poll returns at the       *)
(* latest when its 25 s are over.                                             *)
FairSpec == Spec /\ WF_vars(Loop)
-----------------------------------------------------------------------------
(* Properties *)

TypeOK ==
    /\ events \in Seq(0..MaxChunks) /\ asked \in Seq(1..MaxChunks)
    /\ acked \subseteq DOMAIN events
    /\ phone \in Seq(Message)
    /\ stage \in {"poll", "flush", "drain"}
    /\ \A i \in DOMAIN replies : replies[i] \in DOMAIN asked
    /\ chunk \in 1..(MaxChunks + 1) /\ attempt \in 0..MaxAttempts
    /\ attempt > 0 => Busy
    /\ hits \in [1..WindowPolls -> 0..MaxHits]
    /\ \A a, b \in 1..WindowPolls : a <= b => hits[a] <= hits[b]
    /\ drained \in 0..MaxPerDrain /\ troubles \in 0..MaxTroubles

IsEvent(i) == phone[i].what = "event"

(* The phone shows the events of all sessions in the order they happened:     *)
(* after retries, throttles and restarts a part of an event may be there      *)
(* again, but never after something newer.                                    *)
EventsInOrder ==
    \A i, j \in DOMAIN phone :
        i < j /\ IsEvent(i) /\ IsEvent(j) => phone[i].n <= phone[j].n

(* An acknowledged event, which nothing will send again, is on the phone      *)
(* whole, its chunks in order, and so is every event before it.               *)
AckedIsOnThePhone ==
    \A e \in acked : \A f \in 1..e : events[f] > 0 =>
        \E at \in [1..events[f] -> DOMAIN phone] :
            /\ \A c \in 1..events[f] :
                  phone[at[c]] = [what |-> "event", n |-> f, chunk |-> c]
            /\ \A c \in 2..events[f] : at[c - 1] < at[c]

(* A message is on the phone twice only after something went wrong, or when   *)
(* the limiter stopped it in its midst: never for a message of one chunk.     *)
OneChunkShownOnce ==
    troubles = 0 =>
        \A i, j \in DOMAIN phone :
            LET m == phone[i]
            IN  /\ m = phone[j]
                /\ (IF m.what = "event" THEN events[m.n] ELSE asked[m.n]) = 1
                => i = j

(* Every event is told in the end, whatever interrupts the sending; a message *)
(* of several chunks is not starved by a limiter that keeps it from its last  *)
(* chunk, because the window frees more sends than a cycle can waste.         *)
EveryEventIsTold ==
    \A e \in 1..MaxEvents : e <= Len(events) ~> e \in acked

(* "Once the window frees, the kept notice is delivered - never lost".        *)
KeptNoticeDelivered ==
    \A r \in 1..MaxAsked :
        r <= Len(asked) ~>
            \/ r <= Len(asked) /\ \E i \in DOMAIN phone :
                  phone[i] = [what |-> "reply", n |-> r, chunk |-> asked[r]]
            \/ troubles > 0
=============================================================================
