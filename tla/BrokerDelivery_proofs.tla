------------------------ MODULE BrokerDelivery_proofs ------------------------
(***************************************************************************)
(* Theorems about BrokerDelivery, for any limiter, any number of attempts, *)
(* events, replies and chunks, and any bound on what goes wrong.           *)
(***************************************************************************)
EXTENDS BrokerDelivery, WellFoundedInduction, TLAPS

-----------------------------------------------------------------------------
(* The inductive invariant, in four parts.  TLC checked it first.            *)

(* The run loop is in the midst of a message only while it has one in hand.  *)
PlaceInv ==
    /\ replies \in Seq(Nat)
    /\ attempt > 0 => chunk <= Chunks
    /\ chunk > 1 => Busy
    /\ Busy => chunk <= IF stage = "flush" THEN Chunks ELSE Chunks + 1

(* Events are acknowledged in order, and the phone has seen nothing newer    *)
(* than the oldest that is not.                                              *)
OrderInv ==
    /\ \A e \in acked : \A f \in 1..e : f \in acked
    /\ \A i \in DOMAIN phone : IsEvent(i) =>
          phone[i].n \in DOMAIN events /\ \A u \in Unacked : phone[i].n <= u
    /\ EventsInOrder

(* The first n chunks of event e are on the phone, in order.                 *)
OnPhone(e, n) ==
    \E at \in [1..n -> DOMAIN phone] :
        /\ \A c \in 1..n : phone[at[c]] = [what |-> "event", n |-> e, chunk |-> c]
        /\ \A c \in 2..n : at[c - 1] < at[c]

WholeInv ==
    /\ \A e \in acked : events[e] > 0 => OnPhone(e, events[e])
    /\ stage = "drain" /\ Busy => OnPhone(Oldest, chunk - 1)

(* While nothing went wrong, a message of one chunk that is on the phone is  *)
(* done with, or is the event about to be acknowledged.                      *)
DoneEvents ==
    \A i \in DOMAIN phone :
        IsEvent(i) /\ phone[i].n \in Unacked /\ events[phone[i].n] = 1 =>
            stage = "drain" /\ Busy /\ phone[i].n = Oldest /\ chunk > 1

DoneReplies ==
    \A i \in DOMAIN phone :
        ~IsEvent(i) /\ asked[phone[i].n] = 1 =>
            \A k \in DOMAIN replies : replies[k] # phone[i].n

Numbered ==
    /\ \A i, j \in DOMAIN replies : replies[i] = replies[j] => i = j
    /\ \A i \in DOMAIN phone : ~IsEvent(i) =>
          phone[i].what = "reply" /\ phone[i].n \in DOMAIN asked

OnceInv ==
    /\ Numbered
    /\ troubles = 0 => DoneEvents /\ DoneReplies
    /\ OneChunkShownOnce

IInv == TypeOK /\ PlaceInv /\ OrderInv /\ WholeInv /\ OnceInv

-----------------------------------------------------------------------------
(* The oldest pending event                                                  *)

LEMMA Constants ==
    /\ MaxHits \in Nat \ {0} /\ WindowPolls \in Nat \ {0} /\ MaxAttempts \in Nat \ {0}
    /\ MaxPerDrain \in Nat \ {0} /\ MaxChunks \in Nat \ {0} /\ MaxTroubles \in Nat
  BY ConstantsAssumption

LEMMA MinOfSet ==
    ASSUME NEW T \in SUBSET Nat, T # {}
    PROVE  Min(T) \in T /\ \A j \in T : Min(T) <= j
  <1>1. PICK i \in T : \A j \in T : ~ (<<j, i>> \in OpToRel(<, Nat))
    BY WFMin, NatLessThanWellFounded
  <1>2. \A j \in T : ~(j < i)
    BY <1>1 DEF OpToRel
  <1>3. \E k \in T : \A j \in T : k <= j
    BY <1>2
  <1> QED BY <1>3 DEF Min

LEMMA OldestIsPending ==
    ASSUME TypeOK, Unacked # {}
    PROVE  /\ Oldest \in Unacked /\ Oldest \in DOMAIN events /\ Oldest \in Nat \ {0}
           /\ \A u \in Unacked : Oldest <= u
           /\ events[Oldest] \in 0..MaxChunks
  <1>1. Unacked \in SUBSET Nat /\ events \in Seq(0..MaxChunks) /\ Unacked \subseteq DOMAIN events
    BY DEF TypeOK, Unacked
  <1>2. Oldest \in Unacked /\ \A u \in Unacked : Oldest <= u
    BY <1>1, MinOfSet DEF Oldest
  <1>3. PICK x \in DOMAIN events : x = Oldest
    BY <1>1, <1>2
  <1>4. x \in Nat \ {0}
    BY <1>1
  <1>5. events[x] \in 0..MaxChunks
    BY <1>1, ConstantsAssumption
  <1> QED BY <1>2, <1>3, <1>4, <1>5

(* What is published is not the oldest.                                      *)
LEMMA OldestStays ==
    ASSUME TypeOK, NEW n \in 0..MaxChunks, events' = Append(events, n), acked' = acked
    PROVE  /\ Unacked \subseteq Unacked'
           /\ \A u \in Unacked' : u \in Unacked \/ u = Len(events) + 1
           /\ Unacked # {} => Oldest' = Oldest /\ events'[Oldest] = events[Oldest]
           /\ \A i \in DOMAIN events : i \in DOMAIN events' /\ events'[i] = events[i]
           /\ events' \in Seq(0..MaxChunks)
  <1>1. /\ events \in Seq(0..MaxChunks) /\ acked \subseteq DOMAIN events
        /\ Len(events) \in Nat /\ DOMAIN events = 1..Len(events)
    BY DEF TypeOK
  <1>2. /\ DOMAIN events' = DOMAIN events \cup {Len(events) + 1}
        /\ \A i \in DOMAIN events : events'[i] = events[i]
        /\ Len(events) + 1 \notin acked /\ events' \in Seq(0..MaxChunks)
    BY <1>1
  <1>3. Unacked' = Unacked \cup {Len(events) + 1}
    BY <1>2 DEF Unacked
  <1>4. ASSUME Unacked # {} PROVE Oldest' = Oldest
    <2>1. Unacked \in SUBSET Nat /\ Unacked' \in SUBSET Nat
      BY <1>1, <1>3 DEF Unacked
    <2> DEFINE x == Min(Unacked)
               y == Min(Unacked')
    <2>2. /\ x \in Unacked /\ \A u \in Unacked : x <= u
          /\ y \in Unacked' /\ \A u \in Unacked' : y <= u
      BY <1>3, <1>4, <2>1, MinOfSet
    <2>3. x <= Len(events)
      BY <1>1, <2>2 DEF Unacked
    <2> HIDE DEF x, y
    <2>4. x = y
      BY <1>1, <1>3, <2>1, <2>2, <2>3
    <2> QED BY <2>4 DEF Oldest, x, y
  <1> QED BY <1>1, <1>2, <1>3, <1>4, OldestIsPending

-----------------------------------------------------------------------------
(* Types and the place of the run loop                                       *)

Typed ==
    /\ events \in Seq(0..MaxChunks) /\ asked \in Seq(1..MaxChunks)
    /\ acked \subseteq DOMAIN events
    /\ replies \in Seq(Nat) /\ \A i \in DOMAIN replies : replies[i] \in DOMAIN asked
    /\ MaxChunks \in Nat \ {0}

(* The message in hand has at least one chunk, and no more than the longest. *)
LEMMA HandSize ==
    ASSUME Typed, Busy, stage \in {"poll", "flush", "drain"}
    PROVE  Chunks \in 1..MaxChunks /\ stage \in {"flush", "drain"} /\ InHand.n \in Nat
  <1>1. CASE stage = "flush"
    <2>1. Head(replies) \in DOMAIN asked /\ Head(replies) \in Nat
      BY <1>1 DEF Busy, Typed
    <2>2. asked[Head(replies)] \in 1..MaxChunks
      BY <2>1 DEF Typed
    <2> QED BY <1>1, <2>1, <2>2 DEF Chunks, InHand
  <1>2. CASE stage = "drain"
    <2>1. Unacked # {} /\ events[Oldest] > 0
      BY <1>2 DEF Busy
    <2>2. Unacked \in SUBSET Nat /\ Unacked \subseteq DOMAIN events
      BY DEF Typed, Unacked
    <2>3. Oldest \in DOMAIN events /\ Oldest \in Nat
      BY <2>1, <2>2, MinOfSet DEF Oldest
    <2>4. PICK x \in DOMAIN events : x = Oldest
      BY <2>3
    <2>5. events[x] \in 0..MaxChunks
      BY DEF Typed
    <2>6. events[Oldest] \in 1..MaxChunks
      BY <2>1, <2>4, <2>5 DEF Typed
    <2> QED BY <1>2, <2>3, <2>6 DEF Chunks, InHand
  <1> QED BY <1>1, <1>2 DEF Busy

(* A message that starts over is at its first chunk, no call in flight.      *)
LEMMA Fresh ==
    ASSUME Typed', stage' \in {"poll", "flush", "drain"}, chunk' = 1, attempt' = 0
    PROVE  /\ PlaceInv' /\ (attempt > 0 => Busy)'
           /\ chunk' \in 1..(MaxChunks + 1) /\ attempt' \in 0..MaxAttempts
  <1>1. CASE Busy' /\ stage' = "flush"
    <2>1. Head(replies') \in DOMAIN asked'
      BY <1>1 DEF Busy, Typed
    <2>2. asked'[Head(replies')] \in 1..MaxChunks
      BY <2>1 DEF Typed
    <2> QED BY SMTT(30), <1>1, <2>2, ConstantsAssumption DEF Chunks, PlaceInv, Typed
  <1>2. CASE Busy' /\ stage' = "drain"
    <2>1. Unacked' # {} /\ events'[Oldest'] > 0
      BY <1>2 DEF Busy
    <2>2. Unacked' \in SUBSET Nat /\ Unacked' \subseteq DOMAIN events'
      BY DEF Typed, Unacked
    <2>3. Min(Unacked') \in DOMAIN events'
      BY <2>1, <2>2, MinOfSet
    <2>4. PICK x \in DOMAIN events' : x = Oldest'
      BY <2>3 DEF Oldest
    <2>5. events'[x] \in 0..MaxChunks
      BY DEF Typed
    <2>6. events'[Oldest'] \in 1..MaxChunks
      BY <2>1, <2>4, <2>5 DEF Typed
    <2>7. Chunks' \in 1..MaxChunks
      BY <1>2, <2>6 DEF Chunks
    <2>8. replies' \in Seq(Nat) /\ MaxChunks \in Nat \ {0}
      BY DEF Typed
    <2>9. attempt' \in 0..MaxAttempts /\ 1 \in 1..(MaxChunks + 1)
      BY <2>8, Constants
    <2>11. \A k \in 1..MaxChunks : 1 <= k + 1
      BY <2>8
    <2>12. 1 <= Chunks' + 1
      BY <2>7, <2>11
    <2>10. chunk' <= Chunks' + 1 /\ ~(attempt' > 0)
      BY <2>12
    <2> QED BY <1>2, <2>8, <2>9, <2>10 DEF PlaceInv
  <1>3. CASE ~Busy'
    BY <1>3, ConstantsAssumption DEF PlaceInv, Typed
  <1> QED BY <1>1, <1>2, <1>3 DEF Busy

LEMMA Typing ==
    ASSUME TypeOK, PlaceInv
    PROVE  Typed /\ stage \in {"poll", "flush", "drain"}
  BY ConstantsAssumption DEF TypeOK, PlaceInv, Typed

(* The limiter never counts more sends than it may grant.                    *)
HitsOK ==
    /\ hits \in [1..WindowPolls -> 0..MaxHits]
    /\ \A a, b \in 1..WindowPolls : a <= b => hits[a] <= hits[b]

LEMMA Limiter ==
    ASSUME TypeOK, Next
    PROVE  HitsOK'
  <1>1. /\ hits \in [1..WindowPolls -> 0..MaxHits]
        /\ \A a, b \in 1..WindowPolls : a <= b => hits[a] <= hits[b]
        /\ WindowPolls \in Nat \ {0} /\ MaxHits \in Nat \ {0}
    BY ConstantsAssumption DEF TypeOK
  <1>2. \A a \in 1..WindowPolls : hits[a] <= Counted /\ hits[a] \in 0..MaxHits
    BY <1>1 DEF Counted
  <1>3. Counted \in 0..MaxHits
    BY <1>1 DEF Counted
  <1>4. CASE UNCHANGED hits
    BY <1>1, <1>4 DEF HitsOK
  <1>5. CASE hits' = OneMore /\ Counted < MaxHits
    <2>1. \A a \in 1..WindowPolls : hits'[a] = hits[a] + 1 /\ hits[a] + 1 \in 0..MaxHits
      BY <1>1, <1>2, <1>3, <1>5 DEF OneMore
    <2>2. hits' \in [1..WindowPolls -> 0..MaxHits]
      BY <1>5, <2>1 DEF OneMore
    <2>3. \A a, b \in 1..WindowPolls : a <= b => hits'[a] <= hits'[b]
      BY SMTT(30), <1>1, <1>2, <2>1
    <2> QED BY <2>2, <2>3 DEF HitsOK
  <1>6. CASE hits' = Aged
    <2>1. \A a \in 1..WindowPolls : a # 1 => a - 1 \in 1..WindowPolls
      BY <1>1
    <2>2. \A a \in 1..WindowPolls :
             /\ hits'[a] = (IF a = 1 THEN 0 ELSE hits[a - 1])
             /\ hits'[a] \in 0..MaxHits
      BY <1>1, <1>2, <1>6, <2>1 DEF Aged
    <2>3. hits' \in [1..WindowPolls -> 0..MaxHits]
      BY <1>6, <2>2 DEF Aged
    <2>4. ASSUME NEW a \in 1..WindowPolls, NEW b \in 1..WindowPolls, a <= b
          PROVE  hits'[a] <= hits'[b]
      <3>1. CASE a = 1
        BY <1>1, <2>2, <3>1
      <3>2. CASE a # 1
        <4>1. b # 1 /\ a - 1 <= b - 1
          BY <1>1, <2>4, <3>2
        <4>2. hits[a - 1] <= hits[b - 1]
          BY <1>1, <2>1, <3>2, <4>1
        <4> QED BY <2>2, <3>2, <4>1, <4>2
      <3> QED BY <3>1, <3>2
    <2> QED BY <2>3, <2>4 DEF HitsOK
  <1>7. CASE Elapse
    <2>4. /\ hits' = [a \in 1..WindowPolls |->
                         IF hits[a] = Counted THEN Counted - 1 ELSE hits[a]]
          /\ Counted > 0
      BY <1>7 DEF Elapse
    <2>5. \A a \in 1..WindowPolls :
             hits'[a] = (IF hits[a] = Counted THEN Counted - 1 ELSE hits[a])
      BY <2>4
    <2>6. Counted - 1 \in 0..MaxHits
      BY <1>1, <1>3, <2>4
    <2>1. \A a \in 1..WindowPolls :
             /\ hits'[a] = (IF hits[a] = Counted THEN Counted - 1 ELSE hits[a])
             /\ hits'[a] \in 0..MaxHits
      BY <1>2, <2>5, <2>6
    <2>2. hits' \in [1..WindowPolls -> 0..MaxHits]
      BY <2>1, <2>4
    <2>3. ASSUME NEW a \in 1..WindowPolls, NEW b \in 1..WindowPolls, a <= b
          PROVE  hits'[a] <= hits'[b]
      <3>1. /\ hits[a] <= hits[b] /\ hits[b] <= Counted
            /\ hits[a] \in Nat /\ hits[b] \in Nat /\ Counted \in Nat
        BY <1>1, <1>2, <1>3, <2>3
      <3> QED BY <2>5, <3>1
    <2> QED BY <2>2, <2>3 DEF HitsOK
  <1>8. CASE hits' = NoHits
    BY <1>1, <1>8 DEF NoHits, HitsOK
  <1> QED BY <1>4, <1>5, <1>6, <1>7, <1>8
          DEF Next, Loop, QuietPoll, FlushEnds, DrainEnds, AckUnrendered, Take,
              Throttled, SendOk, Acknowledge, PollUpdate, Elapse, Retry, GiveUp,
              Restart, Publish

LEMMA TailOf ==
    ASSUME NEW s \in Seq(Nat), s # <<>>
    PROVE  /\ Tail(s) \in Seq(Nat) /\ Head(s) = s[1] /\ 1 \in DOMAIN s
           /\ \A i \in DOMAIN Tail(s) : i \in Nat /\ i + 1 \in DOMAIN s /\ Tail(s)[i] = s[i + 1]
  OBVIOUS

LEMMA Unmoved ==
    ASSUME TypeOK, UNCHANGED <<events, acked, stage, replies, asked, chunk, drained>>
    PROVE  /\ Busy' <=> Busy
           /\ Chunks' = Chunks /\ Oldest' = Oldest /\ Unacked' = Unacked
  <1>1. Unacked' = Unacked /\ Oldest' = Oldest
    BY DEF Unacked, Oldest
  <1> QED BY <1>1 DEF Busy, Chunks

LEMMA StoreStep ==
    ASSUME TypeOK, PlaceInv, Next
    PROVE  Typed' /\ stage' \in {"poll", "flush", "drain"}
  <1>1. Typed /\ stage \in {"poll", "flush", "drain"}
    BY Typing
  <1>2. CASE UNCHANGED <<events, acked, replies, asked>>
    BY <1>1, <1>2 DEF Typed, Next, Loop, QuietPoll, FlushEnds, DrainEnds, AckUnrendered, Take,
              Throttled, SendOk, Acknowledge, PollUpdate, Elapse, Retry, GiveUp,
              Restart, Publish, BeginDrain
  <1>3. CASE \E n \in 1..MaxChunks : PollUpdate(n)
    <2>1. PICK n \in 1..MaxChunks : PollUpdate(n)
      BY <1>3
    <2>2. /\ asked' = Append(asked, n) /\ asked' \in Seq(1..MaxChunks)
          /\ replies' = Append(replies, Len(asked) + 1) /\ stage' = "flush"
          /\ UNCHANGED <<events, acked>>
      BY <1>1, <2>1 DEF PollUpdate, Typed
    <2>3. /\ Len(asked) \in Nat /\ DOMAIN asked' = DOMAIN asked \cup {Len(asked) + 1}
          /\ Len(asked) + 1 \in Nat
      BY <1>1, <2>2 DEF Typed
    <2>4. /\ replies' \in Seq(Nat)
          /\ \A i \in DOMAIN replies' :
                \/ i \in DOMAIN replies /\ replies'[i] = replies[i]
                \/ replies'[i] = Len(asked) + 1
      BY <1>1, <2>2, <2>3 DEF Typed
    <2> QED BY <1>1, <2>2, <2>3, <2>4 DEF Typed
  <1>4. CASE UNCHANGED <<events, asked>> /\ acked' = acked \cup {Oldest} /\ Unacked # {}
             /\ UNCHANGED <<replies, stage>>
    BY <1>1, <1>4, OldestIsPending DEF Typed
  <1>5. CASE UNCHANGED <<events, acked, asked, stage>> /\ replies' = Tail(replies) /\ replies # <<>>
    BY <1>1, <1>5, TailOf DEF Typed
  <1>6. CASE UNCHANGED <<events, acked, asked>> /\ replies' = <<>> /\ stage' = "poll"
    BY <1>1, <1>6 DEF Typed
  <1>7. CASE \E n \in 0..MaxChunks : Publish(n)
    <2>1. PICK n \in 0..MaxChunks : Publish(n)
      BY <1>7
    <2>2. events' = Append(events, n) /\ UNCHANGED <<acked, asked, replies, stage>>
      BY <2>1 DEF Publish
    <2> QED BY <1>1, <2>2, OldestStays DEF Typed
  <1>8. attempt > 0 => Busy
    BY DEF TypeOK
  <1>9. CASE SendOk \/ GiveUp
    <2>1. Busy /\ UNCHANGED <<events, acked, asked>> /\ stage' \in {stage, "poll"}
      BY <1>8, <1>9 DEF SendOk, GiveUp
    <2>2. \/ replies' = replies
          \/ replies' = Tail(replies) /\ replies # <<>> /\ stage' = stage
      BY <1>9, <2>1 DEF SendOk, GiveUp, Busy
    <2> QED BY ZenonT(30), <1>1, <2>1, <2>2, TailOf DEF Typed
  <1>10. CASE Acknowledge \/ AckUnrendered
    BY <1>4, <1>10 DEF Acknowledge, AckUnrendered, Busy
  <1> QED BY <1>2, <1>3, <1>6, <1>7, <1>9, <1>10
          DEF Next, Loop, QuietPoll, FlushEnds, DrainEnds, Take,
              Throttled, Elapse, Retry, Restart

(* A step either keeps the message in hand or starts over.                   *)
SameHand ==
    /\ UNCHANGED <<stage, replies, acked, drained>>
    /\ Busy => Busy' /\ Chunks' = Chunks
    /\ Busy /\ stage = "drain" => Oldest' = Oldest

LEMMA HandKept ==
    ASSUME TypeOK, PlaceInv,
           Elapse \/ Take \/ Retry \/ (\E n \in 0..MaxChunks : Publish(n))
                  \/ (SendOk /\ replies' = replies)
    PROVE  SameHand
  <1>1. UNCHANGED <<stage, replies, acked, asked, drained>>
    BY DEF Elapse, Take, Retry, Publish, SendOk, item
  <1>2. CASE UNCHANGED events
    BY <1>1, <1>2 DEF SameHand, Busy, Chunks, Oldest, Unacked
  <1>3. CASE \E n \in 0..MaxChunks : Publish(n)
    <2>1. PICK n \in 0..MaxChunks : events' = Append(events, n)
      BY <1>3 DEF Publish
    <2>2. /\ Unacked \subseteq Unacked'
          /\ Unacked # {} => Oldest' = Oldest /\ events'[Oldest] = events[Oldest]
      BY <1>1, <2>1, OldestStays
    <2>3. Busy => Busy'
      BY <1>1, <2>2 DEF Busy
    <2>4. Busy => Chunks' = Chunks
      BY <1>1, <2>2 DEF Busy, Chunks
    <2>5. Busy /\ stage = "drain" => Oldest' = Oldest
      BY <1>1, <2>2 DEF Busy
    <2> QED BY <1>1, <2>3, <2>4, <2>5 DEF SameHand
  <1> QED BY <1>2, <1>3 DEF Elapse, Take, Retry, SendOk, item

LEMMA CallStep ==
    ASSUME TypeOK, PlaceInv, Next
    PROVE  /\ PlaceInv' /\ (attempt > 0 => Busy)'
           /\ chunk' \in 1..(MaxChunks + 1) /\ attempt' \in 0..MaxAttempts
  <1>1. /\ Typed' /\ stage' \in {"poll", "flush", "drain"} /\ MaxAttempts \in Nat \ {0}
        /\ MaxChunks \in Nat \ {0}
    BY StoreStep, ConstantsAssumption
  <1>2. /\ chunk \in Nat \ {0} /\ chunk <= MaxChunks + 1 /\ attempt \in Nat
        /\ attempt <= MaxAttempts /\ (attempt > 0 => Busy)
        /\ Typed /\ stage \in {"poll", "flush", "drain"}
    BY <1>1, Typing DEF TypeOK
  <1>3. CASE chunk' = 1 /\ attempt' = 0
    BY <1>1, <1>3, Fresh
  <1>4. ~Busy => chunk = 1 /\ attempt = 0
    BY <1>2 DEF PlaceInv
  <1>5. Busy => Chunks \in 1..MaxChunks
    BY <1>2, HandSize
  <1>6. CASE Busy /\ SameHand /\ chunk' = chunk /\ attempt' \in 0..MaxAttempts
             /\ (attempt' > 0 => attempt > 0 \/ chunk <= Chunks)
    <2>1. /\ Busy' /\ Chunks' = Chunks /\ stage' = stage
          /\ chunk <= IF stage = "flush" THEN Chunks ELSE Chunks + 1
          /\ attempt > 0 => chunk <= Chunks
      BY <1>6 DEF SameHand, PlaceInv
    <2> QED BY <1>1, <1>2, <1>6, <2>1 DEF PlaceInv, Typed
  <1>7. CASE Busy /\ SameHand /\ chunk' = chunk + 1 /\ attempt' = 0 /\ chunk <= Chunks
             /\ ~(stage = "flush" /\ chunk = Chunks)
    <2>1. Busy' /\ Chunks' = Chunks /\ stage' = stage
      BY <1>7 DEF SameHand
    <2>2. chunk + 1 <= IF stage = "flush" THEN Chunks ELSE Chunks + 1
      BY <1>2, <1>5, <1>7
    <2>3. chunk + 1 \in 1..(MaxChunks + 1)
      BY <1>1, <1>2, <1>5, <1>7
    <2> QED BY <1>1, <1>2, <1>7, <2>1, <2>2, <2>3 DEF PlaceInv, Typed
  <1>8. CASE QuietPoll \/ FlushEnds \/ DrainEnds \/ AckUnrendered
             \/ (\E n \in 1..MaxChunks : PollUpdate(n))
    <2>2. drained = MaxPerDrain => ~(drained < MaxPerDrain)
      BY ConstantsAssumption
    <2>3. events[Oldest] = 0 => ~(events[Oldest] > 0)
      OBVIOUS
    <2>1. ~Busy /\ UNCHANGED <<chunk, attempt>>
      BY <1>8, <2>2, <2>3 DEF QuietPoll, FlushEnds, DrainEnds, AckUnrendered, PollUpdate, Busy, item
    <2> QED BY <1>3, <1>4, <2>1
  <1>9. CASE Throttled \/ GiveUp \/ Acknowledge \/ Restart
    BY <1>3, <1>9 DEF Throttled, GiveUp, Acknowledge, Restart, StartOver
  <1>10. CASE Elapse \/ (\E n \in 0..MaxChunks : Publish(n))
    <2>1. SameHand /\ UNCHANGED <<chunk, attempt>>
      BY <1>10, HandKept DEF Elapse, Publish, item
    <2> QED BY <1>1, <1>2, <1>3, <1>4, <1>6, <2>1
  <1>11. CASE Take
    <2>1. SameHand /\ Busy /\ chunk' = chunk /\ attempt' = 1 /\ chunk <= Chunks
      BY <1>11, HandKept DEF Take
    <2> QED BY <1>1, <1>6, <2>1
  <1>12. CASE Retry
    <2>1. /\ SameHand /\ Busy /\ chunk' = chunk /\ attempt' = attempt + 1
          /\ attempt > 0 /\ attempt < MaxAttempts
      BY <1>2, <1>12, HandKept DEF Retry
    <2> QED BY <1>1, <1>2, <1>6, <2>1
  <1>13. CASE SendOk
    <2>1. Busy /\ attempt > 0 /\ attempt' = 0 /\ chunk <= Chunks
      BY <1>2, <1>13 DEF SendOk, PlaceInv
    <2>2. CASE stage = "flush" /\ chunk = Chunks
      BY <1>3, <1>13, <2>1, <2>2 DEF SendOk
    <2>3. CASE ~(stage = "flush" /\ chunk = Chunks)
      <3>1. replies' = replies /\ chunk' = chunk + 1
        BY <1>13, <2>3 DEF SendOk
      <3>2. SameHand
        BY <1>13, <3>1, HandKept
      <3> QED BY <1>7, <2>1, <2>3, <3>1, <3>2
    <2> QED BY <2>2, <2>3
  <1> QED BY <1>8, <1>9, <1>10, <1>11, <1>12, <1>13 DEF Next, Loop

LEMMA TypeStep ==
    ASSUME TypeOK, PlaceInv, Next
    PROVE  TypeOK' /\ PlaceInv'
  <1>1. /\ Typed' /\ stage' \in {"poll", "flush", "drain"} /\ PlaceInv' /\ HitsOK'
        /\ (attempt > 0 => Busy)'
        /\ chunk' \in 1..(MaxChunks + 1) /\ attempt' \in 0..MaxAttempts
    BY StoreStep, CallStep, Limiter
  <1>2. phone' \in Seq(Message)
    <2>1. phone' = phone \/ (attempt > 0 /\ Arrives)
      BY DEF Next, Loop, QuietPoll, FlushEnds, DrainEnds, AckUnrendered, Take,
             Throttled, SendOk, Acknowledge, PollUpdate, Elapse, Retry, GiveUp,
             Restart, Publish, ArrivesOrNot
    <2>2. CASE attempt > 0 /\ Arrives
      <3>1. InHand.n \in Nat /\ InHand.what \in {"event", "reply"} /\ chunk \in Nat
        BY SMTT(30), <2>2, Typing, HandSize, ConstantsAssumption DEF TypeOK, InHand
      <3>2. [what |-> InHand.what, n |-> InHand.n, chunk |-> chunk] \in Message
        BY <3>1 DEF Message
      <3> QED BY <2>2, <3>2 DEF Arrives, TypeOK
    <2> QED BY <2>1, <2>2 DEF TypeOK
  <1>3. drained' \in 0..MaxPerDrain
    <2>1. \/ drained' = drained \/ drained' = 0
          \/ drained' = drained + 1 /\ drained < MaxPerDrain
      BY DEF Next, Loop, QuietPoll, FlushEnds, DrainEnds, AckUnrendered, Take,
             Throttled, SendOk, Acknowledge, PollUpdate, Elapse, Retry, GiveUp,
             Restart, Publish, BeginDrain, Busy
    <2>2. drained \in 0..MaxPerDrain
      BY DEF TypeOK
    <2> QED BY <2>1, <2>2, Constants
  <1>4. troubles' \in 0..MaxTroubles
    <2>1. troubles' = troubles \/ Trouble
      BY DEF Next, Loop, QuietPoll, FlushEnds, DrainEnds, AckUnrendered, Take,
             Throttled, SendOk, Acknowledge, PollUpdate, Elapse, Retry, GiveUp,
             Restart, Publish
    <2>2. troubles \in 0..MaxTroubles
      BY DEF TypeOK
    <2> QED BY <2>1, <2>2, Constants DEF Trouble
  <1> QED BY <1>1, <1>2, <1>3, <1>4 DEF TypeOK, Typed, HitsOK

-----------------------------------------------------------------------------
(* The phone                                                                 *)

(* A step may show one more chunk of the message in hand, or acknowledge the *)
(* oldest event, or publish one; never two of these.                         *)
Shows ==
    /\ attempt > 0 /\ Busy /\ chunk <= Chunks /\ Arrives
    /\ UNCHANGED <<events, asked, acked>>

Acks ==
    /\ Unacked # {} /\ stage = "drain" /\ acked' = acked \cup {Oldest}
    /\ events[Oldest] > 0 => Busy /\ chunk = events[Oldest] + 1
    /\ UNCHANGED <<events, asked, phone, troubles, replies, stage>>
    /\ chunk' = 1

Publishes ==
    /\ \E n \in 0..MaxChunks : events' = Append(events, n)
    /\ UNCHANGED <<asked, acked, phone, troubles, replies, stage, chunk, drained, attempt>>

LEMMA PhoneOrStore ==
    ASSUME TypeOK, PlaceInv, Next
    PROVE  Shows \/ Acks \/ Publishes \/ UNCHANGED <<events, acked, phone>>
  <1>1. attempt > 0 => Busy /\ chunk <= Chunks
    BY DEF TypeOK, PlaceInv
  <1>2. CASE SendOk \/ Retry \/ GiveUp \/ Restart
    BY <1>1, <1>2 DEF SendOk, Retry, GiveUp, Restart, ArrivesOrNot, Shows
  <1>3. CASE Acknowledge
    <2>1. /\ stage = "drain" /\ Busy /\ Unacked # {} /\ chunk > Chunks /\ Chunks = events[Oldest]
          /\ chunk <= Chunks + 1 /\ chunk \in Nat /\ Chunks \in Nat
      <3>1. stage = "drain" /\ Busy /\ chunk > Chunks
        BY <1>3 DEF Acknowledge
      <3>2. Unacked # {} /\ Chunks = events[Oldest] /\ chunk <= Chunks + 1
        BY <3>1 DEF Busy, Chunks, PlaceInv
      <3>3. Chunks \in Nat
        BY <3>1, Typing, HandSize, Constants
      <3>4. chunk \in Nat
        BY Constants DEF TypeOK
      <3> QED BY <3>1, <3>2, <3>3, <3>4
    <2>2. chunk = events[Oldest] + 1
      BY <2>1
    <2> QED BY <1>3, <2>1, <2>2 DEF Acknowledge, Acks, StartOver
  <1>4. CASE AckUnrendered
    <2>1. ~(events[Oldest] > 0) /\ stage = "drain"
      BY <1>4 DEF AckUnrendered
    <2>2. ~Busy
      BY <2>1 DEF Busy
    <2>3. chunk = 1
      BY <2>2, ConstantsAssumption DEF PlaceInv, TypeOK
    <2> QED BY <1>4, <2>1, <2>3 DEF AckUnrendered, Acks, item
  <1>5. CASE \E n \in 0..MaxChunks : Publish(n)
    BY <1>5 DEF Publish, Publishes, item
  <1> QED BY <1>2, <1>3, <1>4, <1>5
          DEF Next, Loop, QuietPoll, FlushEnds, DrainEnds, Take,
              Throttled, PollUpdate, Elapse

LEMMA Shown ==
    ASSUME TypeOK, PlaceInv, Shows
    PROVE  \E m \in Message :
              /\ phone' = Append(phone, m) /\ m.chunk = chunk
              /\ DOMAIN phone' = DOMAIN phone \cup {Len(phone) + 1}
              /\ \A i \in DOMAIN phone : phone'[i] = phone[i]
              /\ phone'[Len(phone) + 1] = m
              /\ stage = "flush" => m.what = "reply" /\ m.n = Head(replies) /\ replies # <<>>
              /\ stage # "flush" => m.what = "event" /\ m.n = Oldest /\ stage = "drain"
                                    /\ Unacked # {}
  <1> DEFINE m == [what |-> InHand.what, n |-> InHand.n, chunk |-> chunk]
  <1>1. phone' = Append(phone, m) /\ m.chunk = chunk
    BY DEF Shows, Arrives
  <1>2. /\ stage = "flush" => m.what = "reply" /\ m.n = Head(replies) /\ replies # <<>>
        /\ stage # "flush" => m.what = "event" /\ m.n = Oldest /\ stage = "drain"
                              /\ Unacked # {}
    BY DEF Shows, InHand, Busy
  <1>3. m.n \in Nat
    <2>1. CASE stage = "flush"
      <3>1. Head(replies) \in Nat
        BY <1>2, <2>1, TailOf DEF PlaceInv
      <3> QED BY <1>2, <2>1, <3>1
    <2>2. CASE stage # "flush"
      BY <1>2, <2>2, OldestIsPending
    <2> QED BY <2>1, <2>2
  <1>4. m \in Message
    BY <1>2, <1>3, Constants DEF Message, TypeOK
  <1> HIDE DEF m
  <1>5. /\ DOMAIN phone' = DOMAIN phone \cup {Len(phone) + 1}
        /\ \A i \in DOMAIN phone : phone'[i] = phone[i]
        /\ phone'[Len(phone) + 1] = m
    <2>1. phone \in Seq(Message)
      BY DEF TypeOK
    <2> QED BY <1>1, <1>4, <2>1
  <1> QED BY <1>1, <1>2, <1>4, <1>5

LEMMA OrderStep ==
    ASSUME TypeOK, PlaceInv, OrderInv, Next
    PROVE  OrderInv'
  <1>1. /\ events \in Seq(0..MaxChunks) /\ acked \subseteq DOMAIN events
        /\ DOMAIN events = 1..Len(events) /\ Len(events) \in Nat /\ phone \in Seq(Message)
    BY DEF TypeOK
  <1>2. CASE UNCHANGED <<events, acked, phone>>
    BY <1>2 DEF OrderInv, EventsInOrder, IsEvent, Unacked
  <1>3. CASE Publishes
    <2>1. PICK n \in 0..MaxChunks : events' = Append(events, n)
      BY <1>3 DEF Publishes
    <2>2. /\ \A u \in Unacked' : u \in Unacked \/ u = Len(events) + 1
          /\ \A i \in DOMAIN events : i \in DOMAIN events'
          /\ UNCHANGED <<acked, phone>>
      BY <1>3, <2>1, OldestStays DEF Publishes
    <2>3. \A k \in DOMAIN events : k <= Len(events) + 1
      BY <1>1
    <2> QED BY <2>2, <2>3 DEF OrderInv, EventsInOrder, IsEvent
  <1>4. CASE Acks
    <2>1. /\ Oldest \in Unacked /\ Oldest \in DOMAIN events
          /\ \A u \in Unacked : Oldest <= u
          /\ acked' = acked \cup {Oldest} /\ UNCHANGED <<events, phone>>
      BY <1>4, OldestIsPending DEF Acks
    <2>2. ASSUME NEW f \in 1..Oldest PROVE f \in acked'
      <3>1. f \in DOMAIN events /\ f <= Oldest /\ Oldest \in Nat /\ f \in Nat
        BY <1>1, <2>1
      <3>2. CASE f \in Unacked
        <4>1. f = Oldest
          BY <2>1, <3>1, <3>2
        <4> QED BY <2>1, <4>1
      <3> QED BY <2>1, <3>1, <3>2 DEF Unacked
    <2>3. \A u \in Unacked' : u \in Unacked
      BY <2>1 DEF Unacked
    <2>4. \A e \in acked' : \A f \in 1..e : f \in acked'
      BY <2>1, <2>2 DEF OrderInv
    <2> QED BY <2>1, <2>3, <2>4 DEF OrderInv, EventsInOrder, IsEvent
  <1>5. CASE Shows
    <2>1. PICK m \in Message :
              /\ DOMAIN phone' = DOMAIN phone \cup {Len(phone) + 1}
              /\ \A i \in DOMAIN phone : phone'[i] = phone[i]
              /\ phone'[Len(phone) + 1] = m
              /\ m.what = "event" => m.n = Oldest /\ Unacked # {}
      BY <1>5, Shown DEF TypeOK
    <2>2. m.what = "event" =>
             /\ m.n \in DOMAIN events /\ m.n \in Unacked /\ \A u \in Unacked : m.n <= u
      BY <2>1, OldestIsPending
    <2>3. UNCHANGED <<events, acked>> /\ Unacked' = Unacked
      BY <1>5 DEF Shows, Unacked
    <2>4. Len(phone) \in Nat /\ DOMAIN phone = 1..Len(phone)
      BY <1>1
    <2>5. \A i \in DOMAIN phone' : phone'[i].what = "event" =>
             phone'[i].n \in DOMAIN events /\ \A u \in Unacked : phone'[i].n <= u
      BY <2>1, <2>2 DEF OrderInv, IsEvent
    <2>6. ASSUME NEW i \in DOMAIN phone', NEW j \in DOMAIN phone', i < j,
                 phone'[i].what = "event", phone'[j].what = "event"
          PROVE  phone'[i].n <= phone'[j].n
      <3>1. i \in DOMAIN phone
        BY <2>1, <2>4, <2>6
      <3>2. CASE j \in DOMAIN phone
        BY <2>1, <2>6, <3>1, <3>2 DEF OrderInv, EventsInOrder, IsEvent
      <3>3. CASE j = Len(phone) + 1
        BY <2>1, <2>2, <2>6, <3>1, <3>3 DEF OrderInv, IsEvent
      <3> QED BY <2>1, <3>2, <3>3
    <2>7. EventsInOrder'
      BY <2>6 DEF EventsInOrder, IsEvent
    <2> QED BY <2>3, <2>5, <2>7 DEF OrderInv, IsEvent
  <1> QED BY <1>2, <1>3, <1>4, <1>5, PhoneOrStore

-----------------------------------------------------------------------------
(* What is on the phone stays there                                          *)

PhoneGrows ==
    /\ DOMAIN phone \subseteq DOMAIN phone'
    /\ \A i \in DOMAIN phone : phone'[i] = phone[i]

LEMMA Growing ==
    ASSUME TypeOK, PlaceInv, Next
    PROVE  PhoneGrows
  <1>1. CASE Shows
    <2>1. PICK m \in Message :
              /\ DOMAIN phone' = DOMAIN phone \cup {Len(phone) + 1}
              /\ \A i \in DOMAIN phone : phone'[i] = phone[i]
      BY <1>1, Shown
    <2> QED BY <2>1 DEF PhoneGrows
  <1> QED BY <1>1, PhoneOrStore DEF PhoneGrows, Acks, Publishes

LEMMA OnPhoneStays ==
    ASSUME PhoneGrows, NEW e, NEW n, OnPhone(e, n)
    PROVE  OnPhone(e, n)'
  <1>1. PICK at \in [1..n -> DOMAIN phone] :
           /\ \A c \in 1..n : phone[at[c]] = [what |-> "event", n |-> e, chunk |-> c]
           /\ \A c \in 2..n : at[c - 1] < at[c]
    BY DEF OnPhone
  <1>2. at \in [1..n -> DOMAIN phone']
    BY DEF PhoneGrows
  <1>3. \A c \in 1..n : phone'[at[c]] = [what |-> "event", n |-> e, chunk |-> c]
    BY <1>1 DEF PhoneGrows
  <1> QED BY <1>1, <1>2, <1>3 DEF OnPhone

LEMMA OnPhoneNone ==
    ASSUME NEW e, NEW n, n = 0
    PROVE  OnPhone(e, n)'
  <1> DEFINE at == [c \in 1..n |-> 0]
  <1>1. \A c : c \notin 1..n /\ c \notin 2..n
    OBVIOUS
  <1>2. at \in [1..n -> DOMAIN phone']
    BY <1>1
  <1> QED BY <1>1, <1>2 DEF OnPhone

LEMMA OnPhoneNext ==
    ASSUME phone \in Seq(Message), NEW e, NEW n \in Nat, OnPhone(e, n),
           PhoneGrows, Len(phone) + 1 \in DOMAIN phone',
           phone'[Len(phone) + 1] = [what |-> "event", n |-> e, chunk |-> n + 1],
           NEW k, k = n + 1
    PROVE  OnPhone(e, k)'
  <1>1. PICK at \in [1..n -> DOMAIN phone] :
           /\ \A c \in 1..n : phone[at[c]] = [what |-> "event", n |-> e, chunk |-> c]
           /\ \A c \in 2..n : at[c - 1] < at[c]
    BY DEF OnPhone
  <1> DEFINE next == [c \in 1..k |-> IF c <= n THEN at[c] ELSE Len(phone) + 1]
  <1>2. /\ \A c \in 1..k : c \in 1..n \/ c = n + 1
        /\ \A c \in 1..n : c \in 1..k /\ next[c] = at[c]
        /\ next[n + 1] = Len(phone) + 1 /\ n + 1 \in 1..k
    OBVIOUS
  <1>3. next \in [1..k -> DOMAIN phone']
    BY <1>2 DEF PhoneGrows
  <1>4. ASSUME NEW c \in 1..k
        PROVE  phone'[next[c]] = [what |-> "event", n |-> e, chunk |-> c]
    BY <1>1, <1>2 DEF PhoneGrows
  <1>5. ASSUME NEW c \in 2..k PROVE next[c - 1] < next[c]
    <2>1. \/ c \in 2..n /\ c - 1 \in 1..n /\ c \in 1..n
          \/ c = n + 1 /\ c - 1 \in 1..n /\ c - 1 = n
      OBVIOUS
    <2>2. \A d \in 1..n : at[d] \in 1..Len(phone)
      OBVIOUS
    <2>3. \A d \in 1..n : at[d] < Len(phone) + 1
      BY <2>2
    <2> HIDE DEF next
    <2> QED BY <1>1, <1>2, <2>1, <2>3
  <1> HIDE DEF next
  <1> QED BY <1>3, <1>4, <1>5 DEF OnPhone

(* After a step the loop is at a first chunk, or where it was, or one chunk  *)
(* further.                                                                  *)
LEMMA Progress ==
    ASSUME TypeOK, PlaceInv, Next
    PROVE  \/ chunk' = 1
           \/ SameHand /\ Busy /\ chunk' = chunk
           \/ SameHand /\ Busy /\ SendOk /\ Shows /\ chunk' = chunk + 1
  <1>1. ~Busy => chunk = 1 /\ attempt = 0
    BY Constants DEF PlaceInv, TypeOK
  <1>2. CASE QuietPoll \/ FlushEnds \/ DrainEnds \/ AckUnrendered
             \/ (\E n \in 1..MaxChunks : PollUpdate(n))
    <2>1. drained = MaxPerDrain => ~(drained < MaxPerDrain)
      BY Constants
    <2>2. events[Oldest] = 0 => ~(events[Oldest] > 0)
      OBVIOUS
    <2>3. ~Busy /\ chunk' = chunk
      BY <1>2, <2>1, <2>2
         DEF QuietPoll, FlushEnds, DrainEnds, AckUnrendered, PollUpdate, Busy, item
    <2> QED BY <1>1, <2>3
  <1>3. CASE Throttled \/ GiveUp \/ Acknowledge \/ Restart
    BY <1>3 DEF Throttled, GiveUp, Acknowledge, Restart, StartOver
  <1>4. CASE Elapse \/ Take \/ Retry \/ (\E n \in 0..MaxChunks : Publish(n))
    <2>1. SameHand /\ chunk' = chunk
      BY <1>4, HandKept DEF Elapse, Take, Retry, Publish, item
    <2> QED BY <1>1, <2>1
  <1>5. CASE SendOk
    <2>1. Shows
      BY <1>5 DEF SendOk, Shows, TypeOK, PlaceInv
    <2>2. \/ chunk' = 1
          \/ replies' = replies /\ chunk' = chunk + 1
      BY <1>5 DEF SendOk
    <2> QED BY <1>5, <2>1, <2>2, HandKept DEF Shows
  <1> QED BY <1>2, <1>3, <1>4, <1>5 DEF Next, Loop

LEMMA WholeStep ==
    ASSUME TypeOK, PlaceInv, WholeInv, Next
    PROVE  WholeInv'
  <1>1. PhoneGrows
    BY Growing
  <1>2. ASSUME NEW e \in acked, NEW n, n = events[e], n > 0 PROVE OnPhone(e, n)'
    BY <1>1, <1>2, OnPhoneStays DEF WholeInv
  <1>3. acked \subseteq DOMAIN events /\ events \in Seq(0..MaxChunks)
    BY DEF TypeOK
  <1>4. ASSUME NEW e \in acked', NEW n, n = events'[e], n > 0 PROVE OnPhone(e, n)'
    <2>1. CASE e \in acked
      <3>1. events'[e] = events[e]
        <4>1. CASE Publishes
          BY <1>3, <2>1, <4>1, OldestStays DEF Publishes
        <4> QED BY <4>1, PhoneOrStore DEF Shows, Acks
      <3> QED BY <1>2, <1>4, <2>1, <3>1
    <2>2. CASE e \notin acked
      <3>1. Acks /\ e = Oldest /\ events' = events
        BY <1>4, <2>2, PhoneOrStore DEF Acks, Shows, Publishes
      <3>2. Busy /\ stage = "drain" /\ chunk = n + 1 /\ n \in Nat
        BY <1>4, <3>1, OldestIsPending, Constants DEF Acks
      <3>3. n = chunk - 1
        BY <3>2
      <3>4. OnPhone(e, n)
        BY <3>1, <3>2, <3>3 DEF WholeInv
      <3> QED BY <1>1, <3>4, OnPhoneStays
    <2> QED BY <2>1, <2>2
  <1>5. ASSUME stage' = "drain", Busy', NEW e, e = Oldest', NEW n, n = chunk' - 1
        PROVE  OnPhone(e, n)'
    <2>1. CASE chunk' = 1
      BY <1>5, <2>1, OnPhoneNone
    <2>2. CASE SameHand /\ Busy /\ chunk' = chunk
      <3>1. stage = "drain" /\ e = Oldest /\ n = chunk - 1
        BY <1>5, <2>2 DEF SameHand
      <3>2. OnPhone(e, n)
        BY <2>2, <3>1 DEF WholeInv
      <3> QED BY <1>1, <3>2, OnPhoneStays
    <2>3. CASE SameHand /\ Busy /\ Shows /\ chunk' = chunk + 1
      <3>1. stage = "drain" /\ e = Oldest
        BY <1>5, <2>3 DEF SameHand
      <3>2. PICK k \in Nat : k = chunk - 1 /\ k + 1 = chunk /\ n = k + 1
        <4>1. chunk \in Nat \ {0}
          BY Constants DEF TypeOK
        <4> QED BY <1>5, <2>3, <4>1
      <3>3. OnPhone(e, k)
        BY <2>3, <3>1, <3>2 DEF WholeInv
      <3>4. PICK m \in Message :
              /\ DOMAIN phone' = DOMAIN phone \cup {Len(phone) + 1}
              /\ phone'[Len(phone) + 1] = m /\ m.chunk = chunk
              /\ m.what = "event" /\ m.n = Oldest
        BY <2>3, <3>1, Shown
      <3>5. m = [what |-> "event", n |-> e, chunk |-> k + 1]
        BY <3>1, <3>2, <3>4 DEF Message
      <3>6. phone \in Seq(Message)
        BY DEF TypeOK
      <3> QED BY <1>1, <3>2, <3>3, <3>4, <3>5, <3>6, OnPhoneNext
    <2> QED BY <2>1, <2>2, <2>3, Progress
  <1> QED BY <1>4, <1>5 DEF WholeInv

-----------------------------------------------------------------------------
(* Once                                                                      *)

(* Replies have numbers of their own, and the phone those that were asked.   *)
LEMMA NumberStep ==
    ASSUME TypeOK, PlaceInv, Numbered, Next
    PROVE  /\ Numbered'
           /\ \A n \in DOMAIN asked : n \in DOMAIN asked' /\ asked'[n] = asked[n]
  <1>1. /\ asked \in Seq(1..MaxChunks) /\ replies \in Seq(Nat) /\ phone \in Seq(Message)
        /\ \A i \in DOMAIN replies : replies[i] \in DOMAIN asked
    BY DEF TypeOK, PlaceInv
  <1>2. \A n \in DOMAIN asked : n \in DOMAIN asked' /\ asked'[n] = asked[n]
    <2>1. CASE \E n \in 1..MaxChunks : PollUpdate(n)
      BY <1>1, <2>1 DEF PollUpdate
    <2>2. CASE asked' = asked
      BY <2>2
    <2> QED BY <2>1, <2>2 DEF Next, Loop, QuietPoll, FlushEnds, DrainEnds, AckUnrendered,
              Take, Throttled, SendOk, Acknowledge, Elapse, Retry, GiveUp, Restart, Publish
  <1>3. \A i \in DOMAIN phone' : phone'[i].what # "event" =>
           phone'[i].what = "reply" /\ phone'[i].n \in DOMAIN asked
    <2>1. CASE Shows
      <3>1. PICK m \in Message :
              /\ DOMAIN phone' = DOMAIN phone \cup {Len(phone) + 1}
              /\ \A i \in DOMAIN phone : phone'[i] = phone[i]
              /\ phone'[Len(phone) + 1] = m
              /\ m.what # "event" =>
                    m.what = "reply" /\ m.n = Head(replies) /\ replies # <<>>
        BY <2>1, Shown
      <3>2. m.what # "event" => m.what = "reply" /\ m.n \in DOMAIN asked
        BY <1>1, <3>1, TailOf
      <3> QED BY <3>1, <3>2 DEF Numbered, IsEvent
    <2>2. CASE phone' = phone
      BY <2>2 DEF Numbered, IsEvent
    <2> QED BY <2>1, <2>2, PhoneOrStore DEF Acks, Publishes
  <1>4. \A i, j \in DOMAIN replies' : replies'[i] = replies'[j] => i = j
    <2>1. CASE replies' = replies
      BY <2>1 DEF Numbered
    <2>2. CASE replies' = Tail(replies) /\ replies # <<>>
      <3>1. \A i \in DOMAIN replies' :
               i \in Nat /\ i + 1 \in DOMAIN replies /\ replies'[i] = replies[i + 1]
        BY <1>1, <2>2, TailOf
      <3> SUFFICES ASSUME NEW i \in DOMAIN replies', NEW j \in DOMAIN replies',
                          replies'[i] = replies'[j]
                   PROVE  i = j
        OBVIOUS
      <3>2. i + 1 = j + 1 /\ i \in Nat /\ j \in Nat
        BY <3>1 DEF Numbered
      <3> QED BY <3>2
    <2>3. CASE replies' = <<>>
      BY <2>3
    <2>4. CASE \E n \in 1..MaxChunks : PollUpdate(n)
      <3>1. /\ DOMAIN replies' = DOMAIN replies \cup {Len(replies) + 1}
            /\ \A i \in DOMAIN replies : replies'[i] = replies[i]
            /\ replies'[Len(replies) + 1] = Len(asked) + 1
            /\ Len(asked) + 1 \notin DOMAIN asked
        BY <1>1, <2>4 DEF PollUpdate
      <3> QED BY <1>1, <3>1 DEF Numbered
    <2>5. (SendOk \/ GiveUp) /\ stage = "flush" => replies # <<>>
      BY DEF SendOk, GiveUp, TypeOK, Busy
    <2> QED BY <2>1, <2>2, <2>3, <2>4, <2>5
          DEF Next, Loop, QuietPoll, FlushEnds, DrainEnds, AckUnrendered,
              Take, Throttled, SendOk, Acknowledge, Elapse, Retry, GiveUp, Restart, Publish,
              item
  <1> QED BY <1>2, <1>3, <1>4 DEF Numbered, IsEvent

(* Nothing went wrong in this step.                                          *)
LEMMA Quiet ==
    ASSUME TypeOK, Next, troubles' = 0
    PROVE  /\ troubles = 0
           /\ ~Retry /\ ~GiveUp /\ ~Restart
  <1>1. troubles \in Nat
    BY Constants DEF TypeOK
  <1>2. ~Trouble
    BY <1>1 DEF Trouble
  <1> QED BY <1>1, <1>2
          DEF Next, Loop, QuietPoll, FlushEnds, DrainEnds, AckUnrendered,
              Take, Throttled, SendOk, Acknowledge, Elapse, Retry, GiveUp, Restart, Publish,
              PollUpdate

(* An event of one chunk that is on the phone and not acknowledged.          *)
Open(i) == IsEvent(i) /\ phone[i].n \in Unacked /\ events[phone[i].n] = 1

LEMMA OpenIsSent ==
    ASSUME TypeOK, PlaceInv, DoneEvents, NEW i \in DOMAIN phone, Open(i)
    PROVE  /\ stage = "drain" /\ Busy /\ phone[i].n = Oldest /\ chunk > Chunks
           /\ attempt = 0
  <1>1. stage = "drain" /\ Busy /\ phone[i].n = Oldest /\ chunk > 1
    BY DEF DoneEvents, Open
  <1>2. Chunks = 1
    BY <1>1 DEF Open, Chunks
  <1>3. chunk \in Nat /\ attempt \in Nat
    BY Constants DEF TypeOK
  <1>4. ~(attempt > 0)
    BY <1>1, <1>2, <1>3 DEF PlaceInv
  <1> QED BY <1>1, <1>2, <1>3, <1>4

LEMMA DoneEventsStep ==
    ASSUME TypeOK, PlaceInv, OrderInv, DoneEvents, Next, troubles' = 0
    PROVE  DoneEvents'
  <1>1. acked \subseteq DOMAIN events /\ events \in Seq(0..MaxChunks)
    BY DEF TypeOK
  <1> SUFFICES ASSUME NEW i \in DOMAIN phone', phone'[i].what = "event",
                      phone'[i].n \in Unacked', events'[phone'[i].n] = 1
               PROVE  stage' = "drain" /\ Busy' /\ phone'[i].n = Oldest' /\ chunk' > 1
    BY DEF DoneEvents, IsEvent
  <1>2. CASE i \in DOMAIN phone /\ phone'[i] = phone[i]
    <2>1. phone[i].n \in DOMAIN events
      BY <1>2 DEF OrderInv, IsEvent
    <2>2. phone[i].n \in Unacked /\ events[phone[i].n] = 1
      <3>1. CASE Publishes
        <4>1. PICK n \in 0..MaxChunks : events' = Append(events, n)
          BY <3>1 DEF Publishes
        <4>2. acked' = acked
          BY <3>1 DEF Publishes
        <4>3. events'[phone[i].n] = events[phone[i].n]
          BY <2>1, <4>1, <4>2, OldestStays
        <4>4. phone[i].n \notin acked
          BY <1>2, <4>2 DEF Unacked
        <4> QED BY <1>2, <2>1, <4>3, <4>4 DEF Unacked
      <3>2. CASE UNCHANGED events
        <4>1. acked \subseteq acked'
          BY <3>2, PhoneOrStore DEF Shows, Acks, Publishes
        <4> QED BY <1>2, <3>2, <4>1 DEF Unacked
      <3> QED BY <3>1, <3>2, PhoneOrStore DEF Shows, Acks
    <2>3. Open(i)
      BY <1>2, <2>2 DEF Open, IsEvent
    <2>4. /\ stage = "drain" /\ Busy /\ phone[i].n = Oldest /\ chunk > Chunks
          /\ attempt = 0 /\ chunk > 1
      BY <1>2, <2>3, OpenIsSent DEF DoneEvents, Open
    <2>5. SameHand /\ chunk' = chunk
      <3>1. CASE Acknowledge \/ AckUnrendered
        <4>1. Oldest \in acked'
          BY <3>1 DEF Acknowledge, AckUnrendered
        <4> QED BY <1>2, <2>4, <4>1 DEF Unacked
      <3>2. ~(chunk <= Chunks)
        <4>1. Chunks = 1
          BY <2>2, <2>4 DEF Chunks
        <4>2. chunk \in Nat
          BY Constants DEF TypeOK
        <4> QED BY <2>4, <4>1, <4>2
      <3>3. drained = MaxPerDrain => ~(drained < MaxPerDrain)
        BY Constants
      <3>4. ~(attempt > 0)
        BY <2>4
      <3>5. Elapse \/ (\E n \in 0..MaxChunks : Publish(n)) \/ Acknowledge \/ AckUnrendered
        BY <2>4, <3>2, <3>3, <3>4, Quiet
           DEF Next, Loop, QuietPoll, FlushEnds, DrainEnds, Take, Throttled, SendOk,
               PollUpdate, Busy
      <3>6. CASE Elapse \/ (\E n \in 0..MaxChunks : Publish(n))
        BY <3>6, HandKept DEF Elapse, Publish, item
      <3> QED BY <3>1, <3>5, <3>6
    <2> QED BY <1>2, <2>4, <2>5 DEF SameHand
  <1>3. CASE ~(i \in DOMAIN phone /\ phone'[i] = phone[i])
    <2>1. Shows
      BY <1>3, PhoneOrStore DEF Acks, Publishes
    <2>2. stage = "drain" /\ phone'[i].n = Oldest /\ SendOk
      <3>1. PICK m \in Message :
              /\ DOMAIN phone' = DOMAIN phone \cup {Len(phone) + 1}
              /\ \A k \in DOMAIN phone : phone'[k] = phone[k]
              /\ phone'[Len(phone) + 1] = m
              /\ stage = "flush" => m.what = "reply"
              /\ stage # "flush" => m.n = Oldest /\ stage = "drain"
        BY <2>1, Shown
      <3>2. phone'[i] = m
        BY <1>3, <3>1
      <3>3. ~(UNCHANGED phone)
        BY <1>3
      <3>4. SendOk
        BY <3>3, Quiet
           DEF Next, Loop, QuietPoll, FlushEnds, DrainEnds, AckUnrendered, Take, Throttled,
               Acknowledge, PollUpdate, Elapse, Publish
      <3> QED BY <3>1, <3>2, <3>4
    <2>3. replies' = replies /\ chunk' = chunk + 1
      BY <2>2 DEF SendOk
    <2>4. SameHand /\ Busy
      BY <2>1, <2>2, <2>3, HandKept DEF Shows
    <2>5. chunk' > 1
      BY <2>3, Constants DEF TypeOK
    <2> QED BY <2>2, <2>4, <2>5 DEF SameHand
  <1> QED BY <1>2, <1>3

(* What a step without trouble shows is the next chunk of what is in hand,   *)
(* which, if it has one chunk only, the phone does not show yet.             *)
LEMMA NewOnPhone ==
    ASSUME TypeOK, PlaceInv, DoneEvents, DoneReplies, Next, troubles' = 0,
           phone' # phone
    PROVE  SendOk /\ \E m \in Message :
              /\ DOMAIN phone' = DOMAIN phone \cup {Len(phone) + 1}
              /\ \A k \in DOMAIN phone : phone'[k] = phone[k]
              /\ phone'[Len(phone) + 1] = m /\ m.chunk = chunk /\ chunk <= Chunks
              /\ UNCHANGED <<events, asked>>
              /\ stage = "flush" =>
                    /\ m.what = "reply" /\ m.n = Head(replies) /\ replies # <<>>
                    /\ Chunks = asked[m.n]
              /\ stage # "flush" =>
                    m.what = "event" /\ m.n = Oldest /\ m.n \in Unacked
                    /\ Chunks = events[m.n]
              /\ Chunks = 1 => \A k \in DOMAIN phone : phone[k] # m
  <1>1. SendOk
    BY Quiet
       DEF Next, Loop, QuietPoll, FlushEnds, DrainEnds, AckUnrendered, Take, Throttled,
           Acknowledge, PollUpdate, Elapse, Publish
  <1>2. Shows
    BY <1>1 DEF SendOk, Shows, TypeOK, PlaceInv
  <1>3. PICK m \in Message :
              /\ DOMAIN phone' = DOMAIN phone \cup {Len(phone) + 1}
              /\ \A k \in DOMAIN phone : phone'[k] = phone[k]
              /\ phone'[Len(phone) + 1] = m /\ m.chunk = chunk
              /\ stage = "flush" => m.what = "reply" /\ m.n = Head(replies) /\ replies # <<>>
              /\ stage # "flush" => m.what = "event" /\ m.n = Oldest /\ stage = "drain"
                                    /\ Unacked # {}
    BY <1>2, Shown
  <1>4. CASE stage = "flush"
    <2>1. Chunks = asked[m.n]
      BY <1>3, <1>4 DEF Chunks
    <2>2. Head(replies) = replies[1] /\ 1 \in DOMAIN replies
      BY <1>3, <1>4, TailOf DEF PlaceInv
    <2>3. ASSUME Chunks = 1, NEW k \in DOMAIN phone PROVE phone[k] # m
      <3>1. ASSUME phone[k] = m PROVE FALSE
        <4>1. ~IsEvent(k) /\ asked[phone[k].n] = 1
          BY <1>3, <1>4, <2>1, <2>3, <3>1 DEF IsEvent
        <4> QED BY <1>3, <1>4, <2>2, <3>1, <4>1 DEF DoneReplies
      <3> QED BY <3>1
    <2> QED BY <1>1, <1>2, <1>3, <1>4, <2>1, <2>3 DEF Shows
  <1>5. CASE stage # "flush"
    <2>1. Chunks = events[m.n] /\ m.n \in Unacked
      BY <1>3, <1>5, OldestIsPending DEF Chunks
    <2>2. ASSUME Chunks = 1, NEW k \in DOMAIN phone PROVE phone[k] # m
      <3>1. ASSUME phone[k] = m PROVE FALSE
        <4>1. Open(k)
          BY <1>3, <1>5, <2>1, <2>2, <3>1 DEF Open, IsEvent
        <4>2. attempt = 0
          BY <4>1, OpenIsSent
        <4>3. attempt > 0
          BY <1>1 DEF SendOk
        <4> QED BY <4>2, <4>3
      <3> QED BY <3>1
    <2> QED BY <1>1, <1>2, <1>3, <1>5, <2>1, <2>2 DEF Shows
  <1> QED BY <1>4, <1>5

LEMMA DoneRepliesStep ==
    ASSUME TypeOK, PlaceInv, Numbered, DoneEvents, DoneReplies, Next, troubles' = 0
    PROVE  DoneReplies'
  <1>1. /\ asked \in Seq(1..MaxChunks) /\ replies \in Seq(Nat)
        /\ \A i \in DOMAIN replies : replies[i] \in DOMAIN asked
        /\ \A n \in DOMAIN asked : n \in DOMAIN asked' /\ asked'[n] = asked[n]
    BY NumberStep DEF TypeOK, PlaceInv
  <1>2. ASSUME NEW i \in DOMAIN phone, phone[i].what # "event", asked'[phone[i].n] = 1,
               NEW k \in DOMAIN replies'
        PROVE  replies'[k] # phone[i].n
    <2>1. phone[i].n \in DOMAIN asked /\ asked[phone[i].n] = 1
      BY <1>1, <1>2 DEF Numbered, IsEvent
    <2>2. \A j \in DOMAIN replies : replies[j] # phone[i].n
      BY <1>2, <2>1 DEF DoneReplies, IsEvent
    <2>3. CASE \E n \in 1..MaxChunks : PollUpdate(n)
      <3>1. /\ DOMAIN replies' = DOMAIN replies \cup {Len(replies) + 1}
            /\ \A j \in DOMAIN replies : replies'[j] = replies[j]
            /\ replies'[Len(replies) + 1] = Len(asked) + 1
            /\ Len(asked) + 1 \notin DOMAIN asked
        BY <1>1, <2>3 DEF PollUpdate
      <3> QED BY <1>2, <2>1, <2>2, <3>1
    <2>4. CASE replies' = replies
      BY <1>2, <2>2, <2>4
    <2>5. CASE replies' = Tail(replies) /\ replies # <<>>
      BY <1>1, <1>2, <2>2, <2>5, TailOf
    <2>6. SendOk /\ stage = "flush" => replies # <<>>
      BY DEF SendOk, TypeOK, Busy
    <2> QED BY <2>3, <2>4, <2>5, <2>6, Quiet
            DEF Next, Loop, QuietPoll, FlushEnds, DrainEnds, AckUnrendered, Take, Throttled,
                SendOk, Acknowledge, Elapse, Publish
  <1>3. CASE phone' = phone
    BY <1>2, <1>3 DEF DoneReplies, IsEvent
  <1>4. CASE phone' # phone
    <2>1. SendOk
      BY <1>4, NewOnPhone
    <2>2. PICK m \in Message :
              /\ DOMAIN phone' = DOMAIN phone \cup {Len(phone) + 1}
              /\ \A k \in DOMAIN phone : phone'[k] = phone[k]
              /\ phone'[Len(phone) + 1] = m /\ chunk <= Chunks
              /\ UNCHANGED asked
              /\ stage = "flush" =>
                    /\ m.what = "reply" /\ m.n = Head(replies) /\ replies # <<>>
                    /\ Chunks = asked[m.n]
              /\ stage # "flush" => m.what = "event"
      BY <1>4, NewOnPhone
    <2>3. ASSUME m.what # "event", asked'[m.n] = 1, NEW k \in DOMAIN replies'
          PROVE  replies'[k] # m.n
      <3>1. stage = "flush" /\ Chunks = 1 /\ chunk = 1
        <4>1. stage = "flush" /\ Chunks = 1
          BY <2>2, <2>3
        <4>2. chunk \in Nat \ {0}
          BY Constants DEF TypeOK
        <4> QED BY <2>2, <4>1, <4>2
      <3>2. replies' = Tail(replies)
        BY <2>1, <3>1 DEF SendOk
      <3>3. /\ k \in Nat /\ k + 1 \in DOMAIN replies /\ replies'[k] = replies[k + 1]
            /\ m.n = replies[1] /\ 1 \in DOMAIN replies
        BY <1>1, <2>2, <2>3, <3>1, <3>2, TailOf
      <3>4. k \in DOMAIN Tail(replies) /\ k >= 1
        BY <1>1, <2>2, <2>3, <3>1, <3>2
      <3>5. k + 1 # 1
        BY <3>3, <3>4
      <3> QED BY <3>3, <3>5 DEF Numbered
    <2> QED BY <1>2, <2>2, <2>3 DEF DoneReplies, IsEvent
  <1> QED BY <1>3, <1>4

LEMMA OnceStep ==
    ASSUME TypeOK, PlaceInv, OrderInv, OnceInv, Next
    PROVE  OnceInv'
  <1>1. Numbered' /\ \A n \in DOMAIN asked : asked'[n] = asked[n]
    BY NumberStep DEF OnceInv
  <1>2. CASE troubles' # 0
    BY <1>1, <1>2 DEF OnceInv, OneChunkShownOnce
  <1>3. CASE troubles' = 0
    <2>1. troubles = 0 /\ DoneEvents /\ DoneReplies /\ Numbered
      BY <1>3, Quiet DEF OnceInv
    <2>2. DoneEvents' /\ DoneReplies'
      BY <1>3, <2>1, DoneEventsStep, DoneRepliesStep
    <2>3. ASSUME NEW i \in DOMAIN phone, NEW j \in DOMAIN phone, phone[i] = phone[j],
                 (IF phone[i].what = "event" THEN events'[phone[i].n]
                                             ELSE asked'[phone[i].n]) = 1
          PROVE  i = j
      <3>1. phone[i].what = "event" => events'[phone[i].n] = events[phone[i].n]
        <4>1. phone[i].what = "event" => phone[i].n \in DOMAIN events
          BY DEF OrderInv, IsEvent
        <4>2. CASE Publishes
          BY <4>1, <4>2, OldestStays DEF Publishes
        <4> QED BY <4>2, PhoneOrStore DEF Shows, Acks
      <3>2. phone[i].what # "event" => asked'[phone[i].n] = asked[phone[i].n]
        BY <1>1, <2>1 DEF Numbered, IsEvent
      <3> QED BY <2>1, <2>3, <3>1, <3>2 DEF OnceInv, OneChunkShownOnce
    <2>4. OneChunkShownOnce'
      <3> SUFFICES ASSUME NEW i \in DOMAIN phone', NEW j \in DOMAIN phone',
                          phone'[i] = phone'[j],
                          (IF phone'[i].what = "event" THEN events'[phone'[i].n]
                                                       ELSE asked'[phone'[i].n]) = 1
                   PROVE  i = j
        BY DEF OneChunkShownOnce
      <3>1. CASE phone' = phone
        BY <2>3, <3>1
      <3>2. CASE phone' # phone
        <4>1. PICK m \in Message :
              /\ DOMAIN phone' = DOMAIN phone \cup {Len(phone) + 1}
              /\ \A k \in DOMAIN phone : phone'[k] = phone[k]
              /\ phone'[Len(phone) + 1] = m /\ UNCHANGED <<events, asked>>
              /\ stage = "flush" => m.what = "reply" /\ Chunks = asked[m.n]
              /\ stage # "flush" => m.what = "event" /\ Chunks = events[m.n]
              /\ Chunks = 1 => \A k \in DOMAIN phone : phone[k] # m
          BY <1>3, <2>1, <3>2, NewOnPhone
        <4>2. (phone'[i] = m \/ phone'[j] = m) => Chunks = 1
          BY <4>1
        <4>3. CASE i \in DOMAIN phone /\ j \in DOMAIN phone
          BY <2>3, <4>1, <4>3
        <4>4. CASE i = Len(phone) + 1 \/ j = Len(phone) + 1
          BY <4>1, <4>2, <4>4
        <4> QED BY <4>1, <4>3, <4>4
      <3> QED BY <3>1, <3>2
    <2> QED BY <1>1, <2>2, <2>4 DEF OnceInv
  <1> QED BY <1>2, <1>3

-----------------------------------------------------------------------------
(* The theorems                                                              *)

(* The run loop keeps the four parts of the invariant, whatever is sent,     *)
(* lost, throttled or interrupted.                                           *)
THEOREM Invariance == Spec => []IInv
  <1>1. ASSUME Init PROVE IInv
    <2>1. /\ events = <<>> /\ acked = {} /\ phone = <<>> /\ replies = <<>> /\ asked = <<>>
          /\ stage = "poll" /\ chunk = 1 /\ attempt = 0 /\ hits = NoHits
          /\ drained = 0 /\ troubles = 0
      BY <1>1 DEF Init
    <2>2. ~Busy
      BY <2>1 DEF Busy
    <2>3. /\ hits \in [1..WindowPolls -> 0..MaxHits]
          /\ \A a, b \in 1..WindowPolls : a <= b => hits[a] <= hits[b]
      BY <2>1, Constants DEF NoHits
    <2>4. TypeOK
      BY <2>1, <2>3, Constants DEF TypeOK
    <2>5. PlaceInv
      BY <2>1, <2>2 DEF PlaceInv
    <2>6. OrderInv /\ WholeInv /\ OnceInv
      BY <2>1 DEF OrderInv, EventsInOrder, WholeInv, OnceInv, Numbered, DoneEvents,
                  DoneReplies, OneChunkShownOnce
    <2> QED BY <2>4, <2>5, <2>6 DEF IInv
  <1>2. ASSUME IInv, [Next]_vars PROVE IInv'
    <2>1. CASE Next
      BY <1>2, <2>1, TypeStep, OrderStep, WholeStep, OnceStep DEF IInv
    <2>2. CASE UNCHANGED vars
      <3>1. /\ UNCHANGED <<events, acked, phone, stage, replies, asked, chunk, attempt,
                           hits, drained, troubles>>
        BY <2>2 DEF vars, item
      <3>2. /\ Busy' <=> Busy
            /\ Chunks' = Chunks /\ Oldest' = Oldest /\ Unacked' = Unacked
        BY <1>2, <3>1, Unmoved DEF IInv
      <3>3. TypeOK' /\ PlaceInv'
        BY <1>2, <3>1, <3>2 DEF IInv, TypeOK, PlaceInv
      <3>4. OrderInv' /\ WholeInv' /\ OnceInv'
        BY <1>2, <3>1, <3>2
           DEF IInv, OrderInv, EventsInOrder, WholeInv, OnPhone, OnceInv, Numbered,
               DoneEvents, DoneReplies, OneChunkShownOnce, IsEvent
      <3> QED BY <3>3, <3>4 DEF IInv
    <2> QED BY <1>2, <2>1, <2>2
  <1> QED BY <1>1, <1>2, PTL DEF Spec

(* Store, memory and chat keep their types; a call is in flight only for a   *)
(* message in hand, and the limiter never counts more sends than it grants.  *)
THEOREM TypeCorrect == Spec => []TypeOK
  <1>1. IInv => TypeOK
    BY DEF IInv
  <1> QED BY <1>1, Invariance, PTL

(* The phone shows the events in the order they happened, through retries,   *)
(* throttles and restarts.                                                   *)
THEOREM EventsInOrderTheorem == Spec => []EventsInOrder
  <1>1. IInv => EventsInOrder
    BY DEF IInv, OrderInv
  <1> QED BY <1>1, Invariance, PTL

(* An acknowledged event is on the phone whole, and so is every one before.  *)
THEOREM AckedIsOnThePhoneTheorem == Spec => []AckedIsOnThePhone
  <1>1. IInv => AckedIsOnThePhone
    <2> SUFFICES ASSUME IInv, NEW e \in acked, NEW f \in 1..e, events[f] > 0
                 PROVE  OnPhone(f, events[f])
      BY DEF AckedIsOnThePhone, OnPhone
    <2>1. f \in acked
      BY DEF IInv, OrderInv
    <2> QED BY <2>1 DEF IInv, WholeInv
  <1> QED BY <1>1, Invariance, PTL

(* Without trouble no message of one chunk is on the phone twice.            *)
THEOREM OneChunkShownOnceTheorem == Spec => []OneChunkShownOnce
  <1>1. IInv => OneChunkShownOnce
    BY DEF IInv, OnceInv
  <1> QED BY <1>1, Invariance, PTL
=============================================================================
