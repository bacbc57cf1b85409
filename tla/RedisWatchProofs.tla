-------------------------- MODULE RedisWatchProofs --------------------------
(***************************************************************************)
(* A page that follows the notifications of its key shows the key, for any *)
(* values, any configuration that WatchAssumption admits, any number of    *)
(* changes and wherever commands fail.                                     *)
(***************************************************************************)
EXTENDS RedisWatch, SequenceTheorems, TLAPS

Keys == {d \in Details : d.value # 0} \cup {Absent}
Events == {"set", "expire", "del", "rename_from"}

\* a watcher that is subscribed, or about to be, gets every notification
Notified ==
    /\ flags = {} \/ "A" \in flags
    /\ subscribed \/ pc = "subscribe" => {"K", "A"} \subseteq flags

\* notifications wait only for a watcher that has subscribed
Mode ==
    /\ why = "event" => pc \in Reading \cup {"select", "failed"}
    /\ why = "poll" => pc \in Reading \cup {"tick", "failed"}
    /\ why # "event" /\ pc # "select" => channel = <<>>

\* a "del" that is the last to come was not followed by another change
DelIsLast == subscribed /\ channel # <<>> /\ channel[Len(channel)] = "del" => key = Absent

\* nothing has changed that the watcher has not heard of
Current == channel = <<>> /\ ~owed /\ why # "poll"

\* what a reading has found so far is still so
ReadingCurrent ==
    Current =>
        /\ pc \in {"ttl", "type", "value"} => key # Absent
        /\ pc \in {"type", "value"} => got.expires = key.expires
        /\ pc = "value" => got.kind = key.kind
        /\ open /\ pc \in {"config", "subscribe", "select"} => page = key

WatchInv == TypeOK /\ Notified /\ Mode /\ DelIsLast /\ ReadingCurrent

(* Every step is one of these, which the proofs go through.                *)
Changing == \E new \in Keys, event \in Events : Change(new, event) /\ (event = "del" => new = Absent)

LEMMA Steps ==
  ASSUME TypeOK, Next
  PROVE  \/ Changing /\ page' = page /\ open' \in {open, FALSE}
         \/ Leave \/ GetKey \/ Configure \/ Subscribe \/ Receive \/ Tick
<1>1. CASE SetKey
  <2>1. PICK k \in {"string", "hash"}, v \in Values : Change(Detail(k, v, FALSE), "set")
    BY <1>1 DEF SetKey
  <2>2. Detail(k, v, FALSE) \in Keys
    BY WatchAssumption DEF Keys, Detail, Details
  <2> QED
    BY <1>1, <2>1, <2>2 DEF SetKey, Changing, Events
<1>2. CASE ExpireKey
  <2>1. key \in Details /\ key.value # 0
    BY <1>2 DEF ExpireKey, TypeOK
  <2>2. [key EXCEPT !.expires = TRUE] \in Keys
    BY <2>1 DEF Keys, Details
  <2> QED
    BY <1>2, <2>2 DEF ExpireKey, Changing, Events
<1>3. CASE LoseKey \/ DeleteKey
  BY <1>3 DEF LoseKey, DeleteKey, Changing, Events, Keys
<1> QED
  BY <1>1, <1>2, <1>3 DEF Next, Others, WatchKey

LEMMA TypeStep ==
  ASSUME TypeOK, Next
  PROVE  TypeOK'
<1> USE DEF TypeOK
<1>1. CASE Changing /\ page' = page /\ open' \in {open, FALSE}
  <2>1. PICK new \in Keys, event \in Events : Change(new, event)
    BY <1>1 DEF Changing
  <2>2. channel' \in Seq(Events)
    BY <2>1 DEF Change, Events
  <2>3. changes' \in 0..MaxChanges
    BY <2>1, WatchAssumption DEF Change
  <2>4. owed' \in BOOLEAN
    BY <2>1 DEF Change, subscribed
  <2> QED
    BY <1>1, <2>1, <2>2, <2>3, <2>4 DEF Change, Keys, Events
<1>2. CASE Leave
  BY <1>2 DEF Leave, redis
<1>3. CASE GetKey
  <2>0. UNCHANGED <<key, flags, channel, why, open, changes, owed>>
    BY <1>3 DEF GetKey, redis
  <2>1. why \in {"snapshot", "event", "poll"} /\ Absent \in Details \cup {Absent, Loading}
    OBVIOUS
  <2>2. CASE Exists
    <3>1. got' = got /\ pc' \in Reading \cup {"config", "select", "tick"}
      BY <2>1, <2>2 DEF Exists, NotFound, Return, Reading
    <3>2. last' \in Details \cup {Absent} /\ page' \in Details \cup {Absent, Loading}
      BY <2>2 DEF Exists, NotFound, Emit, LastGone
    <3> QED
      BY <2>0, <3>1, <3>2
  <2>3. CASE Ttl
    <3>1. key.expires \in BOOLEAN
      <4>1. CASE key = Absent
        BY <4>1 DEF Absent, Detail
      <4>2. CASE key \in Details
        BY <4>2 DEF Details
      <4> QED
        BY <4>1, <4>2
    <3>2. got' \in Details
      BY <2>3, <3>1 DEF Ttl, Details
    <3> QED
      BY <2>0, <2>3, <3>2 DEF Ttl, Reading
  <2>4. CASE Type
    <3>1. key # Absent => key.kind \in {"string", "hash"}
      BY DEF Details
    <3>2. got' \in Details
      BY <2>4, <3>1 DEF Type, Details
    <3> QED
      BY <2>0, <2>4, <3>2 DEF Type, Fail, Reading
  <2>5. CASE ReadValue
    <3> DEFINE d == [got EXCEPT !.value = key.value]
    <3>1. key.value \in Values \cup {0}
      BY DEF Details, Absent, Detail
    <3>2. d \in Details
      BY <3>1 DEF Details
    <3>3. CASE Found(d)
      <4>1. pc' \in {"config", "select", "tick"}
        BY <2>1, <3>3 DEF Found, Return
      <4>2. page' \in Details \cup {Absent, Loading} /\ last' \in Details
        BY <3>2, <3>3 DEF Found, Emit
      <4> QED
        BY <2>0, <2>5, <4>1, <4>2 DEF ReadValue
    <3>4. CASE Fail
      BY <2>0, <2>5, <3>4 DEF ReadValue, Fail
    <3> QED
      BY <2>5, <3>3, <3>4 DEF ReadValue
  <2>6. CASE CommandFails
    BY <2>0, <2>6 DEF CommandFails, Fail
  <2> QED
    BY <1>3, <2>2, <2>3, <2>4, <2>5, <2>6 DEF GetKey
<1>4. CASE Configure
  BY <1>4 DEF Configure, Updated
<1>5. CASE Subscribe
  BY <1>5 DEF Subscribe, redis
<1>6. CASE Receive
  <2>1. channel' \in Seq(Events)
    BY <1>6 DEF Receive, Events
  <2> QED
    BY <1>6, <2>1 DEF Receive, redis, Emit, Reading, Events
<1>7. CASE Tick
  BY <1>7 DEF Tick, redis, Reading
<1> QED
  BY <1>1, <1>2, <1>3, <1>4, <1>5, <1>6, <1>7, Steps

(* Where GetKey takes the watcher.                                         *)
LEMMA GetKeyMoves ==
  ASSUME TypeOK, GetKey
  PROVE  /\ pc \in Reading
         /\ pc' \in Reading \cup {"failed"}
            \/ pc' = CASE why = "snapshot" -> "config"
                       [] why = "event" -> "select"
                       [] why = "poll" -> "tick"
         /\ UNCHANGED <<key, flags, channel, why, open, changes, owed>>
  BY DEF GetKey, redis, Exists, Ttl, Type, ReadValue, CommandFails, NotFound, Found, Fail, Return,
         Reading

LEMMA NotifiedStep ==
  ASSUME TypeOK, Notified, Mode, Next
  PROVE  Notified'
<1> USE DEF Notified, subscribed
<1>1. CASE Changing /\ page' = page /\ open' \in {open, FALSE}
  BY <1>1 DEF Changing, Change
<1>2. CASE Leave
  BY <1>2 DEF Leave, redis
<1>3. CASE GetKey
  BY <1>3, GetKeyMoves DEF Mode, Reading, TypeOK
<1>4. CASE Configure
  BY <1>4 DEF Configure, Updated, Mode, Reading
<1>5. CASE Subscribe
  BY <1>5 DEF Subscribe, redis
<1>6. CASE Receive
  BY <1>6 DEF Receive, redis
<1>7. CASE Tick
  BY <1>7 DEF Tick, redis
<1> QED
  BY <1>1, <1>2, <1>3, <1>4, <1>5, <1>6, <1>7, Steps

LEMMA ModeStep ==
  ASSUME TypeOK, Mode, Next
  PROVE  Mode'
<1> USE DEF Mode, Reading
<1>1. CASE Changing /\ page' = page /\ open' \in {open, FALSE}
  BY <1>1 DEF Changing, Change, subscribed
<1>2. CASE Leave
  BY <1>2 DEF Leave, redis
<1>3. CASE GetKey
  BY <1>3, GetKeyMoves DEF TypeOK
<1>4. CASE Configure
  BY <1>4 DEF Configure
<1>5. CASE Subscribe
  BY <1>5 DEF Subscribe, redis
<1>6. CASE Receive
  BY <1>6 DEF Receive, redis
<1>7. CASE Tick
  BY <1>7 DEF Tick, redis
<1> QED
  BY <1>1, <1>2, <1>3, <1>4, <1>5, <1>6, <1>7, Steps

(* A "del" at the end of the queue tells how the key is.                   *)
LEMMA DelIsLastStep ==
  ASSUME TypeOK, Notified, Mode, DelIsLast, Next
  PROVE  DelIsLast'
<1> USE DEF subscribed
<1>1. CASE Changing /\ page' = page /\ open' \in {open, FALSE}
  <2>1. PICK new \in Keys, event \in Events : Change(new, event) /\ (event = "del" => new = Absent)
    BY <1>1 DEF Changing
  <2>2. CASE subscribed
    <3>1. channel' = Append(channel, event) /\ key' = new
      BY <2>1, <2>2 DEF Change, Notified
    <3>2. channel'[Len(channel')] = event
      BY <3>1 DEF TypeOK, Events
    <3> QED
      BY <2>1, <3>1, <3>2 DEF DelIsLast
  <2>3. CASE ~subscribed
    BY <2>1, <2>3 DEF Change, DelIsLast
  <2> QED
    BY <2>2, <2>3
<1>2. CASE Leave
  BY <1>2 DEF Leave, redis, DelIsLast
<1>3. CASE GetKey
  BY <1>3, GetKeyMoves DEF Mode, Reading, DelIsLast, TypeOK
<1>4. CASE Configure
  BY <1>4 DEF Configure, DelIsLast
<1>5. CASE Subscribe
  BY <1>5 DEF Subscribe, redis, DelIsLast, Mode, Reading
<1>6. CASE Receive
  <2>1. channel' = Tail(channel) /\ channel # <<>> /\ key' = key /\ subscribed
    BY <1>6 DEF Receive, redis
  <2>2. channel' # <<>> => channel'[Len(channel')] = channel[Len(channel)]
    BY <2>1 DEF TypeOK
  <2> QED
    BY <2>1, <2>2 DEF DelIsLast
<1>7. CASE Tick
  BY <1>7 DEF Tick, redis, DelIsLast, Mode
<1> QED
  BY <1>1, <1>2, <1>3, <1>4, <1>5, <1>6, <1>7, Steps

LEMMA LastLeft ==
  ASSUME NEW S, NEW s \in Seq(S), s # <<>>, Tail(s) = <<>>
  PROVE  s[Len(s)] = Head(s)
<1>1. Len(Tail(s)) = Len(s) - 1
  BY HeadTailProperties
<1>2. Len(Tail(s)) = 0 /\ Len(s) \in Nat
  BY LenProperties
<1>3. Len(s) = 1
  BY <1>1, <1>2
<1> QED
  BY <1>3

(* A reading during which nothing changes is right, and one during which   *)
(* something changes is followed by another, or is not owed.               *)
LEMMA ReadingCurrentStep ==
  ASSUME TypeOK, Notified, Mode, DelIsLast, ReadingCurrent, Next
  PROVE  ReadingCurrent'
<1> USE DEF subscribed, Current
<1>1. CASE Changing /\ page' = page /\ open' \in {open, FALSE}
  <2>1. PICK new \in Keys, event \in Events : Change(new, event)
    BY <1>1 DEF Changing
  <2>2. CASE subscribed
    <3>1. channel' = Append(channel, event)
      BY <2>1, <2>2 DEF Change, Notified
    <3>2. channel' # <<>>
      BY <3>1 DEF TypeOK
    <3> QED
      BY <3>2 DEF ReadingCurrent
  <2>3. CASE ~subscribed
    BY <2>1, <2>3 DEF Change, ReadingCurrent
  <2> QED
    BY <2>2, <2>3
<1>2. CASE Leave
  BY <1>2 DEF Leave, redis, ReadingCurrent
<1>3. CASE GetKey
  <2>0. /\ UNCHANGED <<key, flags, channel, why, open, changes, owed>>
        /\ why \in {"snapshot", "event", "poll"}
    BY <1>3, GetKeyMoves DEF TypeOK
  <2>1. SUFFICES ASSUME Current PROVE ReadingCurrent'
    BY <2>0 DEF ReadingCurrent
  <2>2. CASE Exists
    BY <2>0, <2>1, <2>2 DEF Exists, NotFound, Return, Emit, ReadingCurrent
  <2>3. CASE Ttl
    <3>1. got'.expires = key.expires
      BY <2>3 DEF Ttl, TypeOK, Details
    <3> QED
      BY <2>0, <2>1, <2>3, <3>1 DEF Ttl, ReadingCurrent
  <2>4. CASE Type
    <3>1. CASE key = Absent
      BY <2>0, <2>1, <2>4, <3>1 DEF Type, Fail, ReadingCurrent
    <3>2. CASE key # Absent
      <4>1. got'.kind = key.kind /\ got'.expires = got.expires
        BY <2>4, <3>2 DEF Type, TypeOK, Details
      <4> QED
        BY <2>0, <2>1, <2>4, <3>2, <4>1 DEF Type, ReadingCurrent
    <3> QED
      BY <3>1, <3>2
  <2>5. CASE ReadValue
    <3> DEFINE d == [got EXCEPT !.value = key.value]
    <3>1. key # Absent /\ got.expires = key.expires /\ got.kind = key.kind
      BY <2>1, <2>5 DEF ReadValue, ReadingCurrent
    <3>2. key \in Details /\ got \in Details
      BY <3>1 DEF TypeOK
    <3>3. d = key
      BY <3>1, <3>2 DEF Details
    <3>4. Found(key)
      BY <2>5, <3>1, <3>3 DEF ReadValue
    <3> QED
      BY <2>0, <2>1, <3>4 DEF Found, Return, Emit, ReadingCurrent
  <2>6. CASE CommandFails
    BY <2>0, <2>6 DEF CommandFails, Fail, ReadingCurrent
  <2> QED
    BY <1>3, <2>2, <2>3, <2>4, <2>5, <2>6 DEF GetKey
<1>4. CASE Configure
  BY <1>4 DEF Configure, ReadingCurrent
<1>5. CASE Subscribe
  BY <1>5 DEF Subscribe, redis, ReadingCurrent
<1>6. CASE Receive
  <2>1. channel' = Tail(channel) /\ channel # <<>> /\ UNCHANGED <<key, open>>
    BY <1>6 DEF Receive, redis
  <2>2. CASE IsDeleteEvent(Head(channel))
    <3>1. channel' = <<>> => channel[Len(channel)] = "del"
      BY <2>1, <2>2, LastLeft DEF TypeOK, IsDeleteEvent
    <3>2. channel' = <<>> => key = Absent
      BY <1>6, <2>1, <3>1 DEF DelIsLast, Receive
    <3> QED
      BY <1>6, <2>1, <2>2, <3>2 DEF Receive, Emit, ReadingCurrent
  <2>3. CASE ~IsDeleteEvent(Head(channel))
    BY <1>6, <2>3 DEF Receive, ReadingCurrent
  <2> QED
    BY <2>2, <2>3
<1>7. CASE Tick
  BY <1>7 DEF Tick, redis, ReadingCurrent
<1> QED
  BY <1>1, <1>2, <1>3, <1>4, <1>5, <1>6, <1>7, Steps

(***************************************************************************)
(* The invariant, and what follows from it.                                *)
(***************************************************************************)
LEMMA WatchInvInit == Init => WatchInv
<1> SUFFICES ASSUME Init PROVE WatchInv
  OBVIOUS
<1>1. key \in Keys
  <2>1. [kind : {"string", "hash"}, value : Values, expires : {FALSE}] \subseteq Keys
    BY WatchAssumption DEF Keys, Details
  <2> QED
    BY <2>1 DEF Init, Keys
<1>2. got \in Details
  BY DEF Init, Details, Detail
<1>3. flags = {} \/ "A" \in flags
  BY WatchAssumption DEF Init
<1>4. flags \subseteq {"K", "A", "E"}
  BY WatchAssumption DEF Init
<1>5. channel \in Seq(Events) /\ changes \in 0..MaxChanges
  BY WatchAssumption DEF Init, Events
<1>6. TypeOK
  BY <1>1, <1>2, <1>4, <1>5 DEF Init, TypeOK, Keys, Events, Reading
<1>7. Notified /\ Mode /\ DelIsLast /\ ReadingCurrent
  BY <1>3 DEF Init, Notified, Mode, DelIsLast, ReadingCurrent, subscribed, Reading
<1> QED
  BY <1>6, <1>7 DEF WatchInv

LEMMA WatchInvStep == WatchInv /\ [Next]_vars => WatchInv'
<1>1. ASSUME WatchInv, Next PROVE WatchInv'
  BY <1>1, TypeStep, NotifiedStep, ModeStep, DelIsLastStep, ReadingCurrentStep DEF WatchInv
<1>2. ASSUME WatchInv, UNCHANGED vars PROVE WatchInv'
  BY <1>2 DEF vars, redis, WatchInv, TypeOK, Notified, Mode, DelIsLast, ReadingCurrent, Current,
              subscribed
<1> QED
  BY <1>1, <1>2

LEMMA WatchInvAlways == Spec => []WatchInv
  BY WatchInvInit, WatchInvStep, PTL DEF Spec

(* Every variable keeps its type; in particular no reading that succeeds   *)
(* is of a key of no kind.                                                 *)
THEOREM TypeCorrect == Spec => []TypeOK
<1>1. WatchInv => TypeOK
  BY DEF WatchInv
<1> QED
  BY <1>1, WatchInvAlways, PTL

(* A page that has taken every notification shows the key as it is, unless *)
(* the key changed between the snapshot and the subscription and not since *)
THEOREM PageShowsKey == Spec => []LiveShowsKey
<1>1. WatchInv => LiveShowsKey
  BY DEF WatchInv, Mode, Reading, ReadingCurrent, Current, LiveShowsKey
<1> QED
  BY <1>1, WatchInvAlways, PTL
=============================================================================
