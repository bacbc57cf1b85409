----------------------------- MODULE RedisWatch -----------------------------
(***************************************************************************)
(* The live view of one Redis key in the admin web UI: WatchKey reads the  *)
(* key, then follows it through keyspace notifications or, when the server *)
(* refuses to send them, by polling.  A reading is four commands, between  *)
(* which other clients change the key.                                     *)
(*                                                                         *)
(* One page and its watcher are modelled, from the connection on.  The     *)
(* watcher outlives its page: nothing reads the hijacked connection, so    *)
(* its context is not cancelled, and errors of writing to it are ignored.  *)
(***************************************************************************)
EXTENDS Integers, Sequences

CONSTANTS
    Values,       \* contents of a key; 0 is the empty collection
    Configured,   \* values of notify-keyspace-events, as sets of flags
    MayFail,      \* whether a command can fail of itself
    MaxChanges    \* bound: changes of the key by its owners

ASSUME WatchAssumption ==
    /\ Values \subseteq Nat \ {0}
    /\ \A flags \in Configured : flags \subseteq {"K", "A", "E"} /\ (flags = {} \/ "A" \in flags)
    /\ MayFail \in BOOLEAN
    /\ MaxChanges \in Nat

VARIABLES
    key, flags,    \* Redis: the watched key, the notifications configured
    channel,       \* notifications on the way to the watcher
    pc, why,       \* the watcher: where it is, what it reads the key for
    got,           \* what GetKey has read so far
    last,          \* what watchPoll compares with
    open, page,    \* the page, and what it shows
    changes,       \* history: changes of the key so far
    owed           \* history: changed since the watch began, and not heard of

redis == <<key, flags>>
vars == <<key, flags, channel, pc, why, got, last, open, page, changes, owed>>

Reading == {"exists", "ttl", "type", "value"}
Detail(kind, value, expires) == [kind |-> kind, value |-> value, expires |-> expires]
Details == [kind : {"string", "hash"}, value : Values \cup {0}, expires : BOOLEAN]
Absent == Detail("none", 0, FALSE)        \* no key; a page that says "deleted"
Loading == Detail("loading", 0, FALSE)    \* a page that has heard nothing

TypeOK ==
    /\ key \in {d \in Details : d.value # 0} \cup {Absent}
    /\ flags \subseteq {"K", "A", "E"}
    /\ channel \in Seq({"set", "expire", "del", "rename_from"})
    /\ pc \in Reading \cup {"config", "subscribe", "select", "tick", "failed"}
    /\ why \in {"snapshot", "event", "poll"}
    /\ got \in Details
    /\ last \in Details \cup {Absent}
    /\ open \in BOOLEAN
    /\ page \in Details \cup {Absent, Loading}
    /\ changes \in 0..MaxChanges
    /\ owed \in BOOLEAN

-----------------------------------------------------------------------------
(* Redis and the other clients.                                            *)

subscribed == pc = "select" \/ (why = "event" /\ pc # "failed")

(* A change and its notification: published only for flags K and a class.  *)
Change(new, event) ==
    /\ changes < MaxChanges
    /\ changes' = changes + 1
    /\ key' = new
    /\ channel' = IF subscribed /\ {"K", "A"} \subseteq flags
                    THEN Append(channel, event) ELSE channel
    /\ owed' = (owed \/ ~subscribed)
    /\ UNCHANGED <<flags, pc, why, got, last>>

SetKey ==
    /\ \E kind \in {"string", "hash"}, v \in Values : Change(Detail(kind, v, FALSE), "set")
    /\ UNCHANGED <<open, page>>

ExpireKey ==
    /\ key # Absent
    /\ Change([key EXCEPT !.expires = TRUE], "expire")
    /\ UNCHANGED <<open, page>>

(* deleted, expired, evicted, unlinked or renamed *)
LoseKey ==
    /\ key # Absent
    /\ \E event \in {"del", "rename_from"} : Change(Absent, event)
    /\ UNCHANGED <<open, page>>

-----------------------------------------------------------------------------
(* The page.                                                               *)

Leave ==
    /\ open /\ open' = FALSE
    /\ UNCHANGED <<redis, channel, pc, why, got, last, page, changes, owed>>

(* The button deletes the key and leaves; a key not found is an error.     *)
DeleteKey ==
    /\ open /\ page \notin {Loading, Absent} /\ key # Absent
    /\ open' = FALSE
    /\ Change(Absent, "del")
    /\ UNCHANGED page

Emit(d) == page' = IF open THEN d ELSE page

-----------------------------------------------------------------------------
(* GetKey, and what WatchKey, watchKeyspace and watchPoll do with it.      *)

Return == pc' = CASE why = "snapshot" -> "config"
                  [] why = "event"    -> "select"
                  [] why = "poll"     -> "tick"

(* whether watchPoll is silent about a reading *)
Same_AnyTTL(d) == d.kind = last.kind /\ d.value = last.value
Same(d) == d = last

(* the fingerprint kept after the key was not found *)
LastGone_Kept == last
LastGone == Absent

NotFound ==
    /\ IF why = "poll" /\ last = Absent THEN UNCHANGED page ELSE Emit(Absent)
    /\ last' = LastGone
    /\ Return

Found(d) ==
    /\ IF why = "poll" /\ Same(d) THEN UNCHANGED page ELSE Emit(d)
    /\ last' = d
    /\ Return

Fail == pc' = "failed" /\ UNCHANGED <<last, page>>

Exists ==
    /\ pc = "exists"
    /\ IF key = Absent
         THEN NotFound
         ELSE pc' = "ttl" /\ UNCHANGED <<last, page>>
    /\ UNCHANGED got

(* a missing key has TTL -2 ns, which ttlSeconds makes 0: no expiry *)
Ttl ==
    /\ pc = "ttl"
    /\ got' = [got EXCEPT !.expires = key.expires]
    /\ pc' = "type"
    /\ UNCHANGED <<last, page>>

(* TYPE answers "none" for a missing key, which is not supported *)
Type_Any ==
    /\ pc = "type"
    /\ got' = [got EXCEPT !.kind = key.kind]
    /\ pc' = "value"
    /\ UNCHANGED <<last, page>>
Type ==
    /\ pc = "type"
    /\ IF key = Absent
         THEN Fail /\ UNCHANGED got
         ELSE /\ got' = [got EXCEPT !.kind = key.kind]
              /\ pc' = "value"
              /\ UNCHANGED <<last, page>>

(* GET fails on a missing key, HGETALL answers an empty hash, and both     *)
(* fail on a key that has become of another type                           *)
ReadValue ==
    /\ pc = "value"
    /\ IF key.kind = got.kind \/ (key = Absent /\ got.kind = "hash")
         THEN Found([got EXCEPT !.value = key.value])
         ELSE Fail
    /\ UNCHANGED got

CommandFails == MayFail /\ pc \in Reading /\ Fail /\ UNCHANGED got

GetKey ==
    /\ Exists \/ Ttl \/ Type \/ ReadValue \/ CommandFails
    /\ UNCHANGED <<redis, channel, why, open, changes, owed>>

-----------------------------------------------------------------------------
(* the setting that ensureKeyspaceNotifications asks for *)
Updated_KOnly == flags \cup {"K"}
Updated == IF flags = {} THEN {"K", "A"} ELSE flags \cup {"K"}

(* ensureKeyspaceNotifications; when refused, watchPoll *)
Configure ==
    /\ pc = "config"
    /\ \/ /\ flags' = IF "K" \in flags THEN flags ELSE Updated
          /\ pc' = "subscribe"
       \/ MayFail /\ pc' = "tick" /\ UNCHANGED flags
    /\ UNCHANGED <<key, channel, why, got, last, open, page, changes, owed>>

Subscribe ==
    /\ pc = "subscribe"
    /\ pc' = "select"
    /\ UNCHANGED <<redis, channel, why, got, last, open, page, changes, owed>>

IsDeleteEvent_Expire(event) == event \in {"del", "expire"}
IsDeleteEvent(event) == event = "del"

(* watchKeyspace takes a notification *)
Receive ==
    /\ pc = "select" /\ channel # <<>>
    /\ channel' = Tail(channel)
    /\ owed' = FALSE
    /\ why' = "event"
    /\ IF IsDeleteEvent(Head(channel))
         THEN Emit(Absent) /\ UNCHANGED pc
         ELSE pc' = "exists" /\ UNCHANGED page
    /\ UNCHANGED <<redis, got, last, open, changes>>

(* watchPoll's ticker *)
Tick ==
    /\ pc = "tick"
    /\ pc' = "exists" /\ why' = "poll"
    /\ UNCHANGED <<redis, channel, got, last, open, page, changes, owed>>

-----------------------------------------------------------------------------
Init ==
    /\ key \in [kind : {"string", "hash"}, value : Values, expires : {FALSE}] \cup {Absent}
    /\ flags \in Configured
    /\ channel = <<>>
    /\ pc = "exists" /\ why = "snapshot"
    /\ got = Detail("string", 0, FALSE) /\ last = Absent
    /\ open = TRUE /\ page = Loading
    /\ changes = 0 /\ owed = FALSE

Others == SetKey \/ ExpireKey \/ LoseKey \/ Leave \/ DeleteKey

WatchKey == GetKey \/ Configure \/ Subscribe \/ Receive \/ Tick

Next == Others \/ WatchKey

Spec == Init /\ [][Next]_vars /\ WF_vars(WatchKey)

-----------------------------------------------------------------------------
(* Properties.                                                             *)

(***************************************************************************)
(* A page that follows the notifications shows the key as it is whenever   *)
(* it has taken them all, although each of its readings is made of         *)
(* several commands -- unless the key changed between the snapshot and the *)
(* subscription and not since.                                             *)
(***************************************************************************)
LiveShowsKey ==
    (open /\ pc = "select" /\ channel = <<>> /\ ~owed) => page = key

(***************************************************************************)
(* When the key stops changing an open page comes to show it as it is,     *)
(* whether it follows the notifications or polls; the same gap excepted,   *)
(* and a watch that failed.                                                *)
(***************************************************************************)
LiveCatchesUp ==
    []<>(~open \/ pc = "failed" \/ (subscribed /\ owed) \/ page = key)

=============================================================================
