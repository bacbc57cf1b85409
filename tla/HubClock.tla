------------------------------ MODULE HubClock ------------------------------
(***************************************************************************)
(* The wall clock of a hub without a battery, the file that it is saved in *)
(* (fake-hwclock), and the sessions of the web UI, whose tokens expire by  *)
(* that clock.  The UI, bigfred-set-time, cron and the shutdown save the   *)
(* clock, each in place and in several steps; a boot restores it.  A       *)
(* browser keeps its cookie by a clock of its own.  No name here is one of *)
(* HubTimezone's, the other half of the Time tab, so that a module may     *)
(* extend both.                                                            *)
(***************************************************************************)
EXTENDS Integers

CONSTANTS
    Earliest, Latest,   \* what the UI takes for a time
    MaxTime,            \* bound: when the model's time ends
    TTL,                \* of a session
    Browsers,
    NoFile, Truncated, NoCookie,
    MaxSets,            \* bound: how often the clock is set
    MaxEnds             \* bound: ends of the UI, boots

ASSUME ClockAssumption ==
    /\ Earliest \in Nat /\ Latest \in Nat /\ MaxTime \in Nat
    /\ Earliest <= Latest /\ Latest <= MaxTime
    /\ TTL \in Nat \ {0}
    /\ {NoFile, Truncated, NoCookie} \cap Nat = {}
    /\ MaxSets \in Nat /\ MaxEnds \in Nat

VARIABLES
    clock,      \* seconds since 1970
    saved,      \* fake-hwclock
    medium,     \* ... as it is on the medium
    hub,        \* "boot", "up", "stopping"
    writer,     \* who is at work on the file, and with what
    session,    \* of a browser: its cookie's token and the token's true age
    behind,     \* history: the clock was set, and what is saved may be older
    sets, ends

bounds == <<sets, ends>>
clockVars == <<clock, saved, medium, hub, writer, session, behind, sets, ends>>

Times == 0..MaxTime

(* the UI's handler, bigfred-set-time, cron, unmount.sh *)
Writers == {"ui", "command", "cron", "unmount"}
ClockSetters == {"ui", "command"}

Writer == [pc : {"idle", "open", "read", "write"}, value : Times]
Resting == [pc |-> "idle", value |-> 0]

(* the token's expiry; whether this process has signed it; whether the     *)
(* clock was set forward since                                             *)
Session == [exp : 0..(MaxTime + TTL), age : 0..TTL, signed : BOOLEAN, forward : BOOLEAN]

ClockTypeOK ==
    /\ clock \in Times
    /\ saved \in Times \cup {NoFile, Truncated}
    /\ medium \in Times \cup {NoFile, Truncated}
    /\ hub \in {"boot", "up", "stopping"}
    /\ writer \in [Writers -> Writer]
    /\ session \in [Browsers -> Session \cup {NoCookie}]
    /\ behind \in BOOLEAN
    /\ sets \in 0..MaxSets /\ ends \in 0..MaxEnds

-----------------------------------------------------------------------------
(* setTimeHandler *)
InRange_NoLatest(e) == Earliest <= e
InRange(e) == Earliest <= e /\ e <= Latest

(* what the handler does once the clock is set *)
Persists_Never == "idle"
Persists == "open"

(* IssueToken, and the cookie's MaxAge *)
Expiry == clock + TTL

CookieAge_Kept == MaxTime + TTL
CookieAge == TTL

(* VerifyToken *)
Accepted(b) == session[b] # NoCookie /\ session[b].signed /\ clock < session[b].exp

At(w, pc) == writer[w].pc = pc
Proceed(w, pc) == writer' = [writer EXCEPT ![w].pc = pc]

(* a writer that has a later time in hand than the clock's *)
Ahead(w) == (At(w, "write") \/ (w = "ui" /\ At(w, "open"))) /\ clock < writer[w].value

SavedFlushed == IF medium \in {NoFile, Truncated} /\ saved # NoFile THEN {saved, Truncated} ELSE {saved}

-----------------------------------------------------------------------------
ClockInit ==
    /\ clock = 0
    /\ saved = NoFile /\ medium = NoFile
    /\ hub = "boot"
    /\ writer = [w \in Writers |-> Resting]
    /\ session = [b \in Browsers |-> NoCookie]
    /\ behind = FALSE
    /\ sets = 0 /\ ends = 0

(* A second passes, on the hub and in the browsers; a cookie's end is not passed. *)
Older(s) == IF s = NoCookie THEN NoCookie
            ELSE IF s.age + 1 = CookieAge THEN NoCookie ELSE [s EXCEPT !.age = @ + 1]

Tick ==
    /\ clock < MaxTime
    /\ clock' = clock + 1
    /\ session' = [b \in Browsers |-> Older(session[b])]
    /\ UNCHANGED <<saved, medium, hub, writer, behind, bounds>>

ClockWriteback ==
    /\ medium' \in SavedFlushed
    /\ UNCHANGED <<clock, saved, hub, writer, session, behind, bounds>>

(* early-boot.sh; the UI starts with a new secret *)
Restore ==
    /\ hub = "boot"
    /\ hub' = "up"
    /\ clock' = IF saved \in Times /\ clock < saved THEN saved ELSE clock
    /\ behind' = FALSE
    /\ UNCHANGED <<saved, medium, writer, session, bounds>>

-----------------------------------------------------------------------------
(* setSystemClock, date -s *)
SetClock(e) ==
    /\ sets < MaxSets /\ sets' = sets + 1
    /\ clock' = e
    /\ session' = [b \in Browsers |->
         IF session[b] # NoCookie /\ clock < e THEN [session[b] EXCEPT !.forward = TRUE] ELSE session[b]]

(* setTimeHandler, for a page with a session; what it saves is what was asked for *)
SetTime(b, e) ==
    /\ hub = "up" /\ At("ui", "idle")
    /\ Accepted(b)
    /\ InRange(e)
    /\ SetClock(e)
    /\ writer' = [writer EXCEPT !["ui"] = [pc |-> Persists, value |-> e]]
    /\ UNCHANGED <<saved, medium, hub, behind, ends>>

(* bigfred-set-time, which takes any time and saves what the clock is then *)
Command(e) ==
    /\ hub = "up" /\ At("command", "idle")
    /\ SetClock(e)
    /\ writer' = [writer EXCEPT !["command"] = [pc |-> "open", value |-> 0]]
    /\ UNCHANGED <<saved, medium, hub, behind, ends>>

Cron ==
    /\ hub = "up" /\ At("cron", "idle")
    /\ Proceed("cron", "open")
    /\ UNCHANGED <<clock, saved, medium, hub, session, behind, bounds>>

(* the file is opened, and truncated: by os.WriteFile, or by the shell before date runs *)
Open(w) ==
    /\ At(w, "open")
    /\ saved' = Truncated
    /\ Proceed(w, IF w = "ui" THEN "write" ELSE "read")
    /\ UNCHANGED <<clock, medium, hub, session, behind, bounds>>

ReadClock(w) ==
    /\ At(w, "read")
    /\ writer' = [writer EXCEPT ![w] = [pc |-> "write", value |-> clock]]
    /\ UNCHANGED <<clock, saved, medium, hub, session, behind, bounds>>

Write(w) ==
    /\ At(w, "write")
    /\ saved' = writer[w].value
    /\ behind' = (\E v \in Writers : Ahead(v))
    /\ writer' = [writer EXCEPT ![w] = Resting]
    /\ UNCHANGED <<clock, medium, hub, session, bounds>>

(* a full volume, a command that fails *)
WriteFails(w) ==
    /\ writer[w].pc # "idle"
    /\ writer' = [writer EXCEPT ![w] = Resting]
    /\ behind' = (behind \/ w \in ClockSetters)
    /\ UNCHANGED <<clock, saved, medium, hub, session, bounds>>

-----------------------------------------------------------------------------
(* loginHandler, logoutHandler *)
Login(b) ==
    /\ hub = "up"
    /\ session' = [session EXCEPT ![b] =
         [exp |-> Expiry, age |-> 0, signed |-> TRUE, forward |-> FALSE]]
    /\ UNCHANGED <<clock, saved, medium, hub, writer, behind, bounds>>

Logout(b) ==
    /\ hub = "up" /\ session[b] # NoCookie
    /\ session' = [session EXCEPT ![b] = NoCookie]
    /\ UNCHANGED <<clock, saved, medium, hub, writer, behind, bounds>>

(* what was signed before is no longer accepted *)
Unsign == session' = [b \in Browsers |->
    IF session[b] = NoCookie THEN NoCookie ELSE [session[b] EXCEPT !.signed = FALSE]]

End == ends < MaxEnds /\ ends' = ends + 1

UIRestarts ==
    /\ hub = "up"
    /\ End /\ Unsign
    /\ writer' = [writer EXCEPT !["ui"] = Resting]
    /\ behind' = (behind \/ ~At("ui", "idle"))
    /\ UNCHANGED <<clock, saved, medium, hub, sets>>

(* All services are stopped, then unmount.sh runs. *)
Shutdown ==
    /\ hub = "up"
    /\ hub' = "stopping"
    /\ End /\ Unsign
    /\ writer' = [[w \in Writers |-> Resting] EXCEPT !["unmount"].pc = "open"]
    /\ UNCHANGED <<clock, saved, medium, behind, sets>>

(* the hub is off for some time, and its clock begins anew *)
Reboot ==
    /\ hub = "stopping" /\ At("unmount", "idle")
    /\ hub' = "boot"
    /\ medium' = saved
    /\ clock' = 0
    /\ UNCHANGED <<saved, writer, session, behind, bounds>>

PowerCut ==
    /\ End /\ Unsign
    /\ hub' = "boot"
    /\ saved' = medium
    /\ clock' = 0
    /\ writer' = [w \in Writers |-> Resting]
    /\ UNCHANGED <<medium, behind, sets>>

-----------------------------------------------------------------------------
WriterStep(w) == Open(w) \/ ReadClock(w) \/ Write(w) \/ WriteFails(w)

ClockNext ==
    \/ Tick \/ ClockWriteback \/ Restore \/ Cron
    \/ UIRestarts \/ Shutdown \/ Reboot \/ PowerCut
    \/ \E w \in Writers : WriterStep(w)
    \/ \E e \in Times : Command(e)
    \/ \E b \in Browsers :
        \/ Login(b) \/ Logout(b)
        \/ \E e \in 0..(MaxTime + 1) : SetTime(b, e)

ClockSpec == ClockInit /\ [][ClockNext]_clockVars

-----------------------------------------------------------------------------
(* Properties.                                                             *)

(***************************************************************************)
(* Once a setter has replied, the time that is saved is not in the future, *)
(* so that no boot puts the clock ahead: unless saving it has failed or    *)
(* was cut off, or a writer had the earlier time in hand.  A boot restores *)
(* this, whatever it finds.                                                *)
(***************************************************************************)
SavedIsPast ==
    hub = "up" /\ saved \in Times /\ ~behind /\ (\A w \in ClockSetters : At(w, "idle"))
        => saved <= clock

(***************************************************************************)
(* Cookie and token end together.  A browser that has its cookie is        *)
(* accepted, until the UI restarts or the clock is set forward; and it is  *)
(* not accepted for longer than a session lasts, though setting the clock  *)
(* back makes the token last longer.                                       *)
(***************************************************************************)
LoginLasts ==
    \A b \in Browsers :
        /\ session[b] # NoCookie /\ session[b].signed /\ ~session[b].forward => Accepted(b)
        /\ Accepted(b) => session[b].age < TTL

=============================================================================
