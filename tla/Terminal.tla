------------------------------ MODULE Terminal ------------------------------
(***************************************************************************)
(* A terminal session of the admin web UI: a page, a shell on a pseudo     *)
(* terminal, and between them the handler of one WebSocket, whose two      *)
(* pumps each block on one side and write to the other.  Whichever pump    *)
(* ends first has to end the other; then the shell is killed.              *)
(*                                                                         *)
(* What the shell writes is counted, because one goroutine carries it and  *)
(* nothing can change its order: of `output' units the first `taken' were  *)
(* read from the terminal and `shown' have reached the page.               *)
(***************************************************************************)
EXTENDS Naturals, Sequences

CONSTANTS
    Sizes,       \* sizes of a window
    SpawnSize,   \* the one a shell is started with: 80 columns, 24 rows
    TtyRoom,     \* what the terminal holds in either direction
    MaxSent,     \* bound: messages the page sends
    MaxOutput    \* bound: units of output

ASSUME TerminalAssumption ==
    /\ SpawnSize \in Sizes
    /\ TtyRoom \in Nat \ {0}
    /\ {MaxSent, MaxOutput} \subseteq Nat

VARIABLES
    page, pageSize, sent,   \* the page, its window, the number of its messages
    inbound,                \* messages on their way to the handler
    main,                   \* where the handler is
    pump,                   \* where the goroutines are: "out" PTY to WS, "in" WS to PTY
    once,                   \* the sync.Once of stop
    shell,                  \* the process
    left,                   \* it has exited, and a process it left behind has the terminal
    ttySize, ttyIn,         \* the terminal, with unread input
    output, taken, shown,   \* see above
    refused                 \* history: a message ended the session, because it was "long"
                            \* or "late", a key for a terminal nobody had open

browser == <<page, pageSize, sent>>
tty == <<shell, left, ttySize, ttyIn, output>>
vars == <<page, pageSize, sent, inbound, main, pump, once,
          shell, left, ttySize, ttyIn, output, taken, shown, refused>>

Pumps == {"out", "in"}
Message == [type : {"key", "paste"}] \cup [type : {"resize"}, size : Sizes]

TypeOK ==
    /\ page \in {"connecting", "open", "gone"}
    /\ pageSize \in Sizes
    /\ sent \in 0..MaxSent
    /\ inbound \in Seq(Message)
    /\ main \in {"spawn", "wait", "done"}
    /\ pump \in [Pumps -> {"off", "check", "read", "write", "stop", "closing", "done"}]
    /\ once \in {"new", "cancelled", "done"}
    /\ shell \in {"none", "running", "exited", "killed"}
    /\ left \in BOOLEAN
    /\ ttySize \in Sizes
    /\ ttyIn \in 0..TtyRoom
    /\ output \in 0..MaxOutput
    /\ taken \in 0..output
    /\ shown \in 0..taken
    /\ refused \in {"none", "long", "late"}

-----------------------------------------------------------------------------
pending == output - taken

(* Who has the slave side of the terminal open: the shell, or a process    *)
(* it left behind (`sleep 1000 &' and `exit').  A master without a slave   *)
(* is hung up: its writer gets EIO, its reader too once all is read.       *)
held == shell = "running" \/ left
hungUp == shell = "exited" /\ ~left

(* stop cancels the context, and then closes the master *)
cancelled_Never == FALSE
cancelled == once # "new"
closed_Never == FALSE
closed == once = "done"

Goto(p, where) == pump' = [pump EXCEPT ![p] = where]

(* what one Read of the master may return *)
Chunks_WholeBuffer == {TtyRoom}
Chunks == 1..pending

(* wg.Wait *)
PumpsOver_NotAwaited == TRUE
PumpsOver == \A p \in Pumps : pump[p] = "done"

-----------------------------------------------------------------------------
Init ==
    /\ page = "connecting" /\ pageSize \in Sizes /\ sent = 0
    /\ inbound = <<>>
    /\ main = "spawn"
    /\ pump = [p \in Pumps |-> "off"]
    /\ once = "new"
    /\ shell = "none" /\ left = FALSE /\ ttySize = SpawnSize /\ ttyIn = 0
    /\ output = 0 /\ taken = 0 /\ shown = 0
    /\ refused = "none"

Send(m) ==
    /\ sent < MaxSent
    /\ sent' = sent + 1
    /\ inbound' = Append(inbound, m)

(* onopen tells the size that the window then has *)
PageOpens_Silent ==
    /\ page = "connecting"
    /\ page' = "open"
    /\ UNCHANGED <<pageSize, sent, inbound, main, pump, once, tty, taken, shown, refused>>

PageOpens ==
    /\ page = "connecting"
    /\ page' = "open"
    /\ Send([type |-> "resize", size |-> pageSize])
    /\ UNCHANGED <<pageSize, main, pump, once, tty, taken, shown, refused>>

(* A paste is one message too, here one over the 32 KiB that Read takes.   *)
TypeKey ==
    /\ page = "open" /\ main # "done"
    /\ \E t \in {"key", "paste"} : Send([type |-> t])
    /\ UNCHANGED <<page, pageSize, main, pump, once, tty, taken, shown, refused>>

(* sendResize sends nothing before the socket is open *)
ResizeWindow ==
    /\ page # "gone" /\ main # "done"
    /\ \E s \in Sizes \ {pageSize} :
          /\ pageSize' = s
          /\ IF page = "open" THEN Send([type |-> "resize", size |-> s])
                              ELSE UNCHANGED <<sent, inbound>>
    /\ UNCHANGED <<page, main, pump, once, tty, taken, shown, refused>>

(* The tab is left, or its connection breaks and messages with it.         *)
Leave ==
    /\ page # "gone"
    /\ page' = "gone"
    /\ \E n \in 0..Len(inbound) : inbound' = SubSeq(inbound, 1, n)
    /\ UNCHANGED <<pageSize, sent, main, pump, once, tty, taken, shown, refused>>

-----------------------------------------------------------------------------
(* The shell, what runs in it and what it leaves behind: silent or busy    *)
(* for as long as they like.                                               *)
ShellReads ==
    /\ held /\ ~closed /\ ttyIn > 0
    /\ ttyIn' = ttyIn - 1
    /\ UNCHANGED <<browser, inbound, main, pump, once, shell, left, ttySize, output, taken, shown,
                   refused>>

ShellWrites ==
    /\ held /\ ~closed
    /\ pending < TtyRoom /\ output < MaxOutput
    /\ output' = output + 1
    /\ UNCHANGED <<browser, inbound, main, pump, once, shell, left, ttySize, ttyIn, taken, shown,
                   refused>>

ShellExits ==
    /\ shell = "running"
    /\ shell' = "exited"
    /\ left' \in BOOLEAN
    /\ UNCHANGED <<browser, inbound, main, pump, once, ttySize, ttyIn, output, taken, shown, refused>>

LeftEnds ==
    /\ left
    /\ left' = FALSE
    /\ UNCHANGED <<browser, inbound, main, pump, once, shell, ttySize, ttyIn, output, taken, shown,
                   refused>>

-----------------------------------------------------------------------------
Spawn ==
    /\ main = "spawn"
    /\ \/ /\ main' = "wait"
          /\ shell' = "running"
          /\ pump' = [out |-> "check", in |-> "read"]
       \/ /\ main' = "done"     \* spawn_failed
          /\ UNCHANGED <<shell, pump>>
    /\ UNCHANGED <<browser, inbound, once, left, ttySize, ttyIn, output, taken, shown, refused>>

(* wg.Wait, then Kill and Wait for the shell, and Close the socket *)
Finish ==
    /\ main = "wait" /\ PumpsOver
    /\ main' = "done"
    /\ shell' = IF shell = "running" THEN "killed" ELSE shell
    /\ UNCHANGED <<browser, inbound, pump, once, left, ttySize, ttyIn, output, taken, shown, refused>>

(* The deferred stop: the first caller cancels the context and closes the  *)
(* master, the other waits for it in once.Do.                              *)
Stop(p) ==
    /\ \/ /\ pump[p] = "stop" /\ once = "new"
          /\ once' = "cancelled" /\ Goto(p, "closing")
       \/ /\ pump[p] = "closing"
          /\ once' = "done" /\ Goto(p, "done")
       \/ /\ pump[p] = "stop" /\ once = "done"
          /\ UNCHANGED once /\ Goto(p, "done")
    /\ UNCHANGED <<browser, inbound, main, tty, taken, shown, refused>>

-----------------------------------------------------------------------------
(* pumpPTYToWS *)
OutCheck ==
    /\ pump["out"] = "check"
    /\ Goto("out", IF cancelled THEN "stop" ELSE "read")
    /\ UNCHANGED <<browser, inbound, main, once, tty, taken, shown, refused>>

(* Read returns what there is, up to the size of the buffer; EIO once the  *)
(* terminal is hung up and all is read; an error when the master is closed.*)
(* As long as any process has the terminal open, it blocks.                *)
OutRead ==
    /\ pump["out"] = "read"
    /\ \/ /\ pending > 0 /\ ~closed
          /\ \E n \in Chunks : taken' = taken + n
          /\ Goto("out", "write")
       \/ /\ closed \/ (hungUp /\ pending = 0)
          /\ Goto("out", "stop")
          /\ UNCHANGED taken
    /\ UNCHANGED <<browser, inbound, main, once, tty, shown, refused>>

(* Write reaches the page; or fails, because the page is gone or the       *)
(* context cancelled; or fills a socket nobody reads any more.             *)
OutWrite ==
    /\ pump["out"] = "write"
    /\ \/ page # "gone" /\ shown' = taken /\ Goto("out", "check")
       \/ page = "gone" /\ Goto("out", "check") /\ UNCHANGED shown
       \/ (page = "gone" \/ cancelled) /\ Goto("out", "stop") /\ UNCHANGED shown
    /\ UNCHANGED <<browser, inbound, main, once, tty, taken, refused>>

-----------------------------------------------------------------------------
(* pumpWSToPTY *)
InRead ==
    /\ pump["in"] = "read"
    /\ inbound # <<>>
    /\ inbound' = Tail(inbound)
    /\ \/ /\ Head(inbound).type = "key"
          /\ Goto("in", "write")
          /\ UNCHANGED ttySize
       \/ /\ Head(inbound).type = "resize"
          /\ ttySize' = IF closed THEN ttySize ELSE Head(inbound).size
          /\ UNCHANGED pump
    /\ UNCHANGED <<browser, main, once, shell, left, ttyIn, output, taken, shown, refused>>

(* Read fails: the context is cancelled, or the page gone and all read, or *)
(* a message is over the limit, for which the library closes the socket.   *)
InReadFails ==
    /\ pump["in"] = "read"
    /\ \/ /\ cancelled \/ (page = "gone" /\ inbound = <<>>)
          /\ UNCHANGED <<inbound, refused>>
       \/ /\ inbound # <<>> /\ Head(inbound).type = "paste"
          /\ inbound' = Tail(inbound)
          /\ refused' = IF cancelled THEN refused ELSE "long"
    /\ Goto("in", "stop")
    /\ UNCHANGED <<browser, main, once, tty, taken, shown>>

(* Write blocks while the terminal is full, until the master is closed or  *)
(* the terminal hung up.                                                   *)
InWrite ==
    /\ pump["in"] = "write"
    /\ \/ /\ ~closed /\ ~hungUp /\ ttyIn < TtyRoom
          /\ ttyIn' = ttyIn + 1
          /\ Goto("in", "read")
          /\ UNCHANGED refused
       \/ /\ closed \/ hungUp
          /\ Goto("in", "stop")
          /\ refused' = IF closed THEN refused ELSE "late"
          /\ UNCHANGED ttyIn
    /\ UNCHANGED <<browser, inbound, main, once, shell, left, ttySize, output, taken, shown>>

-----------------------------------------------------------------------------
Out == OutCheck \/ OutRead \/ OutWrite \/ Stop("out")
In == InRead \/ InReadFails \/ InWrite \/ Stop("in")

Next ==
    \/ PageOpens \/ TypeKey \/ ResizeWindow \/ Leave
    \/ ShellReads \/ ShellWrites \/ ShellExits \/ LeftEnds
    \/ Spawn \/ Finish \/ Out \/ In

(* The goroutines run when they can; nothing is asked of user or shell.    *)
Spec == Init /\ [][Next]_vars /\ WF_vars(Spawn \/ Finish) /\ WF_vars(Out) /\ WF_vars(In)

-----------------------------------------------------------------------------
(* A session is not cut short: while the page is there, it ends only after *)
(* the shell has exited and nothing it left behind has the terminal, and   *)
(* then the page was shown all of their output.  Only two things end it    *)
(* before: a key typed after that, and a paste over the limit of Read,     *)
(* which kills a running shell.                                            *)
NotCutShort ==
    main = "done" /\ page # "gone" /\ shell # "none"
        => refused = "long" \/ (hungUp /\ (refused = "late" \/ shown = output))

(* Once the handler has read all that the page sent, the terminal has the  *)
(* size of the page's window, whenever that changed: before the socket     *)
(* was open, or behind keys that the terminal had no room for.             *)
SizeFollows ==
    page = "open" /\ main = "wait" /\ ~cancelled /\ inbound = <<>> => ttySize = pageSize

(* When the shell has exited, and whatever it left behind, both pumps end, *)
(* whatever they were blocked on, and with them the session.  It does not  *)
(* end with the shell: a process left behind keeps the terminal open, and  *)
(* pumpPTYToWS in its Read, until it ends or the page leaves.              *)
ExitEndsSession == hungUp ~> main = "done"

(* The page left while a key waits for room in the terminal: nobody reads  *)
(* from the socket, and who has the terminal neither reads nor writes.     *)
Stuck == held /\ pump["in"] = "write" /\ pump["out"] = "read"
            /\ ttyIn = TtyRoom /\ pending = 0

(* When the page leaves, the session ends and its shell is killed, also if *)
(* a process left behind keeps the terminal open; but for one case: those  *)
(* who have the terminal leave it full and unread, and are silent.         *)
LeavingEndsSession == (page = "gone" ~> main = "done") \/ <>[]Stuck
=============================================================================
