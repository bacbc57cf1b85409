--------------------------- MODULE TerminalProofs ---------------------------
(***************************************************************************)
(* A terminal session is not cut short, whatever the room of the terminal  *)
(* and however many keys, resizes and units of output pass through it, and *)
(* its size is the window's.                                               *)
(***************************************************************************)
EXTENDS Terminal, SequenceTheorems, TLAPS

Actors ==
    \/ PageOpens \/ TypeKey \/ ResizeWindow \/ Leave
    \/ ShellReads \/ ShellWrites \/ ShellExits \/ LeftEnds
    \/ Spawn \/ Finish
Pumping ==
    \/ OutCheck \/ OutRead \/ OutWrite
    \/ InRead \/ InReadFails \/ InWrite
    \/ \E p \in Pumps : Stop(p)

(* Every step is one of those above, which the proofs go through.          *)
LEMMA Steps == Next => Actors \/ Pumping
  BY DEF Next, Actors, Pumping, Out, In, Pumps

(* Every state of a session has the type that TypeOK gives it.             *)
THEOREM TypeCorrect == Spec => []TypeOK
<1>1. Init => TypeOK
  <2> SUFFICES ASSUME Init PROVE TypeOK
    OBVIOUS
  <2>1. 0 \in 0..TtyRoom /\ 0 \in 0..MaxSent /\ 0 \in 0..MaxOutput
    BY TerminalAssumption
  <2>2. pump \in [Pumps -> {"off", "check", "read", "write", "stop", "closing", "done"}]
    BY DEF Init
  <2>3. inbound \in Seq(Message)
    BY DEF Init
  <2>4. taken \in 0..output /\ shown \in 0..taken
    BY DEF Init
  <2> QED
    BY <2>1, <2>2, <2>3, <2>4, TerminalAssumption DEF Init, TypeOK
<1>2. TypeOK /\ [Next]_vars => TypeOK'
  <2> SUFFICES ASSUME TypeOK, [Next]_vars PROVE TypeOK'
    OBVIOUS
  <2> USE TerminalAssumption DEF TypeOK
  <2>1. CASE PageOpens
    <3>1. [type |-> "resize", size |-> pageSize] \in Message
      BY DEF Message
    <3> QED
      BY <2>1, <3>1 DEF PageOpens, Send, tty
  <2>2. CASE TypeKey
    <3> PICK t \in {"key", "paste"} : Send([type |-> t])
      BY <2>2 DEF TypeKey
    <3>1. [type |-> t] \in Message
      BY DEF Message
    <3> QED
      BY <2>2, <3>1 DEF TypeKey, Send, tty
  <2>3. CASE ResizeWindow
    <3> PICK s \in Sizes \ {pageSize} :
             /\ pageSize' = s
             /\ IF page = "open" THEN Send([type |-> "resize", size |-> s])
                                 ELSE UNCHANGED <<sent, inbound>>
      BY <2>3 DEF ResizeWindow
    <3>1. [type |-> "resize", size |-> s] \in Message
      BY DEF Message
    <3>2. CASE page = "open"
      BY <2>3, <3>1, <3>2 DEF ResizeWindow, Send, tty
    <3>3. CASE page # "open"
      BY <2>3, <3>3 DEF ResizeWindow, tty
    <3> QED
      BY <3>2, <3>3
  <2>4. CASE Leave
    <3> PICK n \in 0..Len(inbound) : inbound' = SubSeq(inbound, 1, n)
      BY <2>4 DEF Leave
    <3>1. inbound' \in Seq(Message)
      OBVIOUS
    <3> QED
      BY <2>4, <3>1 DEF Leave, tty
  <2>5. CASE ShellReads
    BY <2>5 DEF ShellReads, browser
  <2>6. CASE ShellWrites
    BY <2>6 DEF ShellWrites, browser
  <2>7. CASE ShellExits
    BY <2>7 DEF ShellExits, browser
  <2>8. CASE Spawn
    BY <2>8 DEF Spawn, browser, Pumps
  <2>9. CASE Finish
    BY <2>9 DEF Finish, browser
  <2>10. CASE OutCheck
    BY <2>10 DEF OutCheck, Goto, browser, tty, Pumps
  <2>11. CASE OutRead
    <3>1. pump' \in [Pumps -> {"off", "check", "read", "write", "stop", "closing", "done"}]
      BY <2>11 DEF OutRead, Goto, Pumps
    <3>2. taken' \in 0..output /\ shown \in 0..taken'
      BY <2>11 DEF OutRead, Chunks, pending
    <3> QED
      BY <2>11, <3>1, <3>2 DEF OutRead, browser, tty
  <2>12. CASE OutWrite
    BY <2>12 DEF OutWrite, Goto, browser, tty, Pumps
  <2>13. CASE InRead
    <3>1. pump' \in [Pumps -> {"off", "check", "read", "write", "stop", "closing", "done"}]
      BY <2>13 DEF InRead, Goto, Pumps
    <3>2. Head(inbound) \in Message /\ inbound' \in Seq(Message)
      BY <2>13 DEF InRead
    <3>3. ttySize' \in Sizes
      BY <2>13, <3>2 DEF InRead, Message
    <3> QED
      BY <2>13, <3>1, <3>2, <3>3 DEF InRead, browser
  <2>14. CASE InReadFails
    <3>1. pump' \in [Pumps -> {"off", "check", "read", "write", "stop", "closing", "done"}]
      BY <2>14 DEF InReadFails, Goto, Pumps
    <3>2. inbound' \in Seq(Message)
      <4>1. CASE UNCHANGED inbound
        BY <4>1
      <4>2. CASE inbound # <<>> /\ inbound' = Tail(inbound)
        BY <4>2
      <4> QED
        BY <2>14, <4>1, <4>2 DEF InReadFails
    <3>3. refused' \in {"none", "long", "late"}
      BY <2>14 DEF InReadFails
    <3>4. UNCHANGED <<browser, main, once, tty, taken, shown>>
      BY <2>14 DEF InReadFails
    <3> QED
      BY <3>1, <3>2, <3>3, <3>4 DEF browser, tty
  <2>15. CASE InWrite
    <3>1. pump' \in [Pumps -> {"off", "check", "read", "write", "stop", "closing", "done"}]
      BY <2>15 DEF InWrite, Goto, Pumps
    <3>2. ttyIn' \in 0..TtyRoom
      BY <2>15 DEF InWrite
    <3>3. refused' \in {"none", "long", "late"}
      BY <2>15 DEF InWrite
    <3>4. UNCHANGED <<browser, inbound, main, once, shell, left, ttySize, output, taken, shown>>
      BY <2>15 DEF InWrite
    <3> QED
      BY <3>1, <3>2, <3>3, <3>4 DEF browser
  <2>16. ASSUME NEW p \in Pumps, Stop(p) PROVE TypeOK'
    <3>1. pump' \in [Pumps -> {"off", "check", "read", "write", "stop", "closing", "done"}]
      BY <2>16 DEF Stop, Goto
    <3>2. once' \in {"new", "cancelled", "done"}
      BY <2>16 DEF Stop
    <3>3. UNCHANGED <<browser, inbound, main, tty, taken, shown, refused>>
      BY <2>16 DEF Stop
    <3> QED
      BY <3>1, <3>2, <3>3 DEF browser, tty
  <2>17. CASE LeftEnds
    BY <2>17 DEF LeftEnds, browser
  <2>18. CASE UNCHANGED vars
    BY <2>18 DEF vars
  <2> QED
    BY <2>1, <2>2, <2>3, <2>4, <2>5, <2>6, <2>7, <2>8, <2>9, <2>10, <2>11, <2>12,
       <2>13, <2>14, <2>15, <2>16, <2>17, <2>18, Steps DEF Actors, Pumping
<1> QED
  BY <1>1, <1>2, PTL DEF Spec

-----------------------------------------------------------------------------
(* What may end a session *)
Reason ==
    \/ page = "gone"
    \/ refused = "long"
    \/ hungUp /\ (refused = "late" \/ shown = output)

Ending == {"stop", "closing", "done"}

NotBegun == main = "spawn" => /\ shell = "none" /\ once = "new" /\ shown = taken
                              /\ \A p \in Pumps : pump[p] = "off"
Begun == main = "wait" => shell # "none"
NothingInHand == pump["out"] \in {"check", "read"} => page = "gone" \/ shown = taken
EndsForReason == (once # "new" \/ \E p \in Pumps : pump[p] \in Ending) => Reason
OverForReason == main = "done" /\ shell # "none" => Reason

SessionInv == NotBegun /\ Begun /\ NothingInHand /\ EndsForReason /\ OverForReason

(* Once there is a reason to end, no step takes it back: nobody opens a    *)
(* terminal that is hung up, and what was written to it was shown.         *)
LEMMA ReasonStays ==
  ASSUME TypeOK, NotBegun, Reason, [Next]_vars
  PROVE  Reason'
<1> USE DEF Reason, TypeOK, hungUp, held
<1>1. CASE Actors
  <2>1. CASE main = "spawn"
    BY <1>1, <2>1 DEF Actors, PageOpens, TypeKey, ResizeWindow, Leave, Send, ShellReads,
              ShellWrites, ShellExits, LeftEnds, Spawn, Finish, browser, tty, NotBegun
  <2> QED
    BY <1>1, <2>1 DEF Actors, PageOpens, TypeKey, ResizeWindow, Leave, Send, ShellReads,
              ShellWrites, ShellExits, LeftEnds, Spawn, Finish, browser, tty
<1>2. ASSUME OutCheck \/ OutRead \/ OutWrite PROVE Reason'
  BY <1>2 DEF OutCheck, OutRead, OutWrite, browser, tty
<1>3. ASSUME InRead \/ InReadFails \/ InWrite PROVE Reason'
  BY <1>3 DEF InRead, InReadFails, InWrite, browser, tty
<1>4. ASSUME NEW p \in Pumps, Stop(p) PROVE Reason'
  BY <1>4 DEF Stop, browser, tty
<1>5. CASE UNCHANGED vars
  BY <1>5 DEF vars
<1> QED
  BY <1>1, <1>2, <1>3, <1>4, <1>5, Steps DEF Pumping

(* A session that ends while the page is there ends with its shell and all *)
(* that it left behind, and after the page was shown all output, or        *)
(* because of a late key.                                                  *)
(* NotCutShort is not inductive: that main is done follows from the pumps, *)
(* that a pump ends from the context, the master or the shell, and that    *)
(* nothing is left in hand from the order in which pumpPTYToWS works.      *)
THEOREM SessionSafe == Spec => []NotCutShort
<1>1. Init => SessionInv
  BY DEF Init, SessionInv, NotBegun, Begun, NothingInHand, EndsForReason, OverForReason,
         Ending, Pumps
<1>2. TypeOK /\ SessionInv /\ [Next]_vars => SessionInv'
  <2> SUFFICES ASSUME TypeOK, SessionInv, [Next]_vars PROVE SessionInv'
    OBVIOUS
  <2> USE DEF TypeOK, SessionInv, NotBegun, Begun, NothingInHand, EndsForReason,
              OverForReason, Ending
  <2>0. Reason => Reason'
    BY ReasonStays
  <2>1. CASE Actors
    <3>1. CASE Spawn
      BY <3>1 DEF Spawn, Pumps, browser
    <3>2. CASE Finish
      BY <3>2, <2>0 DEF Finish, PumpsOver, Pumps
    <3>3. CASE PageOpens \/ TypeKey \/ ResizeWindow \/ Leave
      BY <3>3, <2>0 DEF PageOpens, TypeKey, ResizeWindow, Leave, Send, tty
    <3>4. CASE ShellReads \/ ShellWrites \/ ShellExits \/ LeftEnds
      BY <3>4, <2>0 DEF ShellReads, ShellWrites, ShellExits, LeftEnds, browser
    <3> QED
      BY <2>1, <3>1, <3>2, <3>3, <3>4 DEF Actors
  <2>2. CASE Pumping
    <3>1. CASE OutCheck
      BY <3>1, <2>0 DEF OutCheck, Goto, cancelled, Pumps, browser, tty
    <3>2. CASE OutRead
      BY <3>2, <2>0 DEF OutRead, Goto, closed, pending, Pumps, browser, tty, Reason
    <3>3. CASE OutWrite
      BY <3>3, <2>0 DEF OutWrite, Goto, cancelled, Pumps, browser, tty, Reason
    <3>4. CASE InRead
      BY <3>4, <2>0 DEF InRead, Goto, Pumps, browser
    <3>5. CASE InReadFails
      BY <3>5, <2>0 DEF InReadFails, Goto, cancelled, Pumps, browser, tty, Reason
    <3>6. CASE InWrite
      BY <3>6, <2>0 DEF InWrite, Goto, closed, Pumps, browser, Reason, hungUp
    <3>7. ASSUME NEW p \in Pumps, Stop(p) PROVE SessionInv'
      BY <3>7, <2>0 DEF Stop, Goto, Pumps, browser, tty
    <3> QED
      BY <2>2, <3>1, <3>2, <3>3, <3>4, <3>5, <3>6, <3>7 DEF Pumping
  <2>3. CASE UNCHANGED vars
    BY <2>3, <2>0 DEF vars
  <2> QED
    BY <2>1, <2>2, <2>3, Steps
<1>3. SessionInv => NotCutShort
  BY DEF SessionInv, OverForReason, Reason, NotCutShort
<1> QED
  BY <1>1, <1>2, <1>3, TypeCorrect, PTL DEF Spec

-----------------------------------------------------------------------------
(* The last resize among the messages on their way, if there is one.       *)
Resize(s) == [type |-> "resize", size |-> s]
NoResize(q) == \A i \in DOMAIN q : q[i].type # "resize"
LastResizeIs(q, s) ==
    \E i \in DOMAIN q : /\ q[i] = Resize(s)
                        /\ \A j \in DOMAIN q : j > i => q[j].type # "resize"

\* the page's size has reached the terminal, or is the last on its way to it
SizeOnItsWay ==
    page = "open" /\ ~closed
        => LastResizeIs(inbound, pageSize) \/ (NoResize(inbound) /\ ttySize = pageSize)

(* What is sent last goes behind what is on its way.                       *)
LEMMA SendResize ==
  ASSUME NEW q \in Seq(Message), NEW s \in Sizes
  PROVE  LastResizeIs(Append(q, Resize(s)), s)
<1>1. Resize(s) \in Message
  BY DEF Resize, Message
<1>2. /\ Len(Append(q, Resize(s))) = Len(q) + 1 /\ Append(q, Resize(s))[Len(q) + 1] = Resize(s)
      /\ Append(q, Resize(s)) \in Seq(Message)
  BY <1>1, AppendProperties
<1>3. DOMAIN Append(q, Resize(s)) = 1..(Len(q) + 1) /\ Len(q) \in Nat
  BY <1>2, LenProperties
<1> QED
  BY <1>2, <1>3 DEF LastResizeIs

LEMMA SendOther ==
  ASSUME NEW q \in Seq(Message), NEW m \in Message, m.type # "resize", NEW s
  PROVE  /\ NoResize(q) => NoResize(Append(q, m))
         /\ LastResizeIs(q, s) => LastResizeIs(Append(q, m), s)
<1>1. /\ Len(Append(q, m)) = Len(q) + 1 /\ Append(q, m)[Len(q) + 1] = m
      /\ \A i \in 1..Len(q) : Append(q, m)[i] = q[i]
      /\ Append(q, m) \in Seq(Message)
  BY AppendProperties
<1>2. DOMAIN Append(q, m) = 1..(Len(q) + 1) /\ DOMAIN q = 1..Len(q) /\ Len(q) \in Nat
  BY <1>1, LenProperties
<1>3. \A i \in DOMAIN Append(q, m) : i \in DOMAIN q \/ Append(q, m)[i].type # "resize"
  BY <1>1, <1>2
<1>4. DOMAIN q \subseteq DOMAIN Append(q, m)
  BY <1>2
<1> QED
  BY <1>1, <1>2, <1>3, <1>4 DEF NoResize, LastResizeIs

(* What is read first may be the last resize.                              *)
LEMMA ReadFirst ==
  ASSUME NEW q \in Seq(Message), q # <<>>, NEW s
  PROVE  /\ NoResize(q) => NoResize(Tail(q)) /\ Head(q).type # "resize"
         /\ LastResizeIs(q, s) =>
              \/ LastResizeIs(Tail(q), s)
              \/ NoResize(Tail(q)) /\ Head(q).type = "resize" /\ Head(q).size = s
<1>1. /\ Len(q) \in Nat \ {0} /\ Len(Tail(q)) = Len(q) - 1 /\ Tail(q) \in Seq(Message)
      /\ \A i \in 1..(Len(q) - 1) : Tail(q)[i] = q[i + 1]
      /\ Head(q) = q[1]
  BY HeadTailProperties, EmptySeq, LenProperties
<1>2. DOMAIN q = 1..Len(q) /\ DOMAIN Tail(q) = 1..(Len(q) - 1)
  BY <1>1, LenProperties
<1>3. \A i \in DOMAIN Tail(q) : i + 1 \in DOMAIN q /\ Tail(q)[i] = q[i + 1]
  BY <1>1, <1>2
<1>4. ASSUME NoResize(q) PROVE NoResize(Tail(q)) /\ Head(q).type # "resize"
  <2>1. 1 \in DOMAIN q
    BY <1>1, <1>2
  <2> QED
    BY <1>1, <1>3, <1>4, <2>1 DEF NoResize
<1>5. ASSUME LastResizeIs(q, s)
      PROVE  \/ LastResizeIs(Tail(q), s)
             \/ NoResize(Tail(q)) /\ Head(q).type = "resize" /\ Head(q).size = s
  <2>1. PICK i \in DOMAIN q : /\ q[i] = Resize(s)
                              /\ \A j \in DOMAIN q : j > i => q[j].type # "resize"
    BY <1>5 DEF LastResizeIs
  <2>2. CASE i = 1
    <3>1. \A j \in DOMAIN Tail(q) : Tail(q)[j].type # "resize"
      BY <1>1, <1>2, <1>3, <2>1, <2>2
    <3> QED
      BY <1>1, <2>1, <2>2, <3>1 DEF NoResize, Resize
  <2>3. CASE i # 1
    <3>1. i - 1 \in DOMAIN Tail(q) /\ Tail(q)[i - 1] = Resize(s)
      BY <1>1, <1>2, <2>1, <2>3
    <3>2. ASSUME NEW j \in DOMAIN Tail(q), j > i - 1 PROVE Tail(q)[j].type # "resize"
      BY <1>2, <1>3, <2>1, <3>2
    <3> QED
      BY <3>1, <3>2 DEF LastResizeIs
  <2> QED
    BY <2>2, <2>3
<1> QED
  BY <1>4, <1>5

(* The terminal ends up with the size of the window, through keys, resizes *)
(* before the socket is open and after, and a terminal that is full.       *)
(* SizeFollows speaks of an empty channel only; what is inductive is where *)
(* the page's size is when the channel is not empty.                       *)
THEOREM SizeArrives == Spec => []SizeFollows
<1>1. Init => SizeOnItsWay
  BY DEF Init, SizeOnItsWay
<1>2. TypeOK /\ SizeOnItsWay /\ [Next]_vars => SizeOnItsWay'
  <2> SUFFICES ASSUME TypeOK, SizeOnItsWay, [Next]_vars, page' = "open", ~closed'
               PROVE  \/ LastResizeIs(inbound, pageSize)'
                      \/ (NoResize(inbound) /\ ttySize = pageSize)'
    BY DEF SizeOnItsWay
  <2>0. inbound \in Seq(Message) /\ pageSize \in Sizes
    BY DEF TypeOK
  <2>1. CASE PageOpens
    BY <2>0, <2>1, SendResize DEF PageOpens, Send, Resize
  <2>2. CASE TypeKey
    <3>1. PICK t \in {"key", "paste"} : inbound' = Append(inbound, [type |-> t])
      BY <2>2 DEF TypeKey, Send
    <3>2. [type |-> t] \in Message /\ [type |-> t].type # "resize"
      BY DEF Message
    <3>3. page = "open" /\ ~closed /\ UNCHANGED <<pageSize, ttySize>>
      BY <2>2 DEF TypeKey, tty, closed
    <3> QED
      BY <2>0, <3>1, <3>2, <3>3, SendOther DEF SizeOnItsWay
  <2>3. CASE ResizeWindow
    <3>1. PICK s \in Sizes : pageSize' = s /\ inbound' = Append(inbound, Resize(s))
      BY <2>3 DEF ResizeWindow, Send, Resize
    <3> QED
      BY <2>0, <3>1, SendResize
  <2>4. CASE InRead
    <3>1. /\ inbound # <<>> /\ inbound' = Tail(inbound) /\ UNCHANGED pageSize
          /\ page = "open" /\ ~closed
      BY <2>4 DEF InRead, browser, closed
    <3>2. IF Head(inbound).type = "resize" THEN ttySize' = Head(inbound).size
                                           ELSE ttySize' = ttySize
      BY <2>4, <3>1 DEF InRead
    <3> QED
      BY <2>0, <3>1, <3>2, ReadFirst DEF SizeOnItsWay
  <2>5. CASE InReadFails
    <3>1. page = "open" /\ ~closed /\ UNCHANGED <<pageSize, ttySize>>
      BY <2>5 DEF InReadFails, browser, tty, closed
    <3>2. CASE UNCHANGED inbound
      BY <3>1, <3>2 DEF SizeOnItsWay
    <3>3. CASE inbound # <<>> /\ Head(inbound).type = "paste" /\ inbound' = Tail(inbound)
      BY <2>0, <3>1, <3>3, ReadFirst DEF SizeOnItsWay
    <3> QED
      BY <2>5, <3>2, <3>3 DEF InReadFails
  <2>6. CASE UNCHANGED <<page, pageSize, inbound, ttySize>> /\ (closed => closed')
    BY <2>6 DEF SizeOnItsWay
  <2>7. CASE Leave
    BY <2>7 DEF Leave
  <2>8. \/ UNCHANGED <<page, pageSize, inbound, ttySize>> /\ (closed => closed')
        \/ PageOpens \/ TypeKey \/ ResizeWindow \/ Leave \/ InRead \/ InReadFails
    <3>1. CASE ShellReads \/ ShellWrites \/ ShellExits \/ LeftEnds \/ Spawn \/ Finish
      BY <3>1 DEF ShellReads, ShellWrites, ShellExits, LeftEnds, Spawn, Finish, browser, closed
    <3>2. CASE OutCheck \/ OutRead \/ OutWrite \/ InWrite
      BY <3>2 DEF OutCheck, OutRead, OutWrite, InWrite, browser, tty, closed
    <3>3. CASE \E p \in Pumps : Stop(p)
      BY <3>3 DEF Stop, browser, tty, closed
    <3>4. CASE UNCHANGED vars
      BY <3>4 DEF vars, closed
    <3> QED
      BY <3>1, <3>2, <3>3, <3>4, Steps DEF Actors, Pumping
  <2> QED
    BY <2>1, <2>2, <2>3, <2>4, <2>5, <2>6, <2>7, <2>8
<1>3. TypeOK /\ SizeOnItsWay => SizeFollows
  BY DEF TypeOK, SizeOnItsWay, SizeFollows, LastResizeIs, cancelled, closed
<1> QED
  BY <1>1, <1>2, <1>3, TypeCorrect, PTL DEF Spec
=============================================================================
