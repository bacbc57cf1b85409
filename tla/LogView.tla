------------------------------ MODULE LogView ------------------------------
(***************************************************************************)
(* The live view of a log file in the admin web UI.  A WebSocket handler   *)
(* sends the last lines of the file, takes its size, and then polls it for *)
(* what was appended.  Meanwhile a service writes to the file, in pieces   *)
(* that need not end with a line, and rotate-hub-logs truncates it.        *)
(*                                                                         *)
(* Bytes are numbered in the order in which they were written to the file; *)
(* every LineLength-th ends a line.  The file holds those after `start' up *)
(* to `top', so that its size is top - start.                              *)
(***************************************************************************)
EXTENDS Integers, Sequences

CONSTANTS
    HistoryLines,   \* lines sent when a page connects
    LineLength,     \* bytes of a line
    MaxTop          \* bound: bytes written

ASSUME ViewAssumption ==
    /\ {HistoryLines, LineLength} \subseteq Nat \ {0}
    /\ MaxTop \in Nat

VARIABLES
    exists, start, top,  \* the file
    pc,                  \* where the handler is
    open,                \* whether the page is still there
    offset,              \* of the Tailer
    shown,               \* texts sent to the page, as pairs <<a, b>>: bytes a+1 to b
    cut,                 \* history: truncated, and the Tailer has not noticed
    base                 \* history: bytes up to this one are not owed to the page

file == <<exists, start, top>>
handler == <<pc, open, offset, shown>>
vars == <<exists, start, top, pc, open, offset, shown, cut, base>>

TypeOK ==
    /\ exists \in BOOLEAN
    /\ top \in 0..MaxTop /\ start \in 0..top
    /\ pc \in {"closed", "history", "stat", "wait", "read"}
    /\ open \in BOOLEAN
    /\ offset \in 0..MaxTop
    /\ shown \in Seq((0..MaxTop) \X (0..MaxTop))
    /\ cut \in BOOLEAN
    /\ base \in 0..top

-----------------------------------------------------------------------------
size == top - start

MinOf(a, b) == IF a < b THEN a ELSE b
MaxOf(a, b) == IF a < b THEN b ELSE a

(* the number of the line that a byte is in *)
LineOf(b) == (b - 1) \div LineLength

(* The texts of bytes a+1 to b: one for each line, the last perhaps cut.   *)
Lines(a, b) ==
    [i \in 1..(IF a < b THEN LineOf(b) - LineOf(a + 1) + 1 ELSE 0) |->
        LET n == LineOf(a + 1) + i - 1
        IN  <<MaxOf(a, n * LineLength), MinOf(b, (n + 1) * LineLength)>>]

(* readLastLines: a ring of the last n *)
LastLines(n, texts) == SubSeq(texts, IF Len(texts) > n THEN Len(texts) - n + 1 ELSE 1, Len(texts))

(* a Tailer that stands behind the end of the file starts again *)
Rewound_Never == offset
Rewound == IF size < offset THEN 0 ELSE offset

(* where NewTailer is put after the history was sent *)
FollowFrom_Start == 0
FollowFrom == size

(* how far ReadNew has come when it meets the end *)
ReadTo_Newline == size + 1
ReadTo == size

Shown(b) == \E i \in DOMAIN shown : shown[i][1] < b /\ b <= shown[i][2]

-----------------------------------------------------------------------------
Init ==
    /\ exists = TRUE /\ start = 0 /\ top = 0
    /\ pc = "closed" /\ open = FALSE /\ offset = 0 /\ shown = <<>>
    /\ cut = FALSE /\ base = 0

(* The service: a write, to a new file if the log is gone.                 *)
WriteBytes ==
    \E n \in 1..LineLength :
        /\ top + n <= MaxTop
        /\ top' = top + n
        /\ exists' = TRUE
        /\ UNCHANGED <<start, handler, cut, base>>

(* rotate-hub-logs, or a service that starts its log afresh                *)
Truncate ==
    /\ exists /\ size > 0
    /\ start' = top
    /\ cut' = TRUE
    /\ UNCHANGED <<exists, top, handler, base>>

(* the tmpfs is unmounted by factory-reset *)
Unmounted ==
    /\ exists
    /\ exists' = FALSE
    /\ start' = top /\ cut' = TRUE
    /\ UNCHANGED <<top, handler, base>>

-----------------------------------------------------------------------------
(* streamLogsHandler                                                       *)

Close ==
    /\ pc' = "closed" /\ open' = FALSE /\ offset' = 0
    /\ UNCHANGED <<file, shown, cut, base>>

Connect ==
    /\ pc = "closed"
    /\ pc' = "history" /\ open' = TRUE /\ shown' = <<>>
    /\ UNCHANGED <<file, offset, cut, base>>

SendHistory ==
    /\ pc = "history" /\ exists
    /\ shown' = LastLines(HistoryLines, Lines(start, top))
    /\ pc' = "stat"
    /\ UNCHANGED <<file, open, offset, cut, base>>

(* FileSize, NewTailer *)
Follow ==
    /\ pc = "stat" /\ exists
    /\ offset' = FollowFrom
    /\ pc' = "wait"
    /\ cut' = FALSE /\ base' = top
    /\ UNCHANGED <<file, open, shown>>

(* A tick: ReadNew opens the file and takes its size ...                   *)
PollStat ==
    /\ pc = "wait" /\ exists
    /\ offset' = Rewound
    /\ pc' = "read"
    /\ cut' = (cut /\ size >= offset)
    /\ UNCHANGED <<file, open, shown, base>>

(***************************************************************************)
(* ... and reads to its end.  Behind the end there is nothing to read.     *)
(* After a truncation that went unnoticed, what the file held before the   *)
(* offset is not owed any more.                                            *)
(***************************************************************************)
PollRead ==
    /\ pc = "read"
    /\ IF offset <= size
         THEN /\ shown' = shown \o Lines(start + offset, top)
              /\ offset' = ReadTo
              /\ cut' = FALSE
              /\ base' = IF cut THEN top ELSE base
         ELSE UNCHANGED <<shown, offset, cut, base>>
    /\ pc' = "wait"
    /\ UNCHANGED <<file, open>>

(* read_failed, file_gone *)
FileGone == pc \in {"history", "stat", "wait"} /\ ~exists /\ Close

(***************************************************************************)
(* The page goes away.  Nothing reads the hijacked connection, whose       *)
(* context is not cancelled: the handler finds out when a write fails.     *)
(***************************************************************************)
Leave ==
    /\ open /\ open' = FALSE
    /\ UNCHANGED <<file, pc, offset, shown, cut, base>>

WriteFails ==
    /\ ~open
    /\ \/ pc = "history" /\ exists
       \/ pc = "read" /\ offset < size
    /\ Close

-----------------------------------------------------------------------------
Handler == SendHistory \/ Follow \/ PollStat \/ PollRead \/ FileGone \/ WriteFails

Next == WriteBytes \/ Truncate \/ Unmounted \/ Connect \/ Leave \/ Handler

Spec == Init /\ [][Next]_vars /\ WF_vars(Handler)

-----------------------------------------------------------------------------
(* Properties.                                                             *)

(***************************************************************************)
(* A page shows every byte of the log at most once and in the order in     *)
(* which it was written, across the change from history to polling and     *)
(* across truncations.                                                     *)
(***************************************************************************)
ShownInOrder ==
    \A i \in DOMAIN shown :
        /\ shown[i][1] < shown[i][2]
        /\ i > 1 => shown[i - 1][2] <= shown[i][1]

(***************************************************************************)
(* After a poll the page shows all that was written to the file since the  *)
(* page follows it and is still there, unless the file was truncated and   *)
(* grew past the old offset between two polls.                             *)
(***************************************************************************)
PollCatchesUp ==
    [][pc = "read" /\ pc' = "wait" /\ ~cut
         => \A b \in (start + 1)..top : b > base => Shown(b)']_vars

(***************************************************************************)
(* What is written to a followed file reaches the page, or the file loses  *)
(* it first, or the connection ends.                                       *)
(***************************************************************************)
Delivered ==
    \A b \in 1..MaxTop :
        (pc = "wait" /\ b > start /\ b <= top /\ b > base)
            ~> (Shown(b) \/ b <= start \/ b <= base \/ pc = "closed")

=============================================================================
