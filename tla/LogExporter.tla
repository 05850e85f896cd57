----------------------------- MODULE LogExporter -----------------------------
(***************************************************************************)
(* pkg/observability/logger.go, victoriaLogsWriter: log lines go through a   *)
(* bounded channel to a loop that posts them in batches.  A full channel     *)
(* drops a line.  Lines are numbers, in the order in which they are written; *)
(* the log handler writes one at a time.                                     *)
(***************************************************************************)
EXTENDS Naturals, Sequences

CONSTANTS QueueSize, \* capacity of the channel: victoria_logs_queue_size
          MaxBatch,  \* lines that fit a batch: victoria_logs_batch_size, in bytes
          MaxLines   \* bound: lines that are written

VARIABLES
    writing,     \* the line in Write, past the look at closed
    written,     \* lines written so far
    accepted,    \* lines the channel took, a history
    input,       \* lines in the channel
    inputClosed, \* the channel is closed
    closed,      \* the channel closed is closed: Close is over
    loop,        \* where the loop stands
    buffer,      \* the batch
    heldLine,    \* the line that waits for the batch to be posted
    handed,      \* lines handed to the HTTP client, a history
    panicked     \* a send to the closed channel ended the process

writeVars == <<writing, written, accepted>>
loopVars == <<loop, buffer, heldLine, handed>>
logVars == <<writeVars, input, inputClosed, closed, loopVars, panicked>>

LogTypeOK ==
    /\ writing \in 0..MaxLines /\ written \in 0..MaxLines
    /\ accepted \in Seq(1..MaxLines) /\ handed \in Seq(1..MaxLines)
    /\ input \in Seq(1..MaxLines) /\ Len(input) <= QueueSize
    /\ inputClosed \in BOOLEAN /\ closed \in BOOLEAN /\ panicked \in BOOLEAN
    /\ loop \in {"select", "post", "last", "end"}
    /\ buffer \in Seq(1..MaxLines) /\ Len(buffer) <= MaxBatch
    /\ heldLine \in {<<>>} \cup {<<n>> : n \in 1..MaxLines}

LogInit ==
    /\ writing = 0 /\ written = 0 /\ accepted = <<>>
    /\ input = <<>> /\ inputClosed = FALSE /\ closed = FALSE
    /\ loop = "select" /\ buffer = <<>> /\ heldLine = <<>> /\ handed = <<>>
    /\ panicked = FALSE

-----------------------------------------------------------------------------
\* Write looks whether the writer is closed ...
WriteBegins ==
    /\ writing = 0
    /\ written < MaxLines
    /\ written' = written + 1
    /\ writing' = IF closed THEN 0 ELSE written'
    /\ UNCHANGED <<accepted, input, inputClosed, closed, loopVars, panicked>>

\* ... and sends.
WriteEnds ==
    /\ writing # 0
    /\ writing' = 0
    /\ panicked' = inputClosed
    /\ IF ~inputClosed /\ Len(input) < QueueSize
       THEN /\ input' = Append(input, writing)
            /\ accepted' = Append(accepted, writing)
       ELSE UNCHANGED <<input, accepted>>
    /\ UNCHANGED <<written, inputClosed, closed, loopVars>>

CloseInput ==
    /\ ~inputClosed
    /\ inputClosed' = TRUE
    /\ UNCHANGED <<writeVars, input, closed, loopVars, panicked>>

CloseDone ==
    /\ inputClosed /\ ~closed
    /\ loop = "end"
    /\ closed' = TRUE
    /\ UNCHANGED <<writeVars, input, inputClosed, loopVars, panicked>>

-----------------------------------------------------------------------------
(* The loop *)

\* Mutant: a batch takes one line more.
FitsOneMore == buffer = <<>> \/ Len(buffer) <= MaxBatch

Fits == buffer = <<>> \/ Len(buffer) + 1 <= MaxBatch

LoopReceives ==
    /\ loop = "select"
    /\ input # <<>>
    /\ input' = Tail(input)
    /\ \/ Fits /\ buffer' = Append(buffer, Head(input)) /\ UNCHANGED <<loop, heldLine>>
       \/ ~Fits /\ loop' = "post" /\ heldLine' = <<Head(input)>> /\ UNCHANGED buffer
    /\ UNCHANGED <<writeVars, inputClosed, closed, handed, panicked>>

\* The ticker.
LoopTicks ==
    /\ loop = "select"
    /\ buffer # <<>>
    /\ loop' = "post"
    /\ UNCHANGED <<writeVars, input, inputClosed, closed, buffer, heldLine, handed, panicked>>

\* The post is over, whether or not it arrived: the batch starts anew.
LoopPosted ==
    /\ loop \in {"post", "last"}
    /\ handed' = handed \o buffer
    /\ buffer' = heldLine
    /\ heldLine' = <<>>
    /\ loop' = IF loop = "last" THEN "end" ELSE "select"
    /\ UNCHANGED <<writeVars, input, inputClosed, closed, panicked>>

LoopLeavesWhen(over, to) ==
    /\ loop = "select"
    /\ inputClosed
    /\ over
    /\ loop' = to
    /\ UNCHANGED <<writeVars, input, inputClosed, closed, buffer, heldLine, handed, panicked>>

\* Mutants: what is left is not posted; a closed channel is not noticed.
LoopDropsRest == LoopLeavesWhen(input = <<>>, "end")
LoopStays == LoopLeavesWhen(FALSE, "end")

\* The channel is closed and empty: the last batch is posted.
LoopLeaves == LoopLeavesWhen(input = <<>>, IF buffer = <<>> THEN "end" ELSE "last")

LogLoop == LoopReceives \/ LoopTicks \/ LoopPosted \/ LoopLeaves

-----------------------------------------------------------------------------
(* Properties *)

\* No accepted line is lost, doubled or overtaken on its way to the HTTP client,
\* and Close returns only when every one of them was handed over.
LinesAccounted ==
    /\ accepted = handed \o buffer \o heldLine \o input
    /\ closed => handed = accepted
=============================================================================
