--------------------------- MODULE CompletionStream ---------------------------
(***************************************************************************)
(* pkg/llm: how the text of a completion is put together.  A goroutine reads *)
(* the events of the provider (sse.go, and the callbacks of codex.go and     *)
(* openrouter.go) into a bounded channel and says on a second channel how    *)
(* the stream ended; CollectStreamText selects from both.                    *)
(*                                                                           *)
(* The provider is external: its text comes in parts, as deltas or as a whole*)
(* at the end or both, and the framing of HTTP tells an end from a break.    *)
(* The context of a turn is never cancelled (runtime.go:205), so neither is  *)
(* its stream; the 90 seconds of the HTTP client break it.                   *)
(***************************************************************************)
EXTENDS Naturals, Sequences, LLM

CONSTANTS Text,    \* the parts of the text of the provider
          Capacity \* bound: room of the channel of events (256, 128 and 2 in the code)

ASSUME StreamAssumption ==
    /\ Capacity \in Nat \ {0}
    /\ Text \in Seq({Text[i] : i \in DOMAIN Text})

VARIABLES
    feed,    \* what the provider still sends
    reader,  \* where the goroutine of each stream stands
    whole,   \* it has emitted text
    events,  \* the channel of events
    done,    \* the channel that says how the stream ended
    waits,   \* the channels the collector still selects from
    text,    \* what it has collected
    result   \* how the completion ended

streamVars == <<feed, reader, whole, events, done, waits, text, result>>

Channels == {"events", "done"}

\* An event of the provider: a delta, its text as a whole once all deltas are sent
\* (at the end of an output and at the end of the response), something else or
\* something that does not decode, or the mark of the end.
Delta(part) == [type |-> "delta", text |-> <<part>>]
Whole == [type |-> "whole", text |-> Text]
Other == [type |-> "other", text |-> <<>>]
EndMark == [type |-> "end", text |-> <<>>]

Deltas == [i \in 1..Len(Text) |-> Delta(Text[i])]

\* What a codex and an openrouter service may send for the text, and the mock client.
Feeds(provider) ==
    CASE provider = "codex" -> {Deltas \o <<Whole>>, <<Whole, Whole, EndMark>>}
      [] provider = "openrouter" -> {<<Other>> \o Deltas}
      [] OTHER -> {<<[Whole EXCEPT !.type = "delta"]>>}

StreamInit ==
    /\ feed = [t \in Turns |-> <<>>]
    /\ reader = [t \in Turns |-> "none"]
    /\ whole = [t \in Turns |-> FALSE]
    /\ events = [t \in Turns |-> <<>>]
    /\ done = [t \in Turns |-> <<>>]
    /\ waits = [t \in Turns |-> Channels]
    /\ text = [t \in Turns |-> <<>>]
    /\ result = [t \in Turns |-> "none"]

-----------------------------------------------------------------------------
(* The goroutine that reads the stream *)

ReaderGoes(t, from, to) ==
    /\ reader[t] = from
    /\ reader' = [reader EXCEPT ![t] = to]

Open(t, provider) ==
    /\ ReaderGoes(t, "none", "reads")
    /\ \E f \in Feeds(provider) : feed' = [feed EXCEPT ![t] = f]
    /\ UNCHANGED <<whole, events, done, waits, text, result>>

\* What the next event adds: the whole text counts only without deltas.
Emits(t) ==
    IF Head(feed[t]).type = "whole" /\ whole[t] THEN <<>> ELSE Head(feed[t]).text

ReadEvent(t) ==
    /\ reader[t] = "reads"
    /\ feed[t] # <<>> /\ Head(feed[t]) # EndMark
    /\ feed' = [feed EXCEPT ![t] = Tail(@)]
    /\ whole' = [whole EXCEPT ![t] = @ \/ Emits(t) # <<>>]
    /\ IF Emits(t) = <<>>
       THEN UNCHANGED events
       ELSE /\ Len(events[t]) < Capacity
            /\ events' = [events EXCEPT ![t] = Append(@, Emits(t))]
    /\ UNCHANGED <<reader, done, waits, text, result>>

Says(t, ending) ==
    /\ ReaderGoes(t, "reads", "said")
    /\ done' = [done EXCEPT ![t] = <<ending>>]
    /\ feed' = [feed EXCEPT ![t] = <<>>]
    /\ whole' = [whole EXCEPT ![t] = FALSE]
    /\ UNCHANGED <<events, waits, text, result>>

\* The mark, or the end of the body, ends the stream well.
ReadEnd(t) ==
    /\ feed[t] # <<>> => Head(feed[t]) = EndMark
    /\ Says(t, "ok")

\* The connection breaks, or the 90 seconds are over; not so for the mock client.
Breaks(t) == Says(t, "error")

\* Mutant: the channels are not closed.
CloseNothing(t) ==
    /\ ReaderGoes(t, "said", "ended")
    /\ UNCHANGED <<feed, whole, events, done, waits, text, result>>

\* The deferred closes; that done is closed before events shows to nobody, for the
\* collector does not select from done again.
CloseChannels(t) ==
    /\ ReaderGoes(t, "said", "closed")
    /\ UNCHANGED <<feed, whole, events, done, waits, text, result>>

-----------------------------------------------------------------------------
(* CollectStreamText *)

Collecting(t) == reader[t] # "none" /\ result[t] = "none"

CollectEvent(t) ==
    /\ Collecting(t)
    /\ "events" \in waits[t] /\ events[t] # <<>>
    /\ text' = [text EXCEPT ![t] = @ \o Head(events[t])]
    /\ events' = [events EXCEPT ![t] = Tail(@)]
    /\ UNCHANGED <<feed, reader, whole, done, waits, result>>

StopsWaiting(t, channels) ==
    /\ waits' = [waits EXCEPT ![t] = @ \ channels]
    /\ result' = [result EXCEPT ![t] = IF waits'[t] = {} THEN "ok" ELSE @]

EventsClosed(t) ==
    /\ Collecting(t)
    /\ "events" \in waits[t] /\ events[t] = <<>> /\ reader[t] = "closed"
    /\ StopsWaiting(t, {"events"})
    /\ UNCHANGED <<feed, reader, whole, events, done, text>>

CollectDoneAnd(t, channels) ==
    /\ Collecting(t)
    /\ "done" \in waits[t] /\ done[t] # <<>>
    /\ done' = [done EXCEPT ![t] = <<>>]
    /\ IF Head(done[t]) = "ok"
       THEN StopsWaiting(t, channels)
       ELSE result' = [result EXCEPT ![t] = "error"] /\ UNCHANGED waits
    /\ UNCHANGED <<feed, reader, whole, events, text>>

\* Mutant: the end of the stream ends the collection.
CollectDoneOnly(t) == CollectDoneAnd(t, Channels)

CollectDone(t) == CollectDoneAnd(t, {"done"})

\* The completion fails before it has a stream.
NoStream(t) ==
    /\ reader[t] = "none" /\ result[t] = "none"
    /\ result' = [result EXCEPT ![t] = "error"]
    /\ UNCHANGED <<feed, reader, whole, events, done, waits, text>>

ReadStream(t) == ReadEvent(t) \/ ReadEnd(t) \/ CloseChannels(t)

Collect(t) == CollectEvent(t) \/ EventsClosed(t) \/ CollectDone(t)

-----------------------------------------------------------------------------
(* Properties *)

\* A completion that ends well has the text of the provider, all of it and once,
\* however the goroutines alternate and whether it came in deltas, as a whole or both.
TextIsWhole == \A t \in Turns : result[t] = "ok" => text[t] = Text
=============================================================================
