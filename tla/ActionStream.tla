----------------------------- MODULE ActionStream -----------------------------
(***************************************************************************)
(* The streaming reader of the platform client (platform/actions_stream.go)*)
(* and its peer: InvokeStreaming opens the stream and validates its start  *)
(* event, Next reads one SSE event at a time, and Close - from the reading *)
(* goroutine or from any other - cancels the request and closes the body.  *)
(*                                                                         *)
(* The server and the connection are external.  The server writes events;  *)
(* the connection carries them as fragments, each what one ReadSlice       *)
(* returns, and may end or break after any of them.  A line is any number  *)
(* of "part" fragments and a last one that carries what the line says.     *)
(* Payloads are abstracted to what the reader tells apart, and a frame's   *)
(* bytes to the frame.                                                     *)
(***************************************************************************)
EXTENDS Naturals, Sequences

CONSTANTS
  Closers,       \* goroutines that call Close, the reading one among them
  Reader,        \* the goroutine that calls InvokeStreaming and Next
  MaxEventBytes, \* the per-event cap, in fragments
  MaxWrites,     \* bound: events the server writes
  MaxInFlight    \* bound: fragments in flight when the server writes

ASSUME ConstantsAssumption ==
  /\ Reader \in Closers
  /\ {MaxEventBytes, MaxWrites, MaxInFlight} \subseteq Nat

VARIABLES
  wire,      \* fragments written and not yet read
  link,      \* the connection: "open", ended ("eof") or broken ("reset")
  body,      \* the response body: "none" yet, "open" or "closed"
  cancelled, \* the request's context is cancelled
  closed,    \* ActionStream.closed
  closing,   \* where in Close each goroutine is
  pc,        \* where the reading goroutine is
  ev,        \* the event readEvent is assembling
  received,  \* ActionStream.received.Frames
  claimed,   \* ActionStream.delivered.Frames, from the terminal event
  err,       \* ActionStream.err, or the error InvokeStreaming returned
  done,      \* ActionStream.done
  last,      \* what the last Next returned: "frame" or "end"
  phase,     \* history: how far the server's protocol has come
  sent,      \* history: frames the server wrote before a terminal event
  writes,    \* history: events written
  broken     \* history: the server wrote what the framing contract does not allow

stream == <<received, claimed, err, done, last>>
closes == <<cancelled, closed, closing>>
server == <<phase, sent, writes, broken>>
vars   == <<wire, link, body, closes, pc, ev, stream, server>>

-----------------------------------------------------------------------------
(* What a server writes. *)

\* A fragment: the kind of line it completes, what the line says, and the frame
\* count a terminal event states.
Frag(kind, says) == [kind |-> kind, says |-> says, frames |-> 0]

Blank     == Frag("blank", "")
Heartbeat == <<Frag("comment", ""), Blank>>
Frame     == <<Frag("data", "text"), Blank>>
LongFrame == <<Frag("part", ""), Frag("data", "text"), Frag("data", "text"), Blank>>
Control(name, data) == <<Frag("event", name), Frag("data", data), Blank>>
Terminal(status, n) ==
  <<Frag("event", "end"), [kind |-> "data", says |-> status, frames |-> n], Blank>>

Legal  == {Heartbeat, Frame, LongFrame, Control("start", "json")}
            \cup {Terminal(status, sent) : status \in {"success", "error"}}
Broken == { <<Blank>>,                                  \* an empty event
            <<Frag("junk", "")>>,                       \* not an SSE field
            <<Frag("cr", "")>>,                         \* a CR byte
            <<Frag("data", "notUTF8"), Blank>>,
            Control("other", "json"),                   \* an unknown control event
            Control("start", "text"),                   \* metadata that is not JSON
            Terminal("malformed", 0),
            Terminal("errorWithoutObject", 0),
            Terminal("otherStatus", 0),
            [i \in 1..(MaxEventBytes + 1) |-> Frag("part", "")] } \* no end of line

IsFrame(e)    == e \in {Frame, LongFrame}
IsTerminal(e) == e \in {Terminal(status, sent) : status \in {"success", "error"}}

-----------------------------------------------------------------------------
NoEvent == [event |-> "", data |-> <<>>, comment |-> FALSE, total |-> 0]

Init ==
  /\ wire = <<>> /\ link = "open" /\ body = "none"
  /\ cancelled = FALSE /\ closed = FALSE
  /\ closing = [c \in Closers |-> "no"]
  /\ pc = "invoke" /\ ev = NoEvent
  /\ received = 0 /\ claimed = 0 /\ err = "none" /\ done = FALSE /\ last = "none"
  /\ phase = "before" /\ sent = 0 /\ writes = 0 /\ broken = FALSE

-----------------------------------------------------------------------------
(* The server, the connection and the caller's own context. *)

\* The contract: heartbeats anywhere, one start, frames, one terminal event.
InOrder(e) ==
  /\ e \in Legal
  /\ phase \in {"before", "streaming"}
  /\ e = Control("start", "json") => phase = "before"
  /\ IsFrame(e) \/ IsTerminal(e) => phase = "streaming"

Write(e) ==
  /\ body = "open" /\ ~cancelled /\ link = "open"
  /\ writes < MaxWrites /\ Len(wire) <= MaxInFlight
  /\ wire' = wire \o e
  /\ writes' = writes + 1
  /\ broken' = (broken \/ ~InOrder(e))
  /\ sent' = IF IsFrame(e) /\ phase = "streaming" THEN sent + 1 ELSE sent
  /\ phase' = CASE e = Control("start", "json") /\ phase = "before" -> "streaming"
                [] IsTerminal(e) /\ phase = "streaming"             -> e[2].says
                [] OTHER                                            -> phase
  /\ UNCHANGED <<link, body, closes, pc, ev, stream>>

\* The connection ends or breaks, and what it had not carried yet is lost.
Disconnect ==
  /\ body = "open" /\ link = "open"
  /\ link' \in {"eof", "reset"}
  /\ \E n \in 0..Len(wire) : wire' = SubSeq(wire, 1, n)
  /\ UNCHANGED <<body, closes, pc, ev, stream, server>>

CallerCancels ==
  /\ pc \in {"start", "ready", "next"} /\ ~cancelled
  /\ cancelled' = TRUE
  /\ UNCHANGED <<wire, link, body, closed, closing, pc, ev, stream, server>>

-----------------------------------------------------------------------------
(* InvokeStreaming up to its readStart. *)

\* The request could not be built or answered.
RequestFails ==
  /\ pc = "invoke" /\ pc' = "gone"
  /\ err' = "transport" /\ cancelled' = TRUE
  /\ UNCHANGED <<wire, link, body, closed, closing, ev, received, claimed, done, last, server>>

\* A non-2xx, or a 2xx that is not an event stream.
Refused ==
  /\ pc = "invoke" /\ pc' = "gone"
  /\ err' \in {"refused", "notAStream"}
  /\ body' = "closed" /\ cancelled' = TRUE
  /\ UNCHANGED <<wire, link, closed, closing, ev, received, claimed, done, last, server>>

Opened ==
  /\ pc = "invoke" /\ pc' = "start"
  /\ body' = "open"
  /\ UNCHANGED <<wire, link, closes, ev, stream, server>>

-----------------------------------------------------------------------------
(* readEvent, and what readStart and Next do with its result. *)

\* An error: the start is refused and the stream closed, or Next finishes with it.
Fails(e) ==
  /\ err' = e
  /\ ev' = NoEvent
  /\ \/ pc = "start" /\ pc' = "aborting" /\ UNCHANGED <<done, last>>
     \/ pc = "next"  /\ pc' = "ready" /\ done' = TRUE /\ last' = "end"
  /\ UNCHANGED <<received, claimed>>

\* What a whole line adds to the event being assembled; a part adds its bytes.
Absorb(f) ==
  /\ f.kind \in {"part", "comment", "event", "data"}
  /\ ev' = [event   |-> IF f.kind = "event" THEN f.says ELSE ev.event,
            data    |-> IF f.kind = "data" THEN Append(ev.data, f) ELSE ev.data,
            comment |-> ev.comment \/ f.kind = "comment",
            total   |-> ev.total + 1]
  /\ UNCHANGED <<pc, stream>>

\* Mutant: the bytes of a heartbeat count against the next event's cap.
SkipHeartbeatCounting ==
  /\ ev.data = <<>> /\ ev.event = "" /\ ev.comment
  /\ ev' = [NoEvent EXCEPT !.total = ev.total + 1]
  /\ UNCHANGED <<pc, stream>>

\* Mutant: a heartbeat is handed out as an empty frame.
SkipHeartbeatAsFrame ==
  /\ ev.data = <<>> /\ ev.event = "" /\ ev.comment
  /\ ev' = NoEvent
  /\ IF pc = "next" THEN received' = received + 1 /\ pc' = "ready" ELSE UNCHANGED <<received, pc>>
  /\ UNCHANGED <<claimed, err, done, last>>

\* A block of comments only: readEvent starts over.
SkipHeartbeat ==
  /\ ev.data = <<>> /\ ev.event = "" /\ ev.comment
  /\ ev' = NoEvent
  /\ UNCHANGED <<pc, stream>>

Says(v) == \E i \in DOMAIN ev.data : ev.data[i].says = v
Unreadable ==
  \/ ev.data = <<>> /\ ev.event = "" /\ ~ev.comment
  \/ Says("notUTF8")
Event == ~Unreadable /\ (ev.data # <<>> \/ ev.event # "")

\* The whole payload of an event of one data line; "" for any other payload.
Payload == IF Len(ev.data) = 1 THEN ev.data[1] ELSE Frag("data", "")

\* readStart accepts only a start event that carries JSON.
StartEvent ==
  /\ pc = "start" /\ Event
  /\ IF ev.event = "start" /\ Payload.says = "json"
       THEN pc' = "ready" /\ ev' = NoEvent /\ UNCHANGED stream
       ELSE Fails("unreadable")

FrameEvent ==
  /\ pc = "next" /\ Event /\ ev.event = ""
  /\ received' = received + 1
  /\ pc' = "ready" /\ last' = "frame" /\ ev' = NoEvent
  /\ UNCHANGED <<claimed, err, done>>

\* finishTerminal
TerminalEvent ==
  /\ pc = "next" /\ Event /\ ev.event = "end"
  /\ IF Payload.says \in {"success", "error", "errorWithoutObject", "otherStatus"}
       THEN claimed' = Payload.frames ELSE UNCHANGED claimed
  /\ err' = CASE Payload.says = "success" -> "none"
              [] Payload.says = "error"   -> "server"
              [] OTHER                    -> "unreadable"
  /\ pc' = "ready" /\ done' = TRUE /\ last' = "end" /\ ev' = NoEvent
  /\ UNCHANGED received

\* A second start or an unknown control event.
UnexpectedEvent ==
  /\ pc = "next" /\ Event /\ ev.event \notin {"", "end"}
  /\ Fails("unreadable")

EndOfBlock ==
  \/ SkipHeartbeat
  \/ Unreadable /\ Fails("unreadable")
  \/ StartEvent
  \/ FrameEvent
  \/ TerminalEvent
  \/ UnexpectedEvent

Reading == pc \in {"start", "next"}

\* Mutant: the cap is checked on the bytes before this fragment.
TakeFragmentBeyondCap ==
  /\ Reading /\ wire # <<>>
  /\ wire' = Tail(wire)
  /\ LET f == Head(wire) IN
       IF ev.total > MaxEventBytes
         THEN Fails("tooLarge")
         ELSE \/ Absorb(f)
              \/ f.kind \in {"cr", "junk"} /\ Fails("unreadable")
              \/ f.kind = "blank" /\ EndOfBlock
  /\ UNCHANGED <<link, body, closes, server>>

\* readLine takes one fragment; what bufio holds is still served after a close.
\* The cap is checked on the running total before the line is looked at.
TakeFragment ==
  /\ Reading /\ wire # <<>>
  /\ wire' = Tail(wire)
  /\ LET f == Head(wire) IN
       IF ev.total + 1 > MaxEventBytes
         THEN Fails("tooLarge")
         ELSE \/ Absorb(f)
              \/ f.kind \in {"cr", "junk"} /\ Fails("unreadable")
              \/ f.kind = "blank" /\ EndOfBlock
  /\ UNCHANGED <<link, body, closes, server>>

\* Mutant: the end of the connection is taken for the end of the stream.
ReadEndsQuietly ==
  /\ Reading
  /\ \/ link = "eof" /\ wire = <<>> /\ Fails("none")
     \/ (link = "reset" \/ cancelled \/ body = "closed") /\ Fails("interrupted")
  /\ UNCHANGED <<wire, link, body, closes, server>>

\* The read itself fails: the connection is over, or this side tore it down.
ReadFails ==
  /\ Reading
  /\ \/ link = "eof" /\ wire = <<>>
     \/ link = "reset" \/ cancelled \/ body = "closed"
  /\ Fails("interrupted")
  /\ UNCHANGED <<wire, link, body, closes, server>>

\* Next answers at once on a finished or closed stream, else reads an event.
CallNext ==
  /\ pc = "ready"
  /\ IF done \/ closed
       THEN last' = "end" /\ UNCHANGED pc
       ELSE pc' = "next" /\ UNCHANGED last
  /\ UNCHANGED <<wire, link, body, closes, ev, received, claimed, err, done, server>>

\* The caller is through with the stream, ended or not: its deferred Close.
Leave ==
  /\ pc = "ready" /\ pc' = "leaving"
  /\ UNCHANGED <<wire, link, body, closes, ev, stream, server>>

-----------------------------------------------------------------------------
(* Close.  Another goroutine can call it from the moment the stream is returned. *)

MayClose(c) ==
  /\ closing[c] = "no"
  /\ pc \in IF c = Reader THEN {"aborting", "leaving"} ELSE {"ready", "next", "leaving"}

\* The reading goroutine is gone once its own Close returns.
Returns(c) == pc' = IF c = Reader THEN "gone" ELSE pc

\* Mutants: every caller releases; the first one only marks the stream closed.
CloseSwapEvery(c) ==
  /\ MayClose(c)
  /\ closing' = [closing EXCEPT ![c] = "cancel"] /\ closed' = TRUE
  /\ UNCHANGED <<wire, link, body, cancelled, pc, ev, stream, server>>
CloseMarksOnly(c) ==
  /\ MayClose(c)
  /\ closing' = [closing EXCEPT ![c] = "returned"] /\ closed' = TRUE /\ Returns(c)
  /\ UNCHANGED <<wire, link, body, cancelled, ev, stream, server>>

CloseSwap(c) ==
  /\ MayClose(c)
  /\ IF closed
       THEN closing' = [closing EXCEPT ![c] = "returned"] /\ Returns(c) /\ UNCHANGED closed
       ELSE closing' = [closing EXCEPT ![c] = "cancel"] /\ closed' = TRUE /\ UNCHANGED pc
  /\ UNCHANGED <<wire, link, body, cancelled, ev, stream, server>>

CloseCancel(c) ==
  /\ closing[c] = "cancel"
  /\ closing' = [closing EXCEPT ![c] = "body"]
  /\ cancelled' = TRUE
  /\ UNCHANGED <<wire, link, body, closed, pc, ev, stream, server>>

\* Mutant: Close cancels and leaves the body open.
CloseWithoutBody(c) ==
  /\ closing[c] = "body"
  /\ closing' = [closing EXCEPT ![c] = "returned"]
  /\ Returns(c)
  /\ UNCHANGED <<wire, link, body, cancelled, closed, ev, stream, server>>

CloseBody(c) ==
  /\ closing[c] = "body"
  /\ closing' = [closing EXCEPT ![c] = "returned"]
  /\ body' = "closed"
  /\ Returns(c)
  /\ UNCHANGED <<wire, link, cancelled, closed, ev, stream, server>>

-----------------------------------------------------------------------------
Close(c) == CloseSwap(c) \/ CloseCancel(c) \/ CloseBody(c)

Next ==
  \/ \E e \in Legal \cup Broken : Write(e)
  \/ Disconnect
  \/ CallerCancels
  \/ RequestFails
  \/ Refused
  \/ Opened
  \/ TakeFragment
  \/ ReadFails
  \/ CallNext
  \/ Leave
  \/ \E c \in Closers : Close(c)

Spec == Init /\ [][Next]_vars

\* A read with something to return returns, and a Close once begun goes on; the
\* server, the connection and the callers owe nothing.
Fairness ==
  /\ WF_vars(TakeFragment \/ ReadFails)
  /\ WF_vars(CloseSwap(Reader))
  /\ \A c \in Closers : WF_vars(CloseCancel(c) \/ CloseBody(c))

FairSpec == Spec /\ Fairness

-----------------------------------------------------------------------------
(***************************************************************************)
(* Properties.                                                             *)
(***************************************************************************)

Errors == {"none", "transport", "refused", "notAStream", "interrupted", "unreadable",
           "tooLarge", "server"}

Kinds == {"part", "blank", "comment", "event", "data", "junk", "cr"}
Words == {"", "text", "json", "notUTF8", "start", "end", "other", "success", "error",
          "malformed", "errorWithoutObject", "otherStatus"}
Fragment == [kind: Kinds, says: Words, frames: Nat]

\* Types; readLine never retains more of an event than its cap.
TypeOK ==
  /\ wire \in Seq(Fragment)
  /\ link \in {"open", "eof", "reset"} /\ body \in {"none", "open", "closed"}
  /\ cancelled \in BOOLEAN /\ closed \in BOOLEAN /\ done \in BOOLEAN
  /\ closing \in [Closers -> {"no", "cancel", "body", "returned"}]
  /\ pc \in {"invoke", "start", "ready", "next", "aborting", "leaving", "gone"}
  /\ ev \in [event: Words, data: Seq(Fragment), comment: BOOLEAN, total: 0..MaxEventBytes]
  /\ received \in Nat /\ claimed \in Nat /\ sent \in Nat /\ writes \in 0..MaxWrites
  /\ err \in Errors /\ last \in {"none", "frame", "end"}
  /\ phase \in {"before", "streaming", "success", "error"} /\ broken \in BOOLEAN

\* Next and finishTerminal: a stream that finishes with the server's own verdict
\* was read to the end - the verdict is the one the server gave, and every frame
\* it wrote before it was handed out. A cut stream never passes for a whole one.
VerdictIsComplete ==
  done /\ err \in {"none", "server"} =>
    /\ phase = IF err = "none" THEN "success" ELSE "error"
    /\ received = sent /\ claimed = sent

\* Next, Err and Delivered as a caller sees them: the reader implements Delivery.
Outcome ==
  IF done /\ err = "none" THEN "success"
  ELSE IF done /\ err = "server" THEN "error"
  ELSE IF err # "none" THEN "failed" ELSE "none"

Delivery == INSTANCE Delivery WITH
  offered <- sent,
  ruling  <- IF phase \in {"success", "error"} THEN phase ELSE "none",
  given   <- received,
  outcome <- Outcome

\* Whatever the connection carries and wherever it ends, whoever closes the stream,
\* a caller is given a prefix of what the platform offered and then one outcome,
\* which is the platform's ruling only when the prefix is the whole.
ImplementsDelivery == Delivery!Spec

\* transportTypes: the error tells a caller whether to retry. Interrupted (retry)
\* only when the connection ended or this side cancelled it, and unreadable or
\* too large (do not) never when the server kept the contract.
BlameIsRight ==
  /\ err = "interrupted" => link # "open" \/ cancelled
  /\ ~broken => err \notin {"unreadable", "tooLarge"}

\* Next: what a finished stream reports does not change, whoever closes it when.
VerdictSticks == [][done => UNCHANGED <<received, claimed, err, done>>]_vars

\* Close: one goroutine releases the request, the others return at once.
ReleasedByOne ==
  \A c, d \in Closers :
    closing[c] \in {"cancel", "body"} /\ closing[d] \in {"cancel", "body"} => c = d

\* InvokeStreaming and Close: however the call ends, nobody is left to release
\* the request or the body and finds it released.
NothingLeaks ==
  pc = "gone" /\ (\A c \in Closers : closing[c] \notin {"cancel", "body"}) =>
    cancelled /\ body # "open"

\* What a call holds is released once: never by two, and never by none.
ReleasedOnce == ReleasedByOne /\ NothingLeaks

\* Close from any goroutine unblocks a stalled Next, for good.
CloseUnblocks == closed ~> [](pc # "next")

\* A caller that leaves leaves nothing behind, even if another goroutine won the
\* swap and is still closing.
EventuallyReleased == pc \in {"aborting", "leaving"} ~> cancelled /\ body = "closed"

\* The comment on Next: it returns false when the stream ended, cleanly with a
\* nil Err or with an error.
NilErrMeansCleanEnd == last = "end" /\ err = "none" => phase = "success"
=============================================================================
