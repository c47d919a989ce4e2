-------------------------- MODULE ActionStream_proofs --------------------------
(***************************************************************************)
(* Theorems about ActionStream, for any set of goroutines that close the   *)
(* stream, any server and every bound.                                     *)
(***************************************************************************)
EXTENDS ActionStream, SequenceTheorems, TLAPS

-----------------------------------------------------------------------------
(* Close and the release of what the call holds. *)

\* The swap of closed elects one goroutine, which stays at work until the context
\* is cancelled and the body closed; a call that never had a stream to close is
\* released by InvokeStreaming itself.
ReleaseInv ==
  /\ closed \in BOOLEAN /\ closing \in [Closers -> {"no", "cancel", "body", "returned"}]
  /\ ~closed => \A c \in Closers : closing[c] = "no"
  /\ \A c \in Closers : closing[c] = "body" => cancelled
  /\ closed => \/ \E c \in Closers : closing[c] \in {"cancel", "body"}
               \/ (cancelled /\ body = "closed")
  /\ pc = "invoke" => ~closed
  /\ pc = "gone" => closed \/ (cancelled /\ body # "open")
  /\ pc = "invoke" => body = "none"
  /\ ReleasedByOne

\* Nothing but Close, the caller's cancellation and the opening of the stream
\* touches what the invariant speaks of.
LEMMA ReadingReleasesNothing ==
  ASSUME \/ \E e \in Legal \cup Broken : Write(e)
         \/ Disconnect \/ TakeFragment \/ ReadFails \/ CallNext \/ Leave
  PROVE  /\ UNCHANGED <<body, closes>>
         /\ \/ pc' = pc
            \/ pc # "invoke" /\ pc' \notin {"invoke", "gone"}
<1> DEFINE Moves == pc \in {"start", "next"} /\ pc' \in {"aborting", "ready"}
<1>1. ASSUME NEW e, Fails(e) PROVE Moves
  BY <1>1 DEF Fails
<1>2. CASE TakeFragment
  <2>1. ASSUME EndOfBlock PROVE pc' = pc \/ Moves
    <3>1. CASE SkipHeartbeat
      BY <3>1 DEF SkipHeartbeat
    <3>2. CASE StartEvent
      BY <1>1, <3>2 DEF StartEvent
    <3>3. CASE FrameEvent \/ TerminalEvent
      BY <3>3 DEF FrameEvent, TerminalEvent
    <3>4. CASE UnexpectedEvent \/ (Unreadable /\ Fails("unreadable"))
      BY <1>1, <3>4 DEF UnexpectedEvent
    <3> QED BY <2>1, <3>1, <3>2, <3>3, <3>4 DEF EndOfBlock
  <2>2. pc' = pc \/ Moves
    BY <1>1, <1>2, <2>1 DEF TakeFragment, Absorb
  <2>3. UNCHANGED <<body, closes>>
    BY <1>2 DEF TakeFragment
  <2> QED BY <2>2, <2>3
<1>3. CASE ReadFails
  BY <1>1, <1>3 DEF ReadFails
<1>4. CASE (\E e \in Legal \cup Broken : Write(e)) \/ Disconnect
  <2>1. UNCHANGED <<body, closes, pc>>
    BY <1>4 DEF Write, Disconnect
  <2> QED BY <2>1
<1>5. CASE CallNext \/ Leave
  BY <1>5 DEF CallNext, Leave
<1> QED BY <1>2, <1>3, <1>4, <1>5

LEMMA ReleaseStep == ReleaseInv /\ [Next]_vars => ReleaseInv'
<1> SUFFICES ASSUME ReleaseInv, [Next]_vars PROVE ReleaseInv'
  OBVIOUS
<1>1. CASE \/ \E e \in Legal \cup Broken : Write(e)
           \/ Disconnect \/ TakeFragment \/ ReadFails \/ CallNext \/ Leave
  BY <1>1, ReadingReleasesNothing DEF ReleaseInv, ReleasedByOne, closes
<1>2. CASE CallerCancels
  BY <1>2 DEF CallerCancels, ReleaseInv, ReleasedByOne
<1>3. CASE RequestFails \/ Refused \/ Opened
  <2>1. /\ UNCHANGED <<closed, closing>> /\ ~closed
        /\ cancelled => cancelled'
        /\ \/ pc' = "start"
           \/ pc' = "gone" /\ cancelled' /\ body' # "open"
    BY <1>3 DEF RequestFails, Refused, Opened, ReleaseInv, closes
  <2> QED BY <2>1 DEF ReleaseInv, ReleasedByOne
<1>4. ASSUME NEW c \in Closers, CloseSwap(c) PROVE ReleaseInv'
  <2>1. pc # "invoke" /\ pc # "gone" /\ closing[c] = "no" /\ UNCHANGED <<cancelled, body>>
    BY <1>4 DEF CloseSwap, MayClose
  <2>2. CASE closed
    <3>1. closed' = closed /\ closing' = [closing EXCEPT ![c] = "returned"] /\ pc' # "invoke"
      BY <1>4, <2>1, <2>2 DEF CloseSwap, Returns
    <3> QED BY <2>1, <2>2, <3>1 DEF ReleaseInv, ReleasedByOne
  <2>3. CASE ~closed
    <3>1. closed' /\ closed' \in BOOLEAN /\ closing' = [closing EXCEPT ![c] = "cancel"] /\ pc' = pc
      BY <1>4, <2>3 DEF CloseSwap
    <3>2. \A d \in Closers : d # c => closing'[d] = "no"
      BY <2>3, <3>1 DEF ReleaseInv
    <3> QED BY <2>1, <3>1, <3>2 DEF ReleaseInv, ReleasedByOne
  <2> QED BY <2>2, <2>3
<1>5. ASSUME NEW c \in Closers, CloseCancel(c) PROVE ReleaseInv'
  BY <1>5 DEF CloseCancel, ReleaseInv, ReleasedByOne
<1>6. ASSUME NEW c \in Closers, CloseBody(c) PROVE ReleaseInv'
  BY <1>6 DEF CloseBody, Returns, ReleaseInv, ReleasedByOne
<1>7. CASE UNCHANGED vars
  BY <1>7 DEF vars, closes, ReleaseInv, ReleasedByOne
<1> QED BY <1>1, <1>2, <1>3, <1>4, <1>5, <1>6, <1>7 DEF Next, Close

LEMMA ReleaseAlways == Spec => []ReleaseInv
<1>1. Init => ReleaseInv
  BY DEF Init, ReleaseInv, ReleasedByOne
<1> QED BY <1>1, ReleaseStep, PTL DEF Spec

\* However many goroutines close the stream, one of them releases it, and a call that is
\* over, with no Close at work, holds neither context nor body.
THEOREM ReleasedCorrectly == Spec => []ReleasedOnce
<1>1. ReleaseInv => ReleasedOnce
  BY DEF ReleaseInv, ReleasedOnce, NothingLeaks
<1> QED BY <1>1, ReleaseAlways, PTL

-----------------------------------------------------------------------------
(* The verdict of a finished stream. *)

\* Nobody reads a stream that is done.
DoneInv == done => pc \in {"ready", "leaving", "gone"}

LEMMA DoneStep == DoneInv /\ [Next]_vars => DoneInv' /\ (done => UNCHANGED <<received, claimed, err, done>>)
<1> SUFFICES ASSUME DoneInv, [Next]_vars
             PROVE  DoneInv' /\ (done => UNCHANGED <<received, claimed, err, done>>)
  OBVIOUS
<1>1. CASE TakeFragment
  <2>1. pc \in {"start", "next"} /\ ~done
    BY <1>1 DEF TakeFragment, Reading, DoneInv
  <2> QED BY <1>1, <2>1 DEF TakeFragment, Fails, Absorb, EndOfBlock, SkipHeartbeat, StartEvent,
        FrameEvent, TerminalEvent, UnexpectedEvent, stream, DoneInv
<1>2. CASE ReadFails
  BY <1>2 DEF ReadFails, Reading, Fails, DoneInv
<1>3. CASE \/ \E e \in Legal \cup Broken : Write(e)
           \/ Disconnect \/ CallerCancels
  BY <1>3 DEF Write, Disconnect, CallerCancels, stream, DoneInv
<1>4. CASE RequestFails \/ Refused \/ Opened \/ CallNext \/ Leave
  BY <1>4 DEF RequestFails, Refused, Opened, CallNext, Leave, stream, DoneInv
<1>5. ASSUME NEW c \in Closers, Close(c)
      PROVE  UNCHANGED <<received, claimed, err, done>> /\ pc' \in {pc, "gone"}
  BY <1>5 DEF Close, CloseSwap, CloseCancel, CloseBody, Returns, stream
<1>6. CASE UNCHANGED vars
  BY <1>6 DEF vars, stream, DoneInv
<1> QED BY <1>1, <1>2, <1>3, <1>4, <1>5, <1>6 DEF Next, DoneInv

\* Neither another Next nor a Close changes what a finished stream reports.
THEOREM VerdictsStick == Spec => VerdictSticks
<1>1. Init => DoneInv
  BY DEF Init, DoneInv
<1>2. DoneInv /\ [Next]_vars => [done => UNCHANGED <<received, claimed, err, done>>]_vars
  BY DoneStep
<1> QED BY <1>1, <1>2, DoneStep, PTL DEF Spec, VerdictSticks

-----------------------------------------------------------------------------
(* Types, and the cap on an event. *)

\* A server writes fragments, and a terminal event of the protocol names its verdict.
LEMMA WritesFragments ==
  ASSUME sent \in Nat, NEW e \in Legal \cup Broken
  PROVE  e \in Seq(Fragment) /\ (IsTerminal(e) => e[2].says \in {"success", "error"})
<1>1. MaxEventBytes \in Nat
  BY ConstantsAssumption
<1>2. \A kind \in Kinds, says \in Words : Frag(kind, says) \in Fragment
  BY DEF Frag, Fragment
<1>3. ASSUME NEW f \in Fragment, NEW g \in Fragment, NEW h \in Fragment, NEW i \in Fragment
      PROVE  /\ <<f>> \in Seq(Fragment) /\ <<f, g>> \in Seq(Fragment)
             /\ <<f, g, h>> \in Seq(Fragment) /\ <<f, g, h, i>> \in Seq(Fragment)
  OBVIOUS
<1>4. Blank \in Fragment
  BY <1>2 DEF Blank, Kinds, Words
<1>5. ASSUME NEW name \in Words, NEW data \in Words PROVE Control(name, data) \in Seq(Fragment)
  <2>1. Frag("event", name) \in Fragment /\ Frag("data", data) \in Fragment
    BY <1>2 DEF Kinds
  <2> QED BY <1>3, <1>4, <2>1 DEF Control
<1>6. ASSUME NEW status \in Words, NEW n \in Nat PROVE Terminal(status, n) \in Seq(Fragment)
  <2>1. /\ Frag("event", "end") \in Fragment
        /\ [kind |-> "data", says |-> status, frames |-> n] \in Fragment
    BY <1>2 DEF Fragment, Kinds, Words
  <2> QED BY <1>3, <1>4, <2>1 DEF Terminal
<1>7. Heartbeat \in Seq(Fragment) /\ Frame \in Seq(Fragment) /\ LongFrame \in Seq(Fragment)
  <2>1. Frag("comment", "") \in Fragment /\ Frag("data", "text") \in Fragment
          /\ Frag("part", "") \in Fragment
    BY <1>2 DEF Kinds, Words
  <2> QED BY <1>3, <1>4, <2>1 DEF Heartbeat, Frame, LongFrame
<1>8. [i \in 1..(MaxEventBytes + 1) |-> Frag("part", "")] \in Seq(Fragment)
  <2>1. Frag("part", "") \in Fragment
    BY <1>2 DEF Kinds, Words
  <2>2. MaxEventBytes + 1 \in Nat
    BY <1>1
  <2>3. [i \in 1..(MaxEventBytes + 1) |-> Frag("part", "")] \in [1..(MaxEventBytes + 1) -> Fragment]
    BY <2>1
  <2>4. ASSUME NEW n \in Nat, NEW f \in [1..n -> Fragment] PROVE f \in Seq(Fragment)
    BY SeqDef
  <2> QED BY <2>2, <2>3, <2>4
<1>9. e \in Seq(Fragment)
  <2>1. {"start", "json", "other", "text"} \subseteq Words
    BY DEF Words
  <2>2. {"success", "error", "malformed", "errorWithoutObject", "otherStatus"} \subseteq Words
    BY DEF Words
  <2>3. CASE e \in Legal
    BY <1>5, <1>6, <1>7, <2>1, <2>2, <2>3 DEF Legal
  <2>4. CASE e \in Broken
    <3>1. /\ Frag("junk", "") \in Fragment /\ Frag("cr", "") \in Fragment
          /\ Frag("data", "notUTF8") \in Fragment
      BY <1>2 DEF Kinds, Words
    <3>2. <<Blank>> \in Seq(Fragment) /\ <<Frag("junk", "")>> \in Seq(Fragment)
            /\ <<Frag("cr", "")>> \in Seq(Fragment)
            /\ <<Frag("data", "notUTF8"), Blank>> \in Seq(Fragment)
      BY <1>3, <1>4, <3>1
    <3> QED BY <1>5, <1>6, <1>8, <2>1, <2>2, <2>4, <3>2 DEF Broken
  <2> QED BY <2>3, <2>4
<1>10. IsTerminal(e) => e[2].says \in {"success", "error"}
  BY DEF IsTerminal, Terminal
<1> QED BY <1>9, <1>10

\* What readEvent's last line leads to keeps the types.
LEMMA EndOfBlockTyped ==
  ASSUME TypeOK, Reading, EndOfBlock
  PROVE  /\ pc' \in {"start", "ready", "next", "aborting"} /\ ev' = NoEvent
         /\ received' \in Nat /\ claimed' \in Nat /\ err' \in Errors
         /\ done' \in BOOLEAN /\ last' \in {"none", "frame", "end"}
<1> DEFINE Typed == /\ pc' \in {"start", "ready", "next", "aborting"} /\ ev' = NoEvent
                    /\ received' \in Nat /\ claimed' \in Nat /\ err' \in Errors
                    /\ done' \in BOOLEAN /\ last' \in {"none", "frame", "end"}
<1>0. /\ received \in Nat /\ claimed \in Nat /\ err \in Errors
      /\ done \in BOOLEAN /\ last \in {"none", "frame", "end"}
      /\ ev.data \in Seq(Fragment)
  BY DEF TypeOK
<1>1. ASSUME NEW e \in Errors, Fails(e) PROVE Typed
  BY <1>0, <1>1 DEF Fails
<1>2. "unreadable" \in Errors
  BY DEF Errors
<1>3. CASE SkipHeartbeat
  BY <1>0, <1>3 DEF SkipHeartbeat, stream, Reading
<1>4. CASE Unreadable /\ Fails("unreadable")
  BY <1>1, <1>2, <1>4
<1>5. CASE StartEvent
  BY <1>0, <1>1, <1>2, <1>5 DEF StartEvent, stream
<1>6. CASE FrameEvent
  <2>1. received' = received + 1 /\ claimed' = claimed /\ err' = err /\ done' = done
    BY <1>6 DEF FrameEvent
  <2>2. pc' = "ready" /\ last' = "frame" /\ ev' = NoEvent
    BY <1>6 DEF FrameEvent
  <2> QED BY <1>0, <2>1, <2>2
<1>7. CASE TerminalEvent
  <2>1. Payload.frames \in Nat
    <3>1. Len(ev.data) = 1 => ev.data[1] \in Fragment
      BY <1>0, ElementOfSeq
    <3> QED BY <3>1 DEF Payload, Frag, Fragment
  <2>2. err' \in Errors
    BY <1>7 DEF TerminalEvent, Errors
  <2> QED BY <1>0, <1>7, <2>1, <2>2 DEF TerminalEvent
<1>8. CASE UnexpectedEvent
  BY <1>1, <1>2, <1>8 DEF UnexpectedEvent
<1> QED BY <1>3, <1>4, <1>5, <1>6, <1>7, <1>8 DEF EndOfBlock

LEMMA TypeStep == TypeOK /\ [Next]_vars => TypeOK'
<1> SUFFICES ASSUME TypeOK, [Next]_vars PROVE TypeOK'
  OBVIOUS
<1> DEFINE EventType ==
             [event: Words, data: Seq(Fragment), comment: BOOLEAN, total: 0..MaxEventBytes]
           ReadTyped ==
             /\ pc' \in {"start", "ready", "next", "aborting"} /\ ev' \in EventType
             /\ received' \in Nat /\ claimed' \in Nat /\ err' \in Errors
             /\ done' \in BOOLEAN /\ last' \in {"none", "frame", "end"}
<1> USE DEF TypeOK
<1>1. ASSUME NEW e \in Legal \cup Broken, Write(e) PROVE TypeOK'
  <2>1. e \in Seq(Fragment) /\ (IsTerminal(e) => e[2].says \in {"success", "error"})
    BY WritesFragments
  <2>2. wire' \in Seq(Fragment)
    BY <1>1, <2>1 DEF Write
  <2>3. sent' \in Nat /\ writes' \in 0..MaxWrites
    BY <1>1, ConstantsAssumption DEF Write
  <2>4. phase' \in {"before", "streaming", "success", "error"}
    BY <1>1, <2>1 DEF Write
  <2> QED BY <1>1, <2>2, <2>3, <2>4 DEF Write, closes, stream
<1>2. CASE Disconnect
  <2>1. wire' \in Seq(Fragment)
    BY <1>2, SubSeqProperties DEF Disconnect
  <2> QED BY <1>2, <2>1 DEF Disconnect, closes, stream, server
<1>3. CASE RequestFails \/ Refused
  <2>1. err' \in Errors
    BY <1>3 DEF RequestFails, Refused, Errors
  <2> QED BY <1>3, <2>1 DEF RequestFails, Refused, server
<1>4. CASE CallerCancels \/ Opened \/ CallNext \/ Leave
  <2>1. CASE CallerCancels
    BY <2>1 DEF CallerCancels, stream, server
  <2>2. CASE Opened
    BY <2>2 DEF Opened, closes, stream, server
  <2>3. CASE CallNext
    BY <2>3 DEF CallNext, closes, server
  <2>4. CASE Leave
    BY <2>4 DEF Leave, closes, stream, server
  <2> QED BY <1>4, <2>1, <2>2, <2>3, <2>4
<1>5. NoEvent \in EventType
  <2>1. 0 \in 0..MaxEventBytes
    BY ConstantsAssumption
  <2> QED BY <2>1, EmptySeq DEF NoEvent, Words
<1>6. ASSUME NEW e \in Errors, Fails(e) PROVE ReadTyped
  <2>1. /\ pc' \in {"ready", "aborting"} /\ err' = e /\ ev' = NoEvent
        /\ received' = received /\ claimed' = claimed
        /\ \/ done' = done /\ last' = last
           \/ done' = TRUE /\ last' = "end"
    BY <1>6 DEF Fails
  <2> QED BY <1>5, <2>1
<1>7. {"tooLarge", "unreadable", "interrupted"} \subseteq Errors
  BY DEF Errors
<1>8. CASE TakeFragment
  <2>1. Head(wire) \in Fragment /\ wire' \in Seq(Fragment)
    BY <1>8, HeadTailProperties DEF TakeFragment
  <2>2. CASE Fails("tooLarge") \/ Fails("unreadable")
    <3>1. ReadTyped
      BY <1>6, <1>7, <2>2
    <3> QED BY <1>8, <2>1, <3>1 DEF TakeFragment, closes, server
  <2>3. CASE ev.total + 1 <= MaxEventBytes /\ Absorb(Head(wire))
    <3> DEFINE f == Head(wire)
    <3>1. /\ (IF f.kind = "event" THEN f.says ELSE ev.event) \in Words
          /\ (IF f.kind = "data" THEN Append(ev.data, f) ELSE ev.data) \in Seq(Fragment)
          /\ ev.total + 1 \in 0..MaxEventBytes
      <4>1. ev.event \in Words /\ ev.data \in Seq(Fragment) /\ ev.total \in 0..MaxEventBytes
        OBVIOUS
      <4>2. f.says \in Words
        BY <2>1 DEF Fragment
      <4>3. Append(ev.data, f) \in Seq(Fragment)
        BY <2>1, <4>1, AppendProperties
      <4>4. ev.total + 1 \in 0..MaxEventBytes
        BY <2>3, <4>1, ConstantsAssumption
      <4> QED BY <4>1, <4>2, <4>3, <4>4
    <3>2. (ev.comment \/ f.kind = "comment") \in BOOLEAN
      OBVIOUS
    <3>3. ev' = [event   |-> IF f.kind = "event" THEN f.says ELSE ev.event,
                 data    |-> IF f.kind = "data" THEN Append(ev.data, f) ELSE ev.data,
                 comment |-> ev.comment \/ f.kind = "comment",
                 total   |-> ev.total + 1]
      BY <2>3 DEF Absorb
    <3>4. ev' \in EventType
      BY <3>1, <3>2, <3>3
    <3>5. UNCHANGED <<pc, stream>>
      BY <2>3 DEF Absorb
    <3> QED BY <1>8, <2>1, <3>4, <3>5 DEF TakeFragment, closes, server, stream
  <2>4. CASE EndOfBlock
    <3>1. ReadTyped
      BY <1>5, <1>8, <2>4, EndOfBlockTyped DEF TakeFragment
    <3> QED BY <1>8, <2>1, <3>1 DEF TakeFragment, closes, server
  <2>5. ev.total \in Nat /\ MaxEventBytes \in Nat
    BY ConstantsAssumption
  <2> QED BY <1>8, <2>2, <2>3, <2>4, <2>5 DEF TakeFragment
<1>9. CASE ReadFails
  <2>1. ReadTyped
    BY <1>6, <1>7, <1>9 DEF ReadFails
  <2> QED BY <1>9, <2>1 DEF ReadFails, closes, server
<1>10. ASSUME NEW c \in Closers, Close(c) PROVE TypeOK'
  <2>1. /\ UNCHANGED <<wire, link, ev, stream, server>> /\ pc' \in {pc, "gone"}
        /\ body' \in {body, "closed"}
        /\ cancelled' = cancelled \/ cancelled' = TRUE
        /\ closed' = closed \/ closed' = TRUE
    BY <1>10 DEF Close, CloseSwap, CloseCancel, CloseBody, Returns
  <2>2. closing' \in [Closers -> {"no", "cancel", "body", "returned"}]
    BY <1>10 DEF Close, CloseSwap, CloseCancel, CloseBody
  <2>3. closed' \in BOOLEAN /\ cancelled' \in BOOLEAN
    BY <2>1
  <2>4. pc' \in {"invoke", "start", "ready", "next", "aborting", "leaving", "gone"}
    BY <2>1
  <2>5. body' \in {"none", "open", "closed"}
    BY <2>1
  <2>6. UNCHANGED <<wire, link, ev, received, claimed, err, done, last, phase, sent, writes, broken>>
    BY <2>1 DEF stream, server
  <2> QED BY <2>2, <2>3, <2>4, <2>5, <2>6
<1>11. CASE UNCHANGED vars
  BY <1>11 DEF vars, closes, stream, server
<1> QED BY <1>1, <1>2, <1>3, <1>4, <1>8, <1>9, <1>10, <1>11 DEF Next

\* Whatever the server writes, the reader holds no more of an event than its cap.
THEOREM TypeCorrect == Spec => []TypeOK
<1>1. Init => TypeOK
  <2>1. 0 \in 0..MaxEventBytes /\ 0 \in 0..MaxWrites
    BY ConstantsAssumption
  <2>2. <<>> \in Seq(Fragment)
    BY EmptySeq
  <2>3. "" \in Words /\ "none" \in Errors
    BY DEF Words, Errors
  <2>4. NoEvent \in [event: Words, data: Seq(Fragment), comment: BOOLEAN, total: 0..MaxEventBytes]
    BY <2>1, <2>2, <2>3 DEF NoEvent
  <2>5. ASSUME Init PROVE closing \in [Closers -> {"no", "cancel", "body", "returned"}]
    BY <2>5 DEF Init
  <2>6. ASSUME Init PROVE received \in Nat /\ claimed \in Nat /\ sent \in Nat
    BY <2>6 DEF Init
  <2>7. ASSUME Init PROVE {cancelled, closed, done} \subseteq BOOLEAN
    BY <2>7 DEF Init
  <2> QED BY <2>1, <2>2, <2>3, <2>4, <2>5, <2>6, <2>7 DEF Init, TypeOK
<1> QED BY <1>1, TypeStep, PTL DEF Spec

-----------------------------------------------------------------------------
(***************************************************************************)
(* What a finished stream concludes, against what its server wrote.        *)
(***************************************************************************)

Verdicts == {"success", "error"}
Finals(n) == {Terminal(status, n) : status \in Verdicts}
Events(n) == {Heartbeat, Frame, LongFrame, Control("start", "json")} \cup Finals(n) \cup Broken

-----------------------------------------------------------------------------
(* The shapes of events. *)

LEMMA LongFrameShape ==
  /\ Len(LongFrame) = 4
  /\ LongFrame[1].kind = "part" /\ LongFrame[2] = Frag("data", "text")
  /\ LongFrame[3] = Frag("data", "text") /\ LongFrame[4] = Blank
BY DEF LongFrame, Frag

LEMMA PairShape ==
  ASSUME NEW f PROVE Len(<<f, Blank>>) = 2 /\ <<f, Blank>>[1] = f /\ <<f, Blank>>[2] = Blank
OBVIOUS

LEMMA ControlShape ==
  ASSUME NEW name, NEW data
  PROVE  /\ Len(Control(name, data)) = 3
         /\ Control(name, data)[1].kind = "event" /\ Control(name, data)[1].says = name
         /\ Control(name, data)[2] = Frag("data", data) /\ Control(name, data)[3] = Blank
BY DEF Control, Frag

LEMMA TerminalShape ==
  ASSUME NEW status, NEW n
  PROVE  /\ Len(Terminal(status, n)) = 3
         /\ Terminal(status, n)[1].kind = "event" /\ Terminal(status, n)[1].says = "end"
         /\ Terminal(status, n)[2].kind = "data" /\ Terminal(status, n)[2].says = status
         /\ Terminal(status, n)[2].frames = n
         /\ Terminal(status, n)[3] = Blank
BY DEF Terminal, Frag

Endless == [i \in 1..(MaxEventBytes + 1) |-> Frag("part", "")]

LEMMA EndlessShape ==
  /\ Len(Endless) = MaxEventBytes + 1
  /\ \A i \in 1..(MaxEventBytes + 1) : Endless[i].kind = "part"
<1>1. MaxEventBytes + 1 \in Nat
  BY ConstantsAssumption
<1>2. Endless \in Seq({Frag("part", "")})
  <2>1. ASSUME NEW S, NEW n \in Nat, NEW f \in [1..n -> S] PROVE f \in Seq(S)
    BY SeqDef
  <2> QED BY <1>1, <2>1 DEF Endless
<1>3. DOMAIN Endless = 1..(MaxEventBytes + 1)
  BY DEF Endless
<1>4. Len(Endless) \in Nat /\ DOMAIN Endless = 1..Len(Endless)
  BY <1>2, LenProperties
<1>5. Len(Endless) = MaxEventBytes + 1
  BY <1>1, <1>3, <1>4
<1> QED BY <1>5 DEF Endless, Frag

-----------------------------------------------------------------------------
(* What the reader has of an event before each of its fragments. *)

Controls == {Control("start", "json"), Control("other", "json"), Control("start", "text")}
Ends(n)  == Finals(n) \cup {Terminal(s, 0) : s \in {"malformed", "errorWithoutObject", "otherStatus"}}
Pairs    == {Heartbeat, Frame, <<Frag("data", "notUTF8"), Blank>>}
Singles  == {<<Blank>>, <<Frag("junk", "")>>, <<Frag("cr", "")>>}

LEMMA EventShapes ==
  ASSUME NEW n, NEW e \in Events(n)
  PROVE  e \in Pairs \cup Singles \cup Controls \cup Ends(n) \cup {LongFrame, Endless}
BY DEF Events, Broken, Finals, Verdicts, Controls, Ends, Pairs, Singles, Endless

\* A place on the wire: the k-th fragment of an event e, and how many frames the
\* server had written, and what its phase was, before that event.
Places == [e: Seq(Fragment), k: Nat \ {0}, n: Nat,
           p: {"before", "streaming", "success", "error"}]

Written(a) == a.e \in Events(a.n) /\ a.k <= Len(a.e)

\* The data lines of an event before its k-th fragment.
Held(e, k) ==
  IF e = LongFrame /\ k = 4 THEN <<e[2], e[3]>>
  ELSE IF k > 1 /\ e[k - 1].kind = "data" THEN <<e[k - 1]>> ELSE <<>>

Assembled(a) ==
  [event   |-> IF a.k > 1 /\ a.e[1].kind = "event" THEN a.e[1].says ELSE "",
   data    |-> Held(a.e, a.k),
   comment |-> a.k > 1 /\ a.e[1].kind = "comment",
   total   |-> a.k - 1]

LEMMA NothingHeld == ASSUME NEW a \in Places, a.k = 1 PROVE Assembled(a) = NoEvent
<1>1. Held(a.e, 1) = <<>>
  BY DEF Held
<1>2. (a.k > 1 /\ a.e[1].kind = "comment") = FALSE
  OBVIOUS
<1>3. (IF a.k > 1 /\ a.e[1].kind = "event" THEN a.e[1].says ELSE "") = "" /\ a.k - 1 = 0
  OBVIOUS
<1> QED BY <1>1, <1>2, <1>3 DEF Assembled, NoEvent

\* An event of three lines: what kind of event it is, its data, and the blank line.
LEMMA TripleShape ==
  ASSUME NEW n, NEW e \in Controls \cup Ends(n)
  PROVE  Len(e) = 3 /\ e[1].kind = "event" /\ e[2].kind = "data" /\ e[3] = Blank
<1>1. CASE e \in Controls
  <2>1. PICK name, data : e = Control(name, data)
    BY <1>1 DEF Controls
  <2>2. Frag("data", data).kind = "data"
    BY DEF Frag
  <2> QED BY <2>1, <2>2, ControlShape
<1>2. CASE e \in Ends(n)
  <2>1. PICK status, m : e = Terminal(status, m)
    BY <1>2 DEF Ends, Finals
  <2> QED BY <2>1, TerminalShape
<1> QED BY <1>1, <1>2

LEMMA OneAppended ==
  ASSUME NEW f \in Fragment
  PROVE  Append(<<>>, f) = <<f>> /\ \A g \in Fragment : Append(<<f>>, g) = <<f, g>>
<1>1. Append(<<>>, f) = <<f>>
  OBVIOUS
<1>2. ASSUME NEW g \in Fragment PROVE Append(<<f>>, g) = <<f, g>>
  <2>1. <<f>> \in Seq(Fragment) /\ Append(<<f>>, g) \in Seq(Fragment) /\ <<f, g>> \in Seq(Fragment)
    OBVIOUS
  <2>2. Len(Append(<<f>>, g)) = 2 /\ Append(<<f>>, g)[1] = f /\ Append(<<f>>, g)[2] = g
    OBVIOUS
  <2>3. Len(<<f, g>>) = 2 /\ <<f, g>>[1] = f /\ <<f, g>>[2] = g
    OBVIOUS
  <2>4. \A i \in 1..2 : i = 1 \/ i = 2
    OBVIOUS
  <2>5. \A i \in 1..Len(Append(<<f>>, g)) : Append(<<f>>, g)[i] = <<f, g>>[i]
    BY <2>2, <2>3, <2>4, Zenon
  <2> QED BY <2>1, <2>2, <2>3, <2>5, SeqEqual, Zenon
<1> QED BY <1>1, <1>2

\* A line that is absorbed is not an event's last; data follows the event's name.
LEMMA Grows ==
  ASSUME NEW n, NEW e \in Events(n), NEW k \in 1..Len(e), k <= MaxEventBytes,
         NEW f \in Fragment, f = e[k], f.kind \in {"part", "comment", "event", "data"},
         Len(e) \in Nat, e \in Seq(Fragment)
  PROVE  /\ k < Len(e)
         /\ (IF f.kind = "data" THEN Append(Held(e, k), f) ELSE Held(e, k)) = Held(e, k + 1)
         /\ f.kind \in {"event", "comment"} => k = 1
<1>1. e \in Pairs \cup Singles \cup Controls \cup Ends(n) \cup {LongFrame, Endless}
  BY EventShapes
<1>2. Append(<<>>, f) = <<f>>
  BY OneAppended
<1>3. Blank.kind = "blank"
  BY DEF Blank, Frag
<1>4. CASE e \in Pairs
  <2>1. ASSUME NEW g, e = <<g, Blank>>, g.kind \in {"comment", "data"}
        PROVE  Len(e) = 2 /\ e[1].kind \in {"comment", "data"} /\ e[2] = Blank
    BY <2>1, PairShape
  <2>2. Len(e) = 2 /\ e[1].kind \in {"comment", "data"} /\ e[2] = Blank
    <3>1. /\ Frag("comment", "").kind \in {"comment", "data"}
          /\ Frag("data", "text").kind \in {"comment", "data"}
          /\ Frag("data", "notUTF8").kind \in {"comment", "data"}
      BY DEF Frag
    <3> QED BY <1>4, <2>1, <3>1 DEF Pairs, Heartbeat, Frame
  <2>3. k = 1
    BY <1>3, <2>2
  <2> QED BY <1>2, <2>2, <2>3 DEF Held
<1>5. CASE e \in Singles
  <2>1. ASSUME NEW g, e = <<g>>, g.kind \in {"blank", "junk", "cr"}
        PROVE  Len(e) = 1 /\ e[1].kind \in {"blank", "junk", "cr"}
    BY <2>1
  <2>2. Len(e) = 1 /\ e[1].kind \in {"blank", "junk", "cr"}
    <3>1. Frag("junk", "").kind = "junk" /\ Frag("cr", "").kind = "cr"
      BY DEF Frag
    <3> QED BY <1>3, <1>5, <2>1, <3>1 DEF Singles
  <2> QED BY <2>2
<1>6. CASE e \in Controls \cup Ends(n)
  <2>1. Len(e) = 3 /\ e[1].kind = "event" /\ e[2].kind = "data" /\ e[3] = Blank
    BY <1>6, TripleShape
  <2>2. k \in {1, 2}
    BY <1>3, <2>1
  <2>3. CASE k = 1
    BY <2>1, <2>3 DEF Held
  <2>4. CASE k = 2
    <3>1. Held(e, 2) = <<>> /\ Held(e, 3) = <<e[2]>>
      BY <2>1 DEF Held
    <3>2. f = e[2] /\ f.kind = "data" /\ k + 1 = 3 /\ k < Len(e)
      BY <2>1, <2>4
    <3>3. Append(Held(e, k), f) = Held(e, k + 1)
      BY <1>2, <2>4, <3>1, <3>2
    <3> QED BY <2>4, <3>2, <3>3
  <2> QED BY <2>2, <2>3, <2>4
<1>7. CASE e = LongFrame
  <2>1. /\ Len(e) = 4 /\ e[1].kind = "part"
        /\ e[2].kind = "data" /\ e[3].kind = "data" /\ e[4] = Blank
    BY <1>7, LongFrameShape DEF Frag
  <2>2. k \in {1, 2, 3}
    BY <1>3, <2>1
  <2>3. CASE k = 1
    BY <2>1, <2>3 DEF Held
  <2>4. CASE k = 2
    <3>1. Held(e, 2) = <<>> /\ Held(e, 3) = <<e[2]>>
      BY <2>1 DEF Held
    <3>2. f = e[2] /\ f.kind = "data" /\ k + 1 = 3 /\ k < Len(e)
      BY <2>1, <2>4
    <3>3. Append(Held(e, k), f) = Held(e, k + 1)
      BY <1>2, <2>4, <3>1, <3>2
    <3> QED BY <2>4, <3>2, <3>3
  <2>5. CASE k = 3
    <3>1. e[2] \in Fragment
      <4>1. 2 \in 1..Len(e)
        BY <2>1
      <4> QED BY <4>1, ElementOfSeq
    <3>2. Append(<<e[2]>>, f) = <<e[2], e[3]>>
      BY <2>5, <3>1, OneAppended
    <3>3. Held(e, 3) = <<e[2]>> /\ Held(e, 4) = <<e[2], e[3]>>
      BY <1>7, <2>1 DEF Held
    <3>4. f.kind = "data" /\ k + 1 = 4 /\ k < Len(e)
      BY <2>1, <2>5
    <3>5. Append(Held(e, k), f) = Held(e, k + 1)
      BY <2>5, <3>2, <3>3, <3>4
    <3> QED BY <2>5, <3>4, <3>5
  <2> QED BY <2>2, <2>3, <2>4, <2>5
<1>8. CASE e = Endless
  <2>1. Len(e) = MaxEventBytes + 1 /\ MaxEventBytes \in Nat
    BY <1>8, EndlessShape, ConstantsAssumption
  <2>2. \A i \in 1..(MaxEventBytes + 1) : e[i].kind = "part"
    BY <1>8, EndlessShape
  <2>3. k < Len(e) /\ f.kind = "part"
    BY <2>1, <2>2
  <2>4. k > 1 => e[k - 1].kind = "part"
    BY <2>1, <2>2
  <2>5. ~(e = LongFrame /\ k = 4) /\ ~(e = LongFrame /\ k = 3)
    <3>1. SUFFICES ASSUME e = LongFrame, k \in {3, 4} PROVE FALSE
      OBVIOUS
    <3>2. LongFrame[2].kind = "data"
      BY LongFrameShape DEF Frag
    <3> QED BY <2>1, <2>2, <3>1, <3>2
  <2>6. Held(e, k) = <<>> /\ Held(e, k + 1) = <<>>
    BY <2>3, <2>4, <2>5 DEF Held
  <2> QED BY <2>3, <2>6
<1> QED BY <1>1, <1>4, <1>5, <1>6, <1>7, <1>8

LEMMA Absorbing ==
  ASSUME NEW a \in Places, Written(a), ev = Assembled(a), a.e[a.k] \in Fragment,
         a.k <= MaxEventBytes, Absorb(a.e[a.k])
  PROVE  a.k < Len(a.e) /\ ev' = Assembled([a EXCEPT !.k = a.k + 1])
<1> DEFINE e == a.e
           k == a.k
           f == e[k]
           b == [a EXCEPT !.k = k + 1]
<1>1. /\ e = a.e /\ k = a.k /\ f = e[k] /\ b = [a EXCEPT !.k = k + 1]
      /\ b.e = e /\ b.k = k + 1
  BY DEF Places
<1> HIDE DEF e, k, f, b
<1>2. k \in 1..Len(e) /\ Len(e) \in Nat /\ e \in Seq(Fragment) /\ k \in Nat
  BY <1>1, LenProperties DEF Places, Written
<1>3. /\ k < Len(e)
      /\ (IF f.kind = "data" THEN Append(Held(e, k), f) ELSE Held(e, k)) = Held(e, k + 1)
      /\ f.kind \in {"event", "comment"} => k = 1
  BY <1>1, <1>2, Grows DEF Written, Absorb
<1>4. ev.event = (IF k > 1 /\ e[1].kind = "event" THEN e[1].says ELSE "")
  BY <1>1 DEF Assembled
<1>5. ev.data = Held(e, k) /\ ev.total = k - 1
  BY <1>1 DEF Assembled
<1>6. ev.comment = (k > 1 /\ e[1].kind = "comment")
  BY <1>1 DEF Assembled
<1>7. (IF f.kind = "event" THEN f.says ELSE ev.event) = IF e[1].kind = "event" THEN e[1].says ELSE ""
  <2>1. CASE f.kind = "event"
    BY <1>1, <1>3, <2>1
  <2>2. CASE f.kind # "event" /\ k > 1
    BY <1>4, <2>2
  <2>3. CASE f.kind # "event" /\ k = 1
    BY <1>1, <1>4, <2>3
  <2>4. k > 1 \/ k = 1
    BY <1>2
  <2> QED BY <2>1, <2>2, <2>3, <2>4
<1>8. (ev.comment \/ f.kind = "comment") = (e[1].kind = "comment")
  <2>1. CASE k > 1
    <3>1. f.kind # "comment"
      BY <1>3, <2>1
    <3> QED BY <1>6, <2>1, <3>1
  <2>2. CASE k = 1
    <3>1. ev.comment = FALSE
      <4>1. ~(k > 1)
        BY <2>2
      <4> QED BY <1>6, <4>1, Zenon
    <3> QED BY <1>1, <2>2, <3>1
  <2> QED BY <1>2, <2>1, <2>2
<1>9. ev.total + 1 = b.k - 1 /\ b.k > 1
  BY <1>1, <1>2, <1>5
<1>10. (IF f.kind = "data" THEN Append(ev.data, f) ELSE ev.data) = Held(b.e, b.k)
  BY <1>1, <1>3, <1>5
<1>11. ev' = [event   |-> IF f.kind = "event" THEN f.says ELSE ev.event,
              data    |-> IF f.kind = "data" THEN Append(ev.data, f) ELSE ev.data,
              comment |-> ev.comment \/ f.kind = "comment",
              total   |-> ev.total + 1]
  BY <1>1 DEF Absorb
<1>12. Assembled(b) = [event   |-> IF e[1].kind = "event" THEN e[1].says ELSE "",
                       data    |-> Held(b.e, b.k),
                       comment |-> e[1].kind = "comment",
                       total   |-> b.k - 1]
  <2>1. (b.k > 1 /\ b.e[1].kind = "comment") = (e[1].kind = "comment")
    <3>1. b.k > 1 /\ b.e = e
      BY <1>1, <1>9
    <3> QED BY <3>1, Zenon
  <2>2. (IF b.k > 1 /\ b.e[1].kind = "event" THEN b.e[1].says ELSE "")
          = (IF e[1].kind = "event" THEN e[1].says ELSE "")
    <3>1. b.k > 1 /\ b.e = e
      BY <1>1, <1>9
    <3> QED BY <3>1, Zenon
  <2> QED BY <2>1, <2>2 DEF Assembled
<1>13. ev' = Assembled(b)
  BY <1>7, <1>8, <1>9, <1>10, <1>11, <1>12
<1> QED BY <1>1, <1>3, <1>13

-----------------------------------------------------------------------------
(* What an event has become by its blank line. *)

\* The first line tells apart what the reader must.
LEMMA FirstLines ==
  /\ Heartbeat[1].kind = "comment" /\ Frame[1].kind = "data" /\ LongFrame[1].kind = "part"
  /\ Control("start", "json")[1].kind = "event" /\ Control("start", "json")[1].says = "start"
  /\ \A n : \A e \in Finals(n) : e[1].kind = "event" /\ e[1].says = "end"
<1>1. Heartbeat[1].kind = "comment" /\ Frame[1].kind = "data"
  BY DEF Heartbeat, Frame, Frag
<1>2. ASSUME NEW n, NEW e \in Finals(n) PROVE e[1].kind = "event" /\ e[1].says = "end"
  <2>1. PICK status : e = Terminal(status, n)
    BY <1>2 DEF Finals
  <2> QED BY <2>1, TerminalShape
<1> QED BY <1>1, <1>2, LongFrameShape, ControlShape

\* How an event that is over changes the server's account of itself.
SentAfter(a)  == IF IsFrame(a.e) /\ a.p = "streaming" THEN a.n + 1 ELSE a.n
PhaseAfter(a) == CASE a.e = Control("start", "json") /\ a.p = "before" -> "streaming"
                   [] a.e \in Finals(a.n) /\ a.p = "streaming"         -> a.e[2].says
                   [] OTHER                                            -> a.p

LEMMA AfterEvent ==
  ASSUME NEW a \in Places
  PROVE  /\ a.e = Heartbeat => SentAfter(a) = a.n /\ PhaseAfter(a) = a.p
         /\ IsFrame(a.e) /\ a.p = "streaming" =>
              SentAfter(a) = a.n + 1 /\ PhaseAfter(a) = "streaming"
         /\ a.e = Control("start", "json") /\ a.p = "before" =>
              SentAfter(a) = a.n /\ PhaseAfter(a) = "streaming"
         /\ \A status \in Verdicts :
              a.e = Terminal(status, a.n) /\ a.p = "streaming" =>
                SentAfter(a) = a.n /\ PhaseAfter(a) = status
<1>1. CASE a.e = Heartbeat
  <2>1. ~IsFrame(a.e) /\ a.e # Control("start", "json") /\ a.e \notin Finals(a.n)
    BY <1>1, FirstLines DEF IsFrame
  <2> QED BY <1>1, <2>1, FirstLines DEF SentAfter, PhaseAfter, IsFrame, Finals
<1>2. ASSUME IsFrame(a.e), a.p = "streaming"
      PROVE  SentAfter(a) = a.n + 1 /\ PhaseAfter(a) = "streaming"
  <2>1. a.e # Control("start", "json") /\ a.e \notin Finals(a.n)
    BY <1>2, FirstLines DEF IsFrame
  <2> QED BY <1>2, <2>1 DEF SentAfter, PhaseAfter
<1>3. ASSUME a.e = Control("start", "json"), a.p = "before"
      PROVE  SentAfter(a) = a.n /\ PhaseAfter(a) = "streaming"
  BY <1>3 DEF SentAfter, PhaseAfter
<1>4. ASSUME NEW status \in Verdicts, a.e = Terminal(status, a.n), a.p = "streaming"
      PROVE  SentAfter(a) = a.n /\ PhaseAfter(a) = status
  <2>1. a.e \in Finals(a.n) /\ a.e[2].says = status
    BY <1>4, TerminalShape DEF Finals
  <2>2. ~IsFrame(a.e)
    BY <2>1, FirstLines DEF IsFrame
  <2> QED BY <1>4, <2>1, <2>2 DEF SentAfter, PhaseAfter
<1>5. a.e = Heartbeat => SentAfter(a) = a.n /\ PhaseAfter(a) = a.p
  BY <1>1, FirstLines DEF IsFrame, SentAfter, PhaseAfter
<1> QED BY <1>2, <1>3, <1>4, <1>5

Text == Frag("data", "text")

\* The events that end in a blank line, and what the reader then holds of each.
Completed(a) ==
  \/ a.e = Heartbeat /\ ev.event = "" /\ ev.data = <<>> /\ ev.comment
  \/ a.e = Frame /\ ev.event = "" /\ ev.data = <<Text>>
  \/ a.e = LongFrame /\ ev.event = "" /\ ev.data = <<Text, Text>>
  \/ a.e = <<Blank>> /\ ev.event = "" /\ ev.data = <<>> /\ ~ev.comment
  \/ /\ a.e = <<Frag("data", "notUTF8"), Blank>>
     /\ ev.event = "" /\ ev.data = <<Frag("data", "notUTF8")>>
  \/ a.e \in Controls /\ ev.event = a.e[1].says /\ ev.data = <<a.e[2]>>
  \/ a.e \in Ends(a.n) /\ ev.event = "end" /\ ev.data = <<a.e[2]>>

LEMMA BlankCompletes ==
  ASSUME NEW a \in Places, Written(a), ev = Assembled(a), a.e[a.k].kind = "blank"
  PROVE  a.k = Len(a.e) /\ Completed(a)
<1> DEFINE e == a.e
           k == a.k
<1>0. e = a.e /\ k = a.k
  OBVIOUS
<1>1. e \in Pairs \cup Singles \cup Controls \cup Ends(a.n) \cup {LongFrame, Endless}
  BY EventShapes DEF Written
<1>2. k \in 1..Len(e) /\ Len(e) \in Nat /\ e[k].kind = "blank"
  BY LenProperties DEF Places, Written
<1>3. /\ ev.event = IF k > 1 /\ e[1].kind = "event" THEN e[1].says ELSE ""
      /\ ev.data = Held(e, k) /\ ev.comment = (k > 1 /\ e[1].kind = "comment")
  BY DEF Assembled
<1> HIDE DEF e, k
<1>4. CASE e \in Pairs
  <2>1. ASSUME NEW g, e = <<g, Blank>>, g.kind \in {"comment", "data"}
        PROVE  /\ k = 2 /\ Len(e) = 2 /\ ev.event = ""
               /\ ev.data = (IF g.kind = "data" THEN <<g>> ELSE <<>>)
               /\ g.kind = "comment" => ev.comment
    <3>1. Len(e) = 2 /\ e[1] = g /\ e[2] = Blank
      BY <2>1, PairShape
    <3>2. k = 2
      <4>1. k = 1 \/ k = 2
        BY <1>2, <3>1
      <4> QED BY <1>2, <2>1, <3>1, <4>1
    <3>3. ev.event = ""
      BY <1>3, <2>1, <3>1
    <3>4. ev.data = (IF g.kind = "data" THEN <<g>> ELSE <<>>)
      <4>1. Held(e, 2) = IF e[1].kind = "data" THEN <<e[1]>> ELSE <<>>
        BY DEF Held
      <4>2. ev.data = Held(e, 2)
        BY <1>3, <3>2
      <4> QED BY <3>1, <4>1, <4>2
    <3>5. g.kind = "comment" => ev.comment
      <4>1. k > 1
        BY <3>2
      <4> QED BY <1>3, <3>1, <4>1, Zenon
    <3> QED BY <3>1, <3>2, <3>3, <3>4, <3>5
  <2>2. CASE e = Heartbeat
    <3>1. e = <<Frag("comment", ""), Blank>> /\ Frag("comment", "").kind = "comment"
      BY <2>2 DEF Heartbeat, Frag
    <3> QED BY <1>0, <2>1, <2>2, <3>1 DEF Completed
  <2>3. CASE e = Frame
    <3>1. e = <<Text, Blank>> /\ Text.kind = "data"
      BY <2>3 DEF Frame, Text, Frag
    <3> QED BY <1>0, <2>1, <2>3, <3>1 DEF Completed
  <2>4. CASE e = <<Frag("data", "notUTF8"), Blank>>
    <3>1. Frag("data", "notUTF8").kind = "data"
      BY DEF Frag
    <3> QED BY <1>0, <2>1, <2>4, <3>1 DEF Completed
  <2> QED BY <1>4, <2>2, <2>3, <2>4 DEF Pairs
<1>5. CASE e \in Singles
  <2>1. ASSUME NEW g, e = <<g>> PROVE k = 1 /\ Len(e) = 1 /\ g.kind = "blank"
    BY <1>2, <2>1
  <2>2. e = <<Blank>>
    <3>1. Frag("junk", "").kind = "junk" /\ Frag("cr", "").kind = "cr"
      BY DEF Frag
    <3> QED BY <1>5, <2>1, <3>1 DEF Singles
  <2>3. k = 1 /\ Len(e) = 1
    BY <2>1, <2>2
  <2>4. ev.event = "" /\ ev.data = <<>>
    <3>1. Held(e, 1) = <<>> /\ ~(1 > 1)
      BY DEF Held
    <3> QED BY <1>3, <2>3, <3>1
  <2>5. ~ev.comment
    <3>1. ~(k > 1)
      BY <2>3
    <3> QED BY <1>3, <3>1, Zenon
  <2> QED BY <1>0, <2>2, <2>3, <2>4, <2>5 DEF Completed
<1>6. CASE e \in Controls \cup Ends(a.n)
  <2>1. Len(e) = 3 /\ e[1].kind = "event" /\ e[2].kind = "data" /\ e[3] = Blank
    BY <1>6, TripleShape
  <2>2. k = 3
    <3>1. k = 1 \/ k = 2 \/ k = 3
      BY <1>2, <2>1
    <3> QED BY <1>2, <2>1, <3>1
  <2>3. ev.event = e[1].says /\ ev.data = <<e[2]>>
    BY <1>3, <2>1, <2>2 DEF Held
  <2>4. e \in Ends(a.n) => e[1].says = "end"
    <3>1. ASSUME e \in Ends(a.n) PROVE e[1].says = "end"
      <4>1. PICK status, m : e = Terminal(status, m)
        BY <3>1 DEF Ends, Finals
      <4> QED BY <4>1, TerminalShape
    <3> QED BY <3>1
  <2> QED BY <1>0, <1>6, <2>1, <2>2, <2>3, <2>4 DEF Completed
<1>7. CASE e = LongFrame
  <2>1. /\ Len(e) = 4 /\ e[1].kind = "part"
        /\ e[2] = Text /\ e[3] = Text /\ Text.kind = "data"
    BY <1>7, LongFrameShape DEF Frag, Text
  <2>2. k = 4
    <3>1. k = 1 \/ k = 2 \/ k = 3 \/ k = 4
      BY <1>2, <2>1
    <3> QED BY <1>2, <2>1, <3>1
  <2>3. ev.event = "" /\ ev.data = <<Text, Text>>
    BY <1>3, <1>7, <2>1, <2>2 DEF Held
  <2> QED BY <1>0, <1>7, <2>1, <2>2, <2>3 DEF Completed
<1>8. CASE e = Endless
  <2>1. e[k].kind = "part"
    BY <1>2, <1>8, EndlessShape
  <2> QED BY <1>2, <2>1
<1> QED BY <1>1, <1>4, <1>5, <1>6, <1>7, <1>8

\* The events of the contract, when n frames have been written.
LegalAt(n) == {Heartbeat, Frame, LongFrame, Control("start", "json")} \cup Finals(n)

\* What the reader takes an event for is what it is.
Understood(a) ==
  /\ ev.data = <<>> /\ ev.event = "" /\ ev.comment => a.e = Heartbeat
  /\ Event /\ ev.event = "" => IsFrame(a.e)
  /\ ev.event = "start" /\ Payload.says = "json" => a.e = Control("start", "json")
  /\ ev.event = "end" /\ Payload.says \in Verdicts =>
       a.e = Terminal(Payload.says, a.n) /\ Payload.frames = a.n

\* What the contract allows is understood.
Readable(a) ==
  a.e \in LegalAt(a.n) =>
    /\ ~Unreadable
    /\ \/ a.e = Heartbeat /\ ~Event
       \/ IsFrame(a.e) /\ ev.event = ""
       \/ a.e = Control("start", "json") /\ ev.event = "start" /\ Payload.says = "json"
       \/ a.e \in Finals(a.n) /\ ev.event = "end" /\ Payload.says \in Verdicts

LEMMA OnePayload ==
  ASSUME NEW x, ev.data = <<x>>
  PROVE  Payload = x /\ (Says("notUTF8") <=> x.says = "notUTF8") /\ ev.data # <<>>
<1>1. Len(ev.data) = 1 /\ ev.data[1] = x /\ DOMAIN ev.data = {1}
  OBVIOUS
<1>2. ev.data # <<>>
  BY <1>1
<1> QED BY <1>1, <1>2 DEF Payload, Says

LEMMA CompletedIsUnderstood ==
  ASSUME NEW a \in Places, Completed(a)
  PROVE  Understood(a) /\ Readable(a)
<1>0. Text.says = "text"
  BY DEF Text, Frag
<1>1. CASE a.e = Heartbeat /\ ev.event = "" /\ ev.data = <<>> /\ ev.comment
  <2>1. ~Says("notUTF8")
    <3>1. DOMAIN ev.data = {}
      <4>1. <<>> \in Seq({}) /\ Len(<<>>) = 0
        BY EmptySeq
      <4>2. DOMAIN <<>> = 1..0
        BY <4>1, LenProperties
      <4>3. 1..0 = {}
        OBVIOUS
      <4> QED BY <1>1, <4>2, <4>3, Zenon
    <3> QED BY <3>1 DEF Says
  <2>2. ~Unreadable /\ ~Event
    BY <1>1, <2>1 DEF Unreadable, Event
  <2> QED BY <1>1, <2>2 DEF Understood, Readable
<1>2. CASE a.e = Frame /\ ev.event = "" /\ ev.data = <<Text>>
  <2>1. ev.data # <<>> /\ ~Says("notUTF8")
    BY <1>0, <1>2, OnePayload
  <2>2. ~Unreadable /\ IsFrame(a.e)
    BY <1>2, <2>1 DEF Unreadable, IsFrame
  <2> QED BY <1>2, <2>1, <2>2 DEF Understood, Readable
<1>3. CASE a.e = LongFrame /\ ev.event = "" /\ ev.data = <<Text, Text>>
  <2>1. ev.data # <<>> /\ ~Says("notUTF8")
    <3>1. /\ Len(ev.data) = 2 /\ DOMAIN ev.data = {1, 2}
          /\ ev.data[1] = Text /\ ev.data[2] = Text
      <4>1. <<Text, Text>> \in Seq({Text}) /\ Len(<<Text, Text>>) = 2
        OBVIOUS
      <4>2. <<Text, Text>>[1] = Text /\ <<Text, Text>>[2] = Text
        OBVIOUS
      <4>3. DOMAIN <<Text, Text>> = 1..2
        BY <4>1, LenProperties
      <4>4. 1..2 = {1, 2}
        OBVIOUS
      <4> QED BY <1>3, <4>1, <4>2, <4>3, <4>4, Zenon
    <3>2. ev.data # <<>>
      BY <3>1
    <3> QED BY <1>0, <3>1, <3>2 DEF Says
  <2>2. ~Unreadable /\ IsFrame(a.e)
    BY <1>3, <2>1 DEF Unreadable, IsFrame
  <2> QED BY <1>3, <2>1, <2>2 DEF Understood, Readable
<1>4. CASE a.e = <<Blank>> /\ ev.event = "" /\ ev.data = <<>> /\ ~ev.comment
  <2>1. ~Event
    BY <1>4 DEF Event
  <2>2. a.e \notin LegalAt(a.n)
    <3>1. a.e[1].kind = "blank"
      <4>1. <<Blank>>[1] = Blank /\ Blank.kind = "blank"
        BY DEF Blank, Frag
      <4> QED BY <1>4, <4>1
    <3> QED BY <3>1, FirstLines DEF LegalAt
  <2> QED BY <1>4, <2>1, <2>2 DEF Understood, Readable
<1>5. CASE /\ a.e = <<Frag("data", "notUTF8"), Blank>>
           /\ ev.event = "" /\ ev.data = <<Frag("data", "notUTF8")>>
  <2>1. ev.data # <<>> /\ Says("notUTF8")
    <3>1. Frag("data", "notUTF8").says = "notUTF8"
      BY DEF Frag
    <3> QED BY <1>5, <3>1, OnePayload
  <2>2. ~Event
    BY <2>1 DEF Event, Unreadable
  <2>3. a.e \notin LegalAt(a.n)
    <3>1. a.e[1].kind = "data" /\ a.e[1].says = "notUTF8"
      <4>1. Frag("data", "notUTF8").kind = "data" /\ Frag("data", "notUTF8").says = "notUTF8"
        BY DEF Frag
      <4> QED BY <1>5, <4>1, PairShape
    <3>2. a.e # Frame
      BY <3>1 DEF Frame, Frag
    <3> QED BY <3>1, <3>2, FirstLines DEF LegalAt
  <2> QED BY <1>5, <2>1, <2>2, <2>3 DEF Understood, Readable
<1>6. CASE a.e \in Controls /\ ev.event = a.e[1].says /\ ev.data = <<a.e[2]>>
  <2>1. PICK name, data : /\ a.e = Control(name, data) /\ name \in {"start", "other"}
                          /\ data \in {"text", "json"}
    BY <1>6 DEF Controls
  <2>2. /\ a.e[1].kind = "event" /\ a.e[1].says = name /\ a.e[2].says = data
        /\ ev.event = name /\ Payload.says = data
    <3>1. Frag("data", data).says = data
      BY DEF Frag
    <3> QED BY <1>6, <2>1, <3>1, ControlShape, OnePayload
  <2>3. ~Unreadable
    BY <1>6, <2>1, <2>2, OnePayload DEF Unreadable
  <2>4. a.e \in LegalAt(a.n) => a.e = Control("start", "json")
    BY <2>1, <2>2, FirstLines DEF LegalAt
  <2>5. Understood(a)
    BY <1>6, <2>1, <2>2, OnePayload DEF Understood
  <2>6. Readable(a)
    <3>1. a.e = Control("start", "json") => name = "start" /\ data = "json"
      <4>1. Control("start", "json")[2].says = "json"
        <5>1. Frag("data", "json").says = "json"
          BY DEF Frag
        <5> QED BY <5>1, ControlShape
      <4> QED BY <2>2, <4>1, FirstLines
    <3> QED BY <2>2, <2>3, <2>4, <3>1 DEF Readable
  <2> QED BY <2>5, <2>6
<1>7. CASE a.e \in Ends(a.n) /\ ev.event = "end" /\ ev.data = <<a.e[2]>>
  <2>1. PICK status, m : /\ a.e = Terminal(status, m)
                         /\ \/ status \in Verdicts /\ m = a.n
                            \/ status \in {"malformed", "errorWithoutObject", "otherStatus"}
    BY <1>7 DEF Ends, Finals
  <2>2. a.e[1].says = "end" /\ Payload.says = status /\ Payload.frames = m
    BY <1>7, <2>1, TerminalShape, OnePayload
  <2>3. ~Unreadable
    <3>1. status # "notUTF8"
      BY <2>1 DEF Verdicts
    <3>2. a.e[2].says = status
      BY <2>1, TerminalShape
    <3> QED BY <1>7, <3>1, <3>2, OnePayload DEF Unreadable
  <2>4. status \in Verdicts => m = a.n
    BY <2>1 DEF Verdicts
  <2>5. Understood(a)
    BY <1>7, <2>1, <2>2, <2>4, OnePayload DEF Understood
  <2>6. a.e \in LegalAt(a.n) => a.e \in Finals(a.n) /\ status \in Verdicts
    <3>1. a.e[1].kind = "event" /\ a.e[2].says = status
      BY <2>1, TerminalShape
    <3>2. a.e \in LegalAt(a.n) => a.e \in Finals(a.n)
      BY <2>2, <3>1, FirstLines DEF LegalAt
    <3>3. ASSUME a.e \in Finals(a.n) PROVE status \in Verdicts
      <4>1. PICK v \in Verdicts : a.e = Terminal(v, a.n)
        BY <3>3 DEF Finals
      <4> QED BY <3>1, <4>1, TerminalShape
    <3> QED BY <3>2, <3>3
  <2>7. Readable(a)
    BY <1>7, <2>2, <2>3, <2>6 DEF Readable
  <2> QED BY <2>5, <2>7
<1> QED BY <1>1, <1>2, <1>3, <1>4, <1>5, <1>6, <1>7 DEF Completed

-----------------------------------------------------------------------------
(* The wire as a tape of places. *)

\* The next place: within the event, or the beginning of the one after it.
Follows(a, b) ==
  IF a.k < Len(a.e)
    THEN b = [a EXCEPT !.k = a.k + 1]
    ELSE b.k = 1 /\ b.n = SentAfter(a) /\ b.p = PhaseAfter(a)

\* The event was in order when it was written.
InOrderAt(a) ==
  /\ a.e \in LegalAt(a.n)
  /\ a.p \in {"before", "streaming"}
  /\ a.e = Control("start", "json") => a.p = "before"
  /\ IsFrame(a.e) \/ a.e \in Finals(a.n) => a.p = "streaming"

\* st gives each fragment in flight its place, and the place of the one after them.
\* No place is further than the server, and a verdict on the tape is the server's.
Tape(st) ==
  /\ st \in [1..(Len(wire) + 1) -> Places]
  /\ \A i \in 1..Len(wire) :
       /\ Written(st[i]) /\ wire[i] = st[i].e[st[i].k]
       /\ Follows(st[i], st[i + 1])
       /\ ~broken => InOrderAt(st[i])
  /\ \A i \in 1..(Len(wire) + 1) :
       /\ st[i].n <= sent
       /\ st[i].p \in Verdicts => phase = st[i].p /\ sent = st[i].n
  /\ link = "open" =>
       /\ st[Len(wire) + 1].k = 1
       /\ st[Len(wire) + 1].n = sent /\ st[Len(wire) + 1].p = phase

LEMMA NoEmptyEvent == ASSUME NEW n, NEW e \in Events(n) PROVE Len(e) >= 1
<1>1. e \in Pairs \cup Singles \cup Controls \cup Ends(n) \cup {LongFrame, Endless}
  BY EventShapes
<1>2. CASE e \in Pairs
  <2>1. PICK f : e = <<f, Blank>>
    BY <1>2 DEF Pairs, Heartbeat, Frame
  <2>2. Len(e) = 2
    BY <2>1, PairShape
  <2> QED BY <2>2
<1>3. CASE e \in Singles
  <2>1. ASSUME NEW f PROVE Len(<<f>>) = 1
    OBVIOUS
  <2>2. Len(e) = 1
    BY <1>3, <2>1, Zenon DEF Singles
  <2> QED BY <2>2
<1>4. CASE e \in Controls \cup Ends(n)
  BY <1>4, TripleShape
<1>5. CASE e \in {LongFrame, Endless}
  <2>1. Len(LongFrame) >= 1
    BY LongFrameShape
  <2>2. Len(Endless) >= 1
    BY EndlessShape, ConstantsAssumption
  <2> QED BY <1>5, <2>1, <2>2
<1> QED BY <1>1, <1>2, <1>3, <1>4, <1>5

LEMMA TapeStands ==
  ASSUME NEW st, Tape(st), UNCHANGED <<wire, link, phase, sent, broken>>
  PROVE  Tape(st)'
BY DEF Tape

\* What is lost with the connection is lost from the end of the tape.
LEMMA TapeCut ==
  ASSUME TypeOK, NEW st, Tape(st), Disconnect
  PROVE  \E ts : Tape(ts)' /\ ts[1] = st[1]
<1>1. PICK n \in 0..Len(wire) : wire' = SubSeq(wire, 1, n)
  BY DEF Disconnect
<1>2. wire \in Seq(Fragment) /\ Len(wire) \in Nat
  BY LenProperties DEF TypeOK
<1>3. Len(wire') = n /\ \A i \in 1..n : wire'[i] = wire[i]
  BY <1>1, <1>2
<1> DEFINE ts == [i \in 1..(n + 1) |-> st[i]]
<1>4. link' # "open" /\ UNCHANGED <<phase, sent, broken>>
  BY DEF Disconnect, server
<1>5. \A i \in 1..(n + 1) : ts[i] = st[i] /\ i \in 1..(Len(wire) + 1)
  BY <1>2
<1>6. ts \in [1..(n + 1) -> Places] /\ 1 \in 1..(n + 1)
  BY <1>5 DEF Tape
<1> HIDE DEF ts
<1>7. \A i \in 1..n : i \in 1..Len(wire) /\ i \in 1..(n + 1) /\ i + 1 \in 1..(n + 1)
  BY <1>2
<1>8. Tape(ts)'
  BY <1>3, <1>4, <1>5, <1>6, <1>7 DEF Tape
<1> QED BY <1>5, <1>6, <1>8

\* What is read is gone from its beginning.
LEMMA TapeTaken ==
  ASSUME TypeOK, NEW st, Tape(st), wire # <<>>, wire' = Tail(wire),
         UNCHANGED <<link, phase, sent, broken>>
  PROVE  \E ts : Tape(ts)' /\ ts[1] = st[2]
<1>1. PICK L \in Nat : L = Len(wire) /\ L >= 1
  BY LenProperties, EmptySeq DEF TypeOK
<1>2. /\ Len(wire') = L - 1 /\ Len(wire') + 1 = L
      /\ \A i \in 1..(L - 1) : wire'[i] = wire[i + 1]
  BY <1>1, HeadTailProperties DEF TypeOK
<1> DEFINE ts == [i \in 1..L |-> st[i + 1]]
<1>3. \A i \in 1..L : ts[i] = st[i + 1] /\ i + 1 \in 1..(L + 1)
  BY <1>1
<1>4. ts \in [1..(Len(wire') + 1) -> Places] /\ ts[1] = st[2]
  BY <1>1, <1>2, <1>3 DEF Tape
<1> HIDE DEF ts
<1>5. \A i \in 1..(L - 1) :
        /\ i \in 1..L /\ i + 1 \in 1..L
        /\ ts[i] = st[i + 1] /\ ts[i + 1] = st[(i + 1) + 1]
  BY <1>1, <1>3
<1>6. \A i \in 1..(L - 1) :
        /\ Written(ts[i]) /\ wire'[i] = ts[i].e[ts[i].k]
        /\ Follows(ts[i], ts[i + 1])
        /\ ~broken' => InOrderAt(ts[i])
  BY <1>1, <1>2, <1>5 DEF Tape
<1>7. \A i \in 1..L : /\ ts[i].n <= sent'
                      /\ ts[i].p \in Verdicts => phase' = ts[i].p /\ sent' = ts[i].n
  BY <1>1, <1>3 DEF Tape
<1>8. link' = "open" => ts[L].k = 1 /\ ts[L].n = sent' /\ ts[L].p = phase'
  <2>1. ts[L] = st[L + 1]
    BY <1>1, <1>3
  <2> QED BY <1>1, <2>1 DEF Tape
<1>9. Tape(ts)'
  BY <1>2, <1>4, <1>6, <1>7, <1>8 DEF Tape
<1> QED BY <1>4, <1>9

\* What the server writes goes on the end of the tape.
LEMMA TapeGrows ==
  ASSUME TypeOK, TypeOK', NEW st, Tape(st), NEW e \in Legal \cup Broken, Write(e)
  PROVE  \E ts : /\ Tape(ts)'
                 /\ \/ ts[1] = st[1]
                    \/ /\ ts[1].k = 1 /\ st[1].k = 1
                       /\ ts[1].n = st[1].n /\ ts[1].p = st[1].p
<1>0. PICK L \in Nat, M \in Nat : L = Len(wire) /\ M = Len(e)
  BY LenProperties, WritesFragments DEF TypeOK
<1>1. PICK n, p, m, q :
        /\ L = Len(wire) /\ M = Len(e)
        /\ n = sent /\ p = phase /\ m = sent' /\ q = phase'
  BY <1>0
<1> DEFINE At(k) == [e |-> e, k |-> k, n |-> n, p |-> p]
           next  == [e |-> e, k |-> 1, n |-> m, p |-> q]
           ts == [i \in 1..(L + M + 1) |-> IF i <= L THEN st[i]
                                           ELSE IF i <= L + M THEN At(i - L)
                                           ELSE next]
<1>2. M >= 1 /\ e \in Events(n) /\ e \in Seq(Fragment)
  <2>1. e \in Events(n)
    BY <1>1 DEF Legal, Broken, Events, Finals, Verdicts
  <2> QED BY <1>1, <2>1, NoEmptyEvent, WritesFragments DEF TypeOK
<1>3. /\ wire' = wire \o e /\ link' = "open" /\ link = "open"
      /\ broken' = (broken \/ ~InOrder(e))
      /\ m = IF IsFrame(e) /\ p = "streaming" THEN n + 1 ELSE n
      /\ q = CASE e = Control("start", "json") /\ p = "before" -> "streaming"
               [] IsTerminal(e) /\ p = "streaming"             -> e[2].says
               [] OTHER                                        -> p
  BY <1>1 DEF Write
<1>4. /\ Len(wire') = L + M
      /\ \A i \in 1..L : wire'[i] = wire[i]
      /\ \A i \in (L + 1)..(L + M) : wire'[i] = e[i - L]
  BY <1>1, <1>2, <1>3, ConcatProperties DEF TypeOK
<1>5. n \in Nat /\ m \in Nat /\ {p, q} \subseteq {"before", "streaming", "success", "error"}
  BY <1>1 DEF TypeOK
<1>6. \A k \in 1..M : /\ At(k) \in Places /\ SentAfter(At(k)) = m /\ PhaseAfter(At(k)) = q
                      /\ Written(At(k))
  <2>1. IsTerminal(e) <=> e \in Finals(n)
    BY <1>1 DEF IsTerminal, Finals, Verdicts
  <2>2. ASSUME NEW k \in 1..M PROVE At(k) \in Places
    BY <1>1, <1>2, <1>5, <2>2 DEF Places
  <2>3. ASSUME NEW k \in 1..M PROVE SentAfter(At(k)) = m /\ PhaseAfter(At(k)) = q
    BY <1>3, <2>1 DEF SentAfter, PhaseAfter
  <2>4. ASSUME NEW k \in 1..M PROVE Written(At(k))
    BY <1>1, <1>2 DEF Written
  <2> QED BY <2>2, <2>3, <2>4
<1>7. next \in Places /\ next.k = 1 /\ next.n = m /\ next.p = q
  BY <1>2, <1>5 DEF Places
<1>8. \A k \in 1..M : At(k).e = e /\ At(k).k = k /\ At(k).n = n /\ At(k).p = p
  OBVIOUS
<1>9. \A k \in 1..M : At(k + 1) = [At(k) EXCEPT !.k = k + 1]
  OBVIOUS
<1>10. /\ \A i \in 1..L : ts[i] = st[i]
       /\ \A i \in (L + 1)..(L + M) : ts[i] = At(i - L) /\ i - L \in 1..M
       /\ ts[L + M + 1] = next
       /\ ts = [i \in 1..(L + M + 1) |-> ts[i]]
  BY <1>1
<1> HIDE DEF At, next, ts
<1>11. \A i \in 1..(L + M + 1) : i \in 1..L \/ i \in (L + 1)..(L + M) \/ i = L + M + 1
  OBVIOUS
<1>12. ts[L + 1] = At(1)
  <2>1. L + 1 \in (L + 1)..(L + M) /\ (L + 1) - L = 1
    BY <1>1, <1>2
  <2> QED BY <1>10, <2>1
<1>13. \A i \in 1..L : /\ st[i] \in Places /\ Written(st[i]) /\ wire[i] = st[i].e[st[i].k]
                       /\ Follows(st[i], st[i + 1])
                       /\ ~broken => InOrderAt(st[i])
                       /\ st[i].n <= n
                       /\ st[i].p \in Verdicts => p = st[i].p /\ n = st[i].n
  BY <1>1 DEF Tape
<1>14. st[L + 1].k = 1 /\ st[L + 1].n = n /\ st[L + 1].p = p
  BY <1>1, <1>3 DEF Tape
<1>15. \A i \in 1..(L + M + 1) : ts[i] \in Places
  BY <1>6, <1>7, <1>10, <1>11, <1>13
<1>16. \A i \in 1..(L + M) : Follows(ts[i], ts[i + 1])
  <2>1. ASSUME NEW i \in 1..L, i # L PROVE Follows(ts[i], ts[i + 1])
    <3>1. i + 1 \in 1..L
      BY <2>1
    <3> QED BY <1>10, <1>13, <3>1
  <2>2. ASSUME L >= 1 PROVE Follows(ts[L], ts[L + 1])
    <3>1. L \in 1..L
      BY <2>2
    <3>2. ~(st[L].k < Len(st[L].e))
      <4>1. SUFFICES ASSUME st[L].k < Len(st[L].e) PROVE FALSE
        OBVIOUS
      <4>2. st[L + 1] = [st[L] EXCEPT !.k = st[L].k + 1]
        BY <1>13, <3>1, <4>1 DEF Follows
      <4>3. st[L].k \in Nat \ {0} /\ st[L + 1].k = st[L].k + 1
        BY <1>13, <3>1, <4>2 DEF Places
      <4> QED BY <1>14, <4>3
    <3>3. n = SentAfter(st[L]) /\ p = PhaseAfter(st[L])
      BY <1>13, <1>14, <3>1, <3>2 DEF Follows
    <3>4. At(1).k = 1 /\ At(1).n = n /\ At(1).p = p
      BY <1>2, <1>8
    <3>5. Follows(st[L], At(1))
      BY <3>2, <3>3, <3>4 DEF Follows
    <3> QED BY <1>10, <1>12, <3>1, <3>5
  <2>3. ASSUME NEW i \in (L + 1)..(L + M), i # L + M PROVE Follows(ts[i], ts[i + 1])
    <3>1. PICK k \in 1..M : k = i - L /\ k < M /\ k + 1 = (i + 1) - L /\ i + 1 \in (L + 1)..(L + M)
      BY <2>3
    <3>2. ts[i] = At(k) /\ ts[i + 1] = At(k + 1)
      BY <1>10, <3>1
    <3>3. At(k).e = e /\ At(k).k = k /\ At(k + 1) = [At(k) EXCEPT !.k = At(k).k + 1]
      BY <1>8, <1>9
    <3> QED BY <1>1, <3>1, <3>2, <3>3 DEF Follows
  <2>4. Follows(ts[L + M], ts[L + M + 1])
    <3>1. L + M \in (L + 1)..(L + M) /\ (L + M) - L = M /\ M \in 1..M
      BY <1>2
    <3>2. ts[L + M] = At(M) /\ ts[L + M + 1] = next
      BY <1>10, <3>1
    <3>3. At(M).e = e /\ At(M).k = M /\ SentAfter(At(M)) = m /\ PhaseAfter(At(M)) = q
      BY <1>6, <1>8, <3>1
    <3> QED BY <1>1, <1>7, <3>2, <3>3 DEF Follows
  <2>5. \A i \in 1..(L + M) : \/ i \in 1..L /\ i # L
                              \/ i = L /\ L >= 1
                              \/ i \in (L + 1)..(L + M) /\ i # L + M
                              \/ i = L + M
    OBVIOUS
  <2> QED BY <2>1, <2>2, <2>3, <2>4, <2>5
<1>17. \A i \in 1..(L + M) : Written(ts[i]) /\ wire'[i] = ts[i].e[ts[i].k]
  <2>1. ASSUME NEW i \in 1..L PROVE Written(ts[i]) /\ wire'[i] = ts[i].e[ts[i].k]
    BY <1>4, <1>10, <1>13
  <2>2. ASSUME NEW i \in (L + 1)..(L + M) PROVE Written(ts[i]) /\ wire'[i] = ts[i].e[ts[i].k]
    <3>1. PICK k \in 1..M : k = i - L /\ ts[i] = At(k)
      BY <1>10
    <3> QED BY <1>4, <1>6, <1>8, <3>1
  <2>3. \A i \in 1..(L + M) : i \in 1..L \/ i \in (L + 1)..(L + M)
    OBVIOUS
  <2> QED BY <2>1, <2>2, <2>3
<1>18. \A i \in 1..(L + M) : ~broken' => InOrderAt(ts[i])
  <2>1. ASSUME NEW k \in 1..M, InOrder(e) PROVE InOrderAt(At(k))
    <3>1. IsTerminal(e) <=> e \in Finals(n)
      BY <1>1 DEF IsTerminal, Finals, Verdicts
    <3>2. e \in LegalAt(n)
      BY <1>1, <2>1 DEF InOrder, Legal, LegalAt, Finals, Verdicts
    <3> QED BY <1>1, <1>8, <2>1, <3>1, <3>2 DEF InOrder, InOrderAt
  <2>2. ~broken' => ~broken /\ InOrder(e)
    BY <1>3
  <2>3. \A i \in 1..(L + M) : i \in 1..L \/ i \in (L + 1)..(L + M)
    OBVIOUS
  <2> QED BY <1>10, <1>13, <2>1, <2>2, <2>3
<1>19. \A i \in 1..(L + M + 1) : ts[i].p \in Verdicts => q = ts[i].p /\ m = ts[i].n
  <2>1. p \in Verdicts => q = p /\ m = n
    BY <1>3 DEF Verdicts
  <2>2. \A i \in 1..L : st[i].p \in Verdicts => q = st[i].p /\ m = st[i].n
    BY <1>13, <2>1
  <2>3. \A k \in 1..M : At(k).p \in Verdicts => q = At(k).p /\ m = At(k).n
    BY <1>8, <2>1
  <2>4. next.p \in Verdicts => q = next.p /\ m = next.n
    BY <1>7
  <2> QED BY <1>10, <1>11, <2>2, <2>3, <2>4, Zenon
<1>20. \A i \in 1..(L + M + 1) : ts[i].n <= m
  <2>1. n <= m
    BY <1>3, <1>5
  <2>2. \A i \in 1..L : st[i].n \in Nat /\ st[i].n <= m
    BY <1>5, <1>13, <2>1 DEF Places
  <2>3. \A k \in 1..M : At(k).n <= m
    BY <1>8, <2>1
  <2>4. next.n <= m
    BY <1>5, <1>7
  <2> QED BY <1>10, <1>11, <2>2, <2>3, <2>4, Zenon
<1>21. Tape(ts)'
  <2>1. ts \in [1..(Len(wire') + 1) -> Places]
    BY <1>4, <1>10, <1>15
  <2>2. link' = "open" =>
          /\ ts[Len(wire') + 1].k = 1
          /\ ts[Len(wire') + 1].n = sent' /\ ts[Len(wire') + 1].p = phase'
    BY <1>1, <1>4, <1>7, <1>10
  <2>3. \A i \in 1..Len(wire') :
          /\ Written(ts[i]) /\ wire'[i] = ts[i].e[ts[i].k]
          /\ Follows(ts[i], ts[i + 1])
          /\ ~broken' => InOrderAt(ts[i])
    BY <1>4, <1>16, <1>17, <1>18
  <2>4. \A i \in 1..(Len(wire') + 1) :
          /\ ts[i].n <= sent'
          /\ ts[i].p \in Verdicts => phase' = ts[i].p /\ sent' = ts[i].n
    BY <1>1, <1>4, <1>19, <1>20
  <2> QED BY <2>1, <2>2, <2>3, <2>4 DEF Tape
<1>22. CASE L >= 1
  <2>1. 1 \in 1..L
    BY <1>22
  <2> QED BY <1>10, <1>21, <2>1
<1>23. CASE L = 0
  <2>1. ts[1].k = 1 /\ ts[1].n = n /\ ts[1].p = p
    BY <1>2, <1>8, <1>12, <1>23
  <2>2. st[1].k = 1 /\ st[1].n = n /\ st[1].p = p
    BY <1>14, <1>23
  <2> QED BY <1>21, <2>1, <2>2
<1> QED BY <1>22, <1>23

-----------------------------------------------------------------------------
(* The reader and the tape. *)

\* While the stream is read, the reader is where the tape begins: it holds what
\* came before that place, has handed out every frame the server had written by
\* then, and is as far as the server's protocol was.
ReaderAt(a) ==
  pc \in {"invoke", "start", "ready", "next"} /\ ~done =>
    /\ ev = Assembled(a) /\ received = a.n /\ err = "none"
    /\ a.p = IF pc \in {"invoke", "start"} THEN "before" ELSE "streaming"
    /\ pc \in {"invoke", "ready"} => a.k = 1

\* The longest frame of the contract fits the cap.
CapFits == MaxEventBytes >= Len(LongFrame)

LEMMA LegalEvents ==
  ASSUME NEW n, NEW e \in LegalAt(n)
  PROVE  /\ Len(e) <= Len(LongFrame)
         /\ \A i \in 1..Len(e) : e[i].kind \notin {"junk", "cr"}
<1>1. Blank.kind = "blank"
  BY DEF Blank, Frag
<1>2. CASE e \in {Heartbeat, Frame}
  <2>1. PICK f : e = <<f, Blank>> /\ f.kind \in {"comment", "data"}
    <3>1. Frag("comment", "").kind = "comment" /\ Frag("data", "text").kind = "data"
      BY DEF Frag
    <3> QED BY <1>2, <3>1 DEF Heartbeat, Frame
  <2>2. Len(e) = 2 /\ e[1] = f /\ e[2] = Blank
    BY <2>1, PairShape
  <2>3. \A i \in 1..2 : i = 1 \/ i = 2
    OBVIOUS
  <2> QED BY <1>1, <2>1, <2>2, <2>3, LongFrameShape
<1>3. CASE e = LongFrame
  <2>1. /\ Len(e) = 4 /\ e[1].kind = "part"
        /\ e[2].kind = "data" /\ e[3].kind = "data" /\ e[4] = Blank
    BY <1>3, LongFrameShape DEF Frag
  <2>2. \A i \in 1..4 : i = 1 \/ i = 2 \/ i = 3 \/ i = 4
    OBVIOUS
  <2> QED BY <1>1, <1>3, <2>1, <2>2
<1>4. CASE e \in {Control("start", "json")} \cup Finals(n)
  <2>1. Len(e) = 3 /\ e[1].kind = "event" /\ e[2].kind = "data" /\ e[3] = Blank
    BY <1>4, TripleShape DEF Controls, Ends
  <2>2. \A i \in 1..3 : i = 1 \/ i = 2 \/ i = 3
    OBVIOUS
  <2> QED BY <1>1, <2>1, <2>2, LongFrameShape
<1> QED BY <1>2, <1>3, <1>4 DEF LegalAt

\* What a step of the reader does, as its caller sees it.
Delivers ==
  \/ UNCHANGED <<received, err, done>>
  \/ received' = received + 1 /\ received < sent /\ UNCHANGED <<err, done>>
  \/ done' /\ err' \in {"none", "server"} /\ UNCHANGED received
  \/ err' \in {"unreadable", "tooLarge", "interrupted"} /\ UNCHANGED received

\* What one fragment does to the reader at place a, when b is the next place.
LEMMA OneFragment ==
  ASSUME TypeOK, DoneInv, NEW a \in Places, NEW b \in Places,
         Written(a), Head(wire) = a.e[a.k], Head(wire) \in Fragment, Follows(a, b), ReaderAt(a),
         ~broken => InOrderAt(a),
         b.n <= sent, b.p \in Verdicts => phase = b.p /\ sent = b.n,
         TakeFragment
  PROVE  /\ ReaderAt(b)'
         /\ done' /\ err' \in {"none", "server"} =>
              /\ phase = IF err' = "none" THEN "success" ELSE "error"
              /\ received' = sent /\ claimed' = sent
         /\ CapFits /\ ~broken => err' \in {err, "none", "server"}
         /\ Delivers
<1> DEFINE Result ==
         /\ ReaderAt(b)'
         /\ done' /\ err' \in {"none", "server"} =>
              /\ phase = IF err' = "none" THEN "success" ELSE "error"
              /\ received' = sent /\ claimed' = sent
         /\ CapFits /\ ~broken => err' \in {err, "none", "server"}
         /\ Delivers
<1> DEFINE f == Head(wire)
<1>1. /\ pc \in {"start", "next"} /\ ~done
      /\ ev = Assembled(a) /\ received = a.n /\ err = "none"
      /\ a.p = IF pc = "start" THEN "before" ELSE "streaming"
  BY DEF TakeFragment, Reading, DoneInv, ReaderAt
<1>2. ev.total = a.k - 1 /\ a.k \in Nat /\ MaxEventBytes \in Nat
  BY <1>1, ConstantsAssumption DEF Assembled, Places
<1>3. ASSUME NEW x \in {"unreadable", "tooLarge"}, Fails(x), ~(CapFits /\ ~broken)
      PROVE  Result
  BY <1>3 DEF Fails, ReaderAt, Delivers
<1>4. a.k \in 1..Len(a.e) /\ Len(a.e) \in Nat
  BY LenProperties DEF Places, Written
<1>5. CASE ev.total + 1 > MaxEventBytes /\ Fails("tooLarge")
  <2>1. ~(CapFits /\ ~broken)
    <3>1. SUFFICES ASSUME CapFits, ~broken PROVE FALSE
      OBVIOUS
    <3>2. Len(a.e) <= Len(LongFrame)
      BY <3>1, LegalEvents DEF InOrderAt
    <3> QED BY <1>2, <1>4, <1>5, <3>1, <3>2, LongFrameShape DEF CapFits
  <2> QED BY <1>3, <1>5, <2>1
<1>6. CASE ~(ev.total + 1 > MaxEventBytes) /\ Absorb(f)
  <2>1. a.k < Len(a.e) /\ ev' = Assembled([a EXCEPT !.k = a.k + 1])
    BY <1>1, <1>2, <1>6, Absorbing
  <2>2. b = [a EXCEPT !.k = a.k + 1]
    BY <2>1 DEF Follows
  <2>3. b.n = a.n /\ b.p = a.p
    BY <2>2 DEF Places
  <2>4. UNCHANGED <<pc, received, claimed, err, done>>
    BY <1>6 DEF Absorb, stream
  <2>5. ev' = Assembled(b)
    BY <2>1, <2>2
  <2> QED BY <1>1, <2>3, <2>4, <2>5 DEF ReaderAt, Delivers
<1>7. CASE f.kind \in {"cr", "junk"} /\ Fails("unreadable")
  <2>1. broken
    BY <1>4, <1>7, LegalEvents DEF InOrderAt
  <2> QED BY <1>3, <1>7, <2>1
<1>8. CASE f.kind = "blank" /\ EndOfBlock
  <2>1. a.k = Len(a.e) /\ Understood(a) /\ Readable(a)
    BY <1>1, <1>8, BlankCompletes, CompletedIsUnderstood
  <2>2. b.k = 1 /\ b.n = SentAfter(a) /\ b.p = PhaseAfter(a) /\ Assembled(b) = NoEvent
    BY <1>4, <2>1, NothingHeld DEF Follows
  <2>3. CASE SkipHeartbeat
    <3>1. a.e = Heartbeat
      BY <2>1, <2>3 DEF SkipHeartbeat, Understood
    <3>2. b.n = a.n /\ b.p = a.p
      BY <2>2, <3>1, AfterEvent
    <3>3. ev' = NoEvent /\ UNCHANGED <<pc, received, claimed, err, done>>
      BY <2>3 DEF SkipHeartbeat, stream
    <3> QED BY <1>1, <2>2, <3>2, <3>3 DEF ReaderAt, Delivers
  <2>4. CASE Unreadable /\ Fails("unreadable")
    <3>1. broken
      BY <2>1, <2>4 DEF Readable, InOrderAt
    <3> QED BY <1>3, <2>4, <3>1
  <2>5. CASE StartEvent
    <3>1. CASE ev.event = "start" /\ Payload.says = "json"
      <4>1. b.n = a.n /\ b.p = "streaming"
        BY <1>1, <2>1, <2>2, <2>5, <3>1, AfterEvent DEF Understood, StartEvent
      <4>2. pc' = "ready" /\ ev' = NoEvent /\ UNCHANGED <<received, claimed, err, done>>
        BY <2>5, <3>1 DEF StartEvent, stream
      <4> QED BY <1>1, <2>2, <4>1, <4>2 DEF ReaderAt, Delivers
    <3>2. CASE ~(ev.event = "start" /\ Payload.says = "json")
      <4>1. Fails("unreadable") /\ pc = "start" /\ Event
        BY <2>5, <3>2 DEF StartEvent
      <4>2. broken
        BY <1>1, <2>1, <3>2, <4>1 DEF Readable, InOrderAt
      <4> QED BY <1>3, <4>1, <4>2
    <3> QED BY <3>1, <3>2
  <2>6. CASE FrameEvent
    <3>1. IsFrame(a.e) /\ a.p = "streaming"
      BY <1>1, <2>1, <2>6 DEF FrameEvent, Understood
    <3>2. b.n = a.n + 1 /\ b.p = "streaming"
      BY <2>2, <3>1, AfterEvent
    <3>3. /\ pc' = "ready" /\ ev' = NoEvent /\ received' = received + 1
          /\ UNCHANGED <<claimed, err, done>>
      BY <2>6 DEF FrameEvent
    <3>4. received < sent
      <4>1. a.n \in Nat /\ sent \in Nat
        BY DEF Places, TypeOK
      <4> QED BY <1>1, <3>2, <4>1
    <3> QED BY <1>1, <2>2, <3>2, <3>3, <3>4 DEF ReaderAt, Delivers
  <2>7. CASE TerminalEvent
    <3>1. /\ pc = "next" /\ Event /\ ev.event = "end"
          /\ Payload.says \in Verdicts => claimed' = Payload.frames
          /\ err' = CASE Payload.says = "success" -> "none"
                      [] Payload.says = "error"   -> "server"
                      [] OTHER                    -> "unreadable"
          /\ done' = TRUE /\ received' = received
      BY <2>7 DEF TerminalEvent, Verdicts
    <3>2. CASE Payload.says \in Verdicts
      <4>1. PICK status \in Verdicts : status = Payload.says
        BY <3>2
      <4>2. a.e = Terminal(status, a.n) /\ claimed' = a.n /\ a.p = "streaming"
        BY <1>1, <2>1, <3>1, <4>1 DEF Understood
      <4>3. b.n = a.n /\ b.p = status
        BY <2>2, <4>2, AfterEvent
      <4>4. phase = status /\ sent = a.n /\ received' = a.n
        BY <1>1, <3>1, <4>3
      <4>5. /\ status \in {"success", "error"}
            /\ err' = IF status = "success" THEN "none" ELSE "server"
        BY <3>1, <4>1 DEF Verdicts
      <4>6. ReaderAt(b)'
        BY <3>1 DEF ReaderAt
      <4> QED BY <3>1, <4>2, <4>4, <4>5, <4>6 DEF Delivers
    <3>3. CASE Payload.says \notin Verdicts
      <4>1. err' = "unreadable"
        BY <3>1, <3>3 DEF Verdicts
      <4>2. broken
        BY <1>1, <2>1, <3>1, <3>3 DEF Readable, InOrderAt
      <4> QED BY <3>1, <4>1, <4>2 DEF ReaderAt, Delivers
    <3> QED BY <3>2, <3>3
  <2>8. CASE UnexpectedEvent
    <3>1. pc = "next" /\ Event /\ ev.event \notin {"", "end"} /\ Fails("unreadable")
      BY <2>8 DEF UnexpectedEvent
    <3>2. broken
      BY <1>1, <2>1, <3>1 DEF Readable, InOrderAt
    <3> QED BY <1>3, <3>1, <3>2
  <2> QED BY <1>8, <2>3, <2>4, <2>5, <2>6, <2>7, <2>8 DEF EndOfBlock
<1>9. ev.total + 1 > MaxEventBytes \/ ~(ev.total + 1 > MaxEventBytes)
  OBVIOUS
<1>10. Result
  BY <1>5, <1>6, <1>7, <1>8, <1>9 DEF TakeFragment
<1> QED BY <1>10

-----------------------------------------------------------------------------
(* The theorems. *)

TapeInv == \E st : Tape(st) /\ ReaderAt(st[1])

BlameInv ==
  /\ body = "closed" => cancelled
  /\ err = "interrupted" => link # "open" \/ cancelled
  /\ CapFits /\ ~broken => err \notin {"unreadable", "tooLarge"}

Facts == TypeOK /\ ReleaseInv /\ DoneInv

VerdictInv == TapeInv /\ VerdictIsComplete /\ BlameInv

\* Actions that neither read nor write the wire, ReadFails among them: whatever
\* stops being read stops for good.
LEMMA OffTheTape ==
  ASSUME Facts, VerdictInv,
         \/ CallerCancels \/ RequestFails \/ Refused \/ Opened \/ ReadFails \/ CallNext
         \/ Leave \/ (\E c \in Closers : Close(c)) \/ UNCHANGED vars
  PROVE  VerdictInv'
<1> DEFINE Stands ==
      /\ UNCHANGED <<wire, link, phase, sent, broken>>
      /\ \A a : ReaderAt(a) => ReaderAt(a)'
<1>1. CASE CallerCancels \/ Leave \/ CallNext \/ UNCHANGED vars
  <2>1. /\ UNCHANGED <<wire, link, body, phase, sent, broken, ev, received, claimed, err, done>>
        /\ cancelled => cancelled'
        /\ \/ pc' = pc
           \/ pc = "ready" /\ pc' = "leaving"
           \/ pc = "ready" /\ pc' = "next"
    BY <1>1 DEF CallerCancels, Leave, CallNext, vars, stream, server, closes
  <2>2. Stands
    BY <2>1 DEF ReaderAt
  <2>3. TapeInv'
    BY <2>2, TapeStands DEF VerdictInv, TapeInv
  <2>4. VerdictIsComplete' /\ BlameInv'
    BY <2>1 DEF VerdictInv, VerdictIsComplete, BlameInv
  <2> QED BY <2>3, <2>4 DEF VerdictInv
<1>2. CASE Opened
  <2>1. /\ UNCHANGED <<wire, link, phase, sent, broken, ev, received, claimed, err, done, cancelled>>
        /\ body' = "open" /\ pc = "invoke" /\ pc' = "start"
    BY <1>2 DEF Opened, stream, server, closes
  <2>2. Stands
    BY <2>1 DEF ReaderAt
  <2>3. TapeInv'
    BY <2>2, TapeStands DEF VerdictInv, TapeInv
  <2>4. VerdictIsComplete' /\ BlameInv'
    BY <2>1 DEF VerdictInv, VerdictIsComplete, BlameInv
  <2> QED BY <2>3, <2>4 DEF VerdictInv
<1>3. CASE RequestFails \/ Refused
  <2>1. /\ UNCHANGED <<wire, link, phase, sent, broken, done>> /\ cancelled'
        /\ pc = "invoke" /\ pc' = "gone" /\ err' \in {"transport", "refused", "notAStream"}
    BY <1>3 DEF RequestFails, Refused, server
  <2>2. Stands /\ ~done'
    BY <2>1 DEF ReaderAt, Facts, DoneInv
  <2>3. TapeInv'
    BY <2>2, TapeStands DEF VerdictInv, TapeInv
  <2>4. VerdictIsComplete' /\ BlameInv'
    BY <2>1, <2>2 DEF VerdictIsComplete, BlameInv
  <2> QED BY <2>3, <2>4 DEF VerdictInv
<1>4. CASE ReadFails
  <2>1. /\ UNCHANGED <<wire, link, body, phase, sent, broken, cancelled>>
        /\ err' = "interrupted" /\ (pc' = "aborting" \/ done')
        /\ link # "open" \/ cancelled
    BY <1>4 DEF ReadFails, Fails, server, closes, VerdictInv, BlameInv
  <2>2. Stands /\ err' = "interrupted"
    BY <2>1 DEF ReaderAt
  <2>3. TapeInv'
    BY <2>2, TapeStands DEF VerdictInv, TapeInv
  <2>4. VerdictIsComplete' /\ BlameInv'
    BY <2>1, <2>2 DEF VerdictIsComplete, VerdictInv, BlameInv
  <2> QED BY <2>3, <2>4 DEF VerdictInv
<1>5. ASSUME NEW c \in Closers, Close(c) PROVE VerdictInv'
  <2>1. /\ UNCHANGED <<wire, link, phase, sent, broken, ev, received, claimed, err, done>>
        /\ cancelled => cancelled'
        /\ pc' \in {pc, "gone"}
        /\ body' = body \/ cancelled'
    BY <1>5 DEF Close, CloseSwap, CloseCancel, CloseBody, Returns, stream, server, Facts, ReleaseInv
  <2>2. Stands
    BY <2>1 DEF ReaderAt
  <2>3. TapeInv'
    BY <2>2, TapeStands DEF VerdictInv, TapeInv
  <2>4. VerdictIsComplete' /\ BlameInv'
    BY <2>1 DEF VerdictInv, VerdictIsComplete, BlameInv
  <2> QED BY <2>3, <2>4 DEF VerdictInv
<1> QED BY <1>1, <1>2, <1>3, <1>4, <1>5

\* A fragment taken off the tape.
LEMMA FragmentOnTape ==
  ASSUME Facts, NEW st, Tape(st), ReaderAt(st[1]), TakeFragment
  PROVE  /\ TapeInv'
         /\ done' /\ err' \in {"none", "server"} =>
              /\ phase = IF err' = "none" THEN "success" ELSE "error"
              /\ received' = sent /\ claimed' = sent
         /\ CapFits /\ ~broken => err' \in {err, "none", "server"}
         /\ Delivers
<1>1. wire # <<>> /\ wire' = Tail(wire) /\ UNCHANGED <<link, body, cancelled, phase, sent, broken>>
  BY DEF TakeFragment, closes, server
<1>2. PICK ts : Tape(ts)' /\ ts[1] = st[2]
  BY <1>1, TapeTaken DEF Facts
<1>3. Len(wire) \in Nat /\ Len(wire) >= 1 /\ wire[1] = Head(wire) /\ Head(wire) \in Fragment
  BY <1>1, LenProperties, EmptySeq, HeadTailProperties DEF Facts, TypeOK
<1>4. 1 \in 1..Len(wire) /\ 1 \in 1..(Len(wire) + 1) /\ 2 \in 1..(Len(wire) + 1)
  BY <1>3
<1>5. /\ st[1] \in Places /\ st[2] \in Places /\ Written(st[1])
      /\ Head(wire) = st[1].e[st[1].k] /\ Follows(st[1], st[2])
      /\ ~broken => InOrderAt(st[1])
      /\ st[2].n <= sent
      /\ st[2].p \in Verdicts => phase = st[2].p /\ sent = st[2].n
  BY <1>3, <1>4 DEF Tape
<1>6. /\ ReaderAt(st[2])'
      /\ done' /\ err' \in {"none", "server"} =>
           /\ phase = IF err' = "none" THEN "success" ELSE "error"
           /\ received' = sent /\ claimed' = sent
      /\ CapFits /\ ~broken => err' \in {err, "none", "server"}
      /\ Delivers
  BY <1>3, <1>5, OneFragment DEF Facts
<1> QED BY <1>2, <1>6 DEF TapeInv

LEMMA VerdictStep == Facts /\ Facts' /\ VerdictInv /\ [Next]_vars => VerdictInv'
<1> SUFFICES ASSUME Facts, Facts', VerdictInv, [Next]_vars PROVE VerdictInv'
  OBVIOUS
<1>1. PICK st : Tape(st) /\ ReaderAt(st[1])
  BY DEF VerdictInv, TapeInv
<1>2. ASSUME NEW e \in Legal \cup Broken, Write(e) PROVE VerdictInv'
  <2>1. PICK ts : /\ Tape(ts)'
                  /\ \/ ts[1] = st[1]
                     \/ /\ ts[1].k = 1 /\ st[1].k = 1
                        /\ ts[1].n = st[1].n /\ ts[1].p = st[1].p
    BY <1>1, <1>2, TapeGrows DEF Facts
  <2>2. UNCHANGED <<link, body, cancelled, pc, ev, received, claimed, err, done>>
    BY <1>2 DEF Write, closes, stream
  <2>3. ReaderAt(ts[1])'
    <3>1. 1 \in 1..(Len(wire) + 1) /\ 1 \in 1..(Len(wire') + 1)
      BY LenProperties DEF Facts, TypeOK
    <3>2. st[1] \in Places /\ ts[1] \in Places
      BY <1>1, <2>1, <3>1 DEF Tape
    <3>3. Assembled(ts[1]) = Assembled(st[1])
      BY <2>1, <3>2, NothingHeld
    <3> QED BY <1>1, <2>1, <2>2, <3>3 DEF ReaderAt
  <2>4. VerdictIsComplete'
    <3>1. phase \in {"success", "error"} => phase' = phase /\ sent' = sent
      BY <1>2 DEF Write
    <3> QED BY <2>2, <3>1 DEF VerdictInv, VerdictIsComplete
  <2>5. BlameInv'
    <3>1. broken => broken'
      BY <1>2 DEF Write
    <3> QED BY <2>2, <3>1 DEF VerdictInv, BlameInv
  <2> QED BY <2>1, <2>3, <2>4, <2>5 DEF VerdictInv, TapeInv
<1>3. CASE Disconnect
  <2>1. PICK ts : Tape(ts)' /\ ts[1] = st[1]
    BY <1>1, <1>3, TapeCut DEF Facts
  <2>2. /\ UNCHANGED <<body, cancelled, pc, ev, received, claimed, err, done, phase, sent, broken>>
        /\ link' # "open"
    BY <1>3 DEF Disconnect, closes, stream, server
  <2>3. ReaderAt(ts[1])'
    BY <1>1, <2>1, <2>2 DEF ReaderAt
  <2>4. VerdictIsComplete' /\ BlameInv'
    BY <2>2 DEF VerdictInv, VerdictIsComplete, BlameInv
  <2> QED BY <2>1, <2>3, <2>4 DEF VerdictInv, TapeInv
<1>4. CASE TakeFragment
  <2>1. UNCHANGED <<link, body, cancelled, phase, sent, broken>>
    BY <1>4 DEF TakeFragment, closes, server
  <2>2. /\ TapeInv'
        /\ done' /\ err' \in {"none", "server"} =>
             /\ phase = IF err' = "none" THEN "success" ELSE "error"
             /\ received' = sent /\ claimed' = sent
        /\ CapFits /\ ~broken => err' \in {err, "none", "server"}
    BY <1>1, <1>4, FragmentOnTape
  <2>3. err' = "interrupted" => err = "interrupted"
    <3>1. ASSUME NEW x, Fails(x), x # "interrupted" PROVE err' # "interrupted"
      BY <3>1 DEF Fails
    <3>2. EndOfBlock => err' # "interrupted" \/ err' = err
      BY <3>1 DEF EndOfBlock, SkipHeartbeat, StartEvent, FrameEvent, TerminalEvent,
                  UnexpectedEvent, stream
    <3> QED BY <1>4, <3>1, <3>2 DEF TakeFragment, Absorb, stream
  <2>4. VerdictIsComplete'
    BY <2>1, <2>2 DEF VerdictIsComplete
  <2>5. BlameInv'
    BY <2>1, <2>2, <2>3 DEF VerdictInv, BlameInv
  <2> QED BY <2>2, <2>4, <2>5 DEF VerdictInv
<1>5. CASE \/ CallerCancels \/ RequestFails \/ Refused \/ Opened \/ ReadFails \/ CallNext
           \/ Leave \/ (\E c \in Closers : Close(c)) \/ UNCHANGED vars
  BY <1>5, OffTheTape
<1> QED BY <1>2, <1>3, <1>4, <1>5 DEF Next

\* Seen through Delivery, each step is one of its steps or none.
Seen == Delivery!delivery

LEMMA DeliveryStep ==
  ASSUME Facts, Facts', VerdictInv, VerdictInv', [Next]_vars
  PROVE  Delivery!Next \/ UNCHANGED Seen
<1>0. /\ Seen = <<sent, IF phase \in {"success", "error"} THEN phase ELSE "none", received, Outcome>>
      /\ sent \in Nat /\ sent' \in Nat /\ received \in Nat
  BY DEF Seen, Delivery!delivery, Facts, TypeOK
<1>1. PICK st : Tape(st) /\ ReaderAt(st[1])
  BY DEF VerdictInv, TapeInv
<1>2. ASSUME UNCHANGED <<sent, phase, received, err, done>> PROVE UNCHANGED Seen
  BY <1>2 DEF Seen, Delivery!delivery, Outcome
<1>3. ASSUME NEW e \in Legal \cup Broken, Write(e) PROVE Delivery!Next \/ UNCHANGED Seen
  <2>1. /\ UNCHANGED <<received, err, done>>
        /\ sent' = IF IsFrame(e) /\ phase = "streaming" THEN sent + 1 ELSE sent
        /\ phase' = CASE e = Control("start", "json") /\ phase = "before" -> "streaming"
                      [] IsTerminal(e) /\ phase = "streaming"             -> e[2].says
                      [] OTHER                                            -> phase
    BY <1>3 DEF Write, stream
  <2>2. Outcome' = Outcome
    BY <2>1 DEF Outcome
  <2>3. IsTerminal(e) => e \in Finals(sent) /\ e[2].says \in {"success", "error"}
    BY WritesFragments DEF IsTerminal, Finals, Verdicts, Facts, TypeOK
  <2>4. CASE IsFrame(e) /\ phase = "streaming"
    <3>1. ~IsTerminal(e)
      BY <2>3, <2>4, FirstLines DEF IsFrame
    <3>2. phase' = phase /\ sent' = sent + 1
      BY <2>1, <2>4, <3>1
    <3>3. Delivery!Offer
      BY <2>1, <2>2, <2>4, <3>2 DEF Delivery!Offer
    <3> QED BY <3>3 DEF Delivery!Next
  <2>5. CASE IsTerminal(e) /\ phase = "streaming"
    <3>1. ~IsFrame(e) /\ phase' \in {"success", "error"} /\ sent' = sent
      BY <2>1, <2>3, <2>5, FirstLines DEF IsFrame
    <3>2. Delivery!Rule
      BY <2>1, <2>2, <2>5, <3>1 DEF Delivery!Rule, Delivery!Rulings
    <3> QED BY <3>2 DEF Delivery!Next
  <2>6. CASE ~(IsFrame(e) /\ phase = "streaming") /\ ~(IsTerminal(e) /\ phase = "streaming")
    <3>1. sent' = sent /\ (phase' = phase \/ (phase = "before" /\ phase' = "streaming"))
      BY <2>1, <2>6
    <3> QED BY <2>1, <2>2, <3>1 DEF Seen, Delivery!delivery
  <2> QED BY <2>4, <2>5, <2>6
<1>4. ASSUME UNCHANGED <<sent, phase>>, Delivers, err = "none", ~done PROVE Delivery!Next \/ UNCHANGED Seen
  <2>1. Outcome = "none"
    BY <1>4 DEF Outcome
  <2>2. CASE UNCHANGED <<received, err, done>>
    BY <1>2, <1>4, <2>2
  <2>3. CASE received' = received + 1 /\ received < sent /\ UNCHANGED <<err, done>>
    <3>1. Delivery!Give
      BY <1>4, <2>1, <2>3 DEF Delivery!Give, Outcome
    <3> QED BY <3>1 DEF Delivery!Next
  <2>4. CASE done' /\ err' \in {"none", "server"} /\ UNCHANGED received
    <3>1. phase = (IF err' = "none" THEN "success" ELSE "error") /\ received = sent
      BY <1>4, <2>4 DEF VerdictInv, VerdictIsComplete
    <3>2. Outcome' = phase /\ phase \in {"success", "error"}
      BY <2>4, <3>1 DEF Outcome
    <3>3. Delivery!Conclude
      BY <1>4, <2>1, <2>4, <3>1, <3>2 DEF Delivery!Conclude
    <3> QED BY <3>3 DEF Delivery!Next
  <2>5. CASE err' \in {"unreadable", "tooLarge", "interrupted"} /\ UNCHANGED received
    <3>1. Outcome' = "failed"
      BY <2>5 DEF Outcome
    <3>2. Delivery!Fail
      BY <1>4, <2>1, <2>5, <3>1 DEF Delivery!Fail
    <3> QED BY <3>2 DEF Delivery!Next
  <2> QED BY <1>4, <2>2, <2>3, <2>4, <2>5 DEF Delivers
<1>5. pc \in {"start", "next"} => err = "none" /\ ~done
  BY <1>1 DEF ReaderAt, Facts, DoneInv
<1>6. CASE TakeFragment
  <2>1. Delivers
    BY <1>1, <1>6, FragmentOnTape
  <2>2. UNCHANGED <<sent, phase>> /\ pc \in {"start", "next"}
    BY <1>6 DEF TakeFragment, Reading, server
  <2> QED BY <1>4, <1>5, <2>1, <2>2
<1>7. CASE ReadFails
  <2>1. Delivers /\ UNCHANGED <<sent, phase>> /\ pc \in {"start", "next"}
    BY <1>7 DEF ReadFails, Reading, Fails, server, Delivers
  <2> QED BY <1>4, <1>5, <2>1
<1>8. CASE RequestFails \/ Refused
  <2>1. /\ UNCHANGED <<sent, phase, received, done>>
        /\ pc = "invoke" /\ err' \in {"transport", "refused", "notAStream"}
    BY <1>8 DEF RequestFails, Refused, server
  <2>2. Outcome = "none" /\ Outcome' = "failed"
    BY <1>1, <2>1 DEF Outcome, ReaderAt, Facts, DoneInv
  <2>3. Delivery!Fail
    BY <2>1, <2>2 DEF Delivery!Fail
  <2> QED BY <2>3 DEF Delivery!Next
<1>9. CASE \/ Disconnect \/ CallerCancels \/ Opened \/ CallNext \/ Leave \/ UNCHANGED vars
  <2>1. UNCHANGED <<sent, phase, received, err, done>>
    BY <1>9 DEF Disconnect, CallerCancels, Opened, CallNext, Leave, vars, stream, server
  <2> QED BY <1>2, <2>1
<1>10. ASSUME NEW c \in Closers, Close(c) PROVE UNCHANGED Seen
  <2>1. UNCHANGED <<sent, phase, received, err, done>>
    BY <1>10 DEF Close, CloseSwap, CloseCancel, CloseBody, stream, server
  <2> QED BY <1>2, <2>1
<1> QED BY <1>3, <1>6, <1>7, <1>8, <1>9, <1>10 DEF Next

LEMMA VerdictStart == Init => VerdictInv
<1> SUFFICES ASSUME Init PROVE VerdictInv
  OBVIOUS
<1> DEFINE a  == [e |-> <<>>, k |-> 1, n |-> 0, p |-> "before"]
           st == [i \in 1..1 |-> a]
<1>1. wire = <<>> /\ Len(wire) = 0 /\ 0 + 1 = 1
  BY DEF Init
<1>2. a \in Places
  BY EmptySeq DEF Places
<1>3. st \in [1..1 -> Places] /\ st[1] = a /\ \A i \in 1..1 : st[i] = a
  BY <1>2
<1>4. a.k = 1 /\ a.n = 0 /\ a.p = "before"
  OBVIOUS
<1>5. Assembled(a) = NoEvent
  BY <1>2, <1>4, NothingHeld
<1> HIDE DEF a, st
<1>6. Tape(st)
  BY <1>1, <1>3, <1>4 DEF Tape, Init, Verdicts
<1>7. ReaderAt(st[1])
  BY <1>3, <1>4, <1>5 DEF ReaderAt, Init
<1>8. VerdictIsComplete /\ BlameInv
  BY DEF Init, VerdictIsComplete, BlameInv
<1> QED BY <1>6, <1>7, <1>8 DEF VerdictInv, TapeInv

LEMMA FactsAlways == Spec => []Facts
<1>1. Init => DoneInv
  BY DEF Init, DoneInv
<1>2. DoneInv /\ [Next]_vars => DoneInv'
  BY DoneStep
<1>3. Spec => []DoneInv
  BY <1>1, <1>2, PTL DEF Spec
<1>4. TypeOK /\ ReleaseInv /\ DoneInv => Facts
  BY DEF Facts
<1> QED BY <1>3, <1>4, TypeCorrect, ReleaseAlways, PTL

LEMMA VerdictAlways == Spec => []VerdictInv
BY FactsAlways, VerdictStart, VerdictStep, PTL DEF Spec

\* Wherever the connection cuts the stream, and whoever closes it, a stream that
\* finishes with the server's verdict was read to the end.
THEOREM VerdictsAreComplete == Spec => []VerdictIsComplete
<1>1. VerdictInv => VerdictIsComplete
  BY DEF VerdictInv
<1> QED BY <1>1, VerdictAlways, PTL

\* With a cap that the longest frame fits, the error of a stream never blames a
\* server that kept the contract, nor a connection that was neither over nor
\* cancelled.
THEOREM BlameFallsRight == Spec => [](CapFits => BlameIsRight)
<1>1. VerdictInv => (CapFits => BlameIsRight)
  BY DEF VerdictInv, BlameInv, BlameIsRight
<1> QED BY <1>1, VerdictAlways, PTL

\* To its caller the reader is a Delivery: a prefix of what the platform offered,
\* frame by frame, and then one outcome, whatever the wire and the closers do.
THEOREM Refines == Spec => ImplementsDelivery
<1>1. Init => Delivery!Init
  BY DEF Init, Delivery!Init, Outcome
<1>2. Facts /\ Facts' /\ VerdictInv /\ VerdictInv' /\ [Next]_vars => [Delivery!Next]_(Delivery!delivery)
  BY DeliveryStep DEF Seen
<1> QED BY <1>1, <1>2, FactsAlways, VerdictAlways, PTL DEF Spec, ImplementsDelivery, Delivery!Spec

-----------------------------------------------------------------------------
(* What a caller may conclude from a nil Err. *)

\* A caller that was told of the end was told so by a verdict or after a Close.
EndInv == last = "end" => done \/ closed

\* No one but the reader closes, so no Close comes between two calls of Next.
AloneInv ==
  /\ closed => pc \in {"aborting", "leaving", "gone"}
  /\ last = "end" => done

\* Only what Next returns is told, and it is the end when the verdict is in.
LEMMA ToldByReading ==
  ASSUME TakeFragment \/ ReadFails
  PROVE  /\ closed' = closed /\ pc \in {"start", "next"}
         /\ \/ last' = last /\ done' = done
            \/ last' = "frame" /\ done' = done
            \/ last' = "end" /\ done' = TRUE
         /\ pc' = pc \/ pc' \in {"aborting", "ready"}
<1> DEFINE Told == /\ \/ last' = last /\ done' = done
                      \/ last' = "frame" /\ done' = done
                      \/ last' = "end" /\ done' = TRUE
                   /\ pc' = pc \/ pc' \in {"aborting", "ready"}
<1>1. ASSUME NEW e, Fails(e) PROVE Told
  BY <1>1 DEF Fails
<1>2. ASSUME EndOfBlock PROVE Told
  <2>1. CASE SkipHeartbeat
    BY <2>1 DEF SkipHeartbeat, stream
  <2>2. CASE StartEvent
    BY <1>1, <2>2 DEF StartEvent, stream
  <2>3. CASE FrameEvent \/ TerminalEvent
    BY <2>3 DEF FrameEvent, TerminalEvent
  <2>4. CASE UnexpectedEvent \/ (Unreadable /\ Fails("unreadable"))
    BY <1>1, <2>4 DEF UnexpectedEvent
  <2> QED BY <1>2, <2>1, <2>2, <2>3, <2>4 DEF EndOfBlock
<1>3. ASSUME NEW f, Absorb(f) PROVE Told
  BY <1>3 DEF Absorb, stream
<1>4. CASE TakeFragment
  <2>1. Told
    BY <1>1, <1>2, <1>3, <1>4 DEF TakeFragment
  <2> QED BY <1>4, <2>1 DEF TakeFragment, Reading, closes
<1>5. CASE ReadFails
  <2>1. Told
    BY <1>1, <1>5 DEF ReadFails
  <2> QED BY <1>5, <2>1 DEF ReadFails, Reading, closes
<1> QED BY <1>4, <1>5

LEMMA EndStep == EndInv /\ [Next]_vars => EndInv'
<1> SUFFICES ASSUME EndInv, [Next]_vars PROVE EndInv'
  OBVIOUS
<1>1. CASE TakeFragment \/ ReadFails
  BY <1>1, ToldByReading DEF EndInv
<1>2. CASE CallNext
  BY <1>2 DEF CallNext, EndInv, closes
<1>3. CASE \/ \E e \in Legal \cup Broken : Write(e)
           \/ Disconnect \/ CallerCancels \/ RequestFails \/ Refused \/ Opened \/ Leave
           \/ UNCHANGED vars
  <2>1. UNCHANGED <<last, done, closed>>
    BY <1>3 DEF Write, Disconnect, CallerCancels, RequestFails, Refused, Opened, Leave, vars,
       stream, closes
  <2> QED BY <2>1 DEF EndInv
<1>4. ASSUME NEW c \in Closers, Close(c) PROVE EndInv'
  <2>1. UNCHANGED <<last, done>> /\ (closed' = closed \/ closed' = TRUE)
    BY <1>4 DEF Close, CloseSwap, CloseCancel, CloseBody, stream
  <2> QED BY <2>1 DEF EndInv
<1> QED BY <1>1, <1>2, <1>3, <1>4 DEF Next

LEMMA AloneStep ==
  ASSUME Closers = {Reader}
  PROVE  AloneInv /\ [Next]_vars => AloneInv'
<1> SUFFICES ASSUME AloneInv, [Next]_vars PROVE AloneInv'
  OBVIOUS
<1>1. CASE TakeFragment \/ ReadFails
  <2>1. closed' = closed /\ pc \in {"start", "next"}
    BY <1>1, ToldByReading
  <2>2. ~closed
    BY <2>1 DEF AloneInv
  <2>3. ~closed'
    BY <2>1, <2>2
  <2>4. last' = "end" => done'
    <3>1. \/ last' = last /\ done' = done
          \/ last' = "frame" /\ done' = done
          \/ last' = "end" /\ done' = TRUE
      BY <1>1, ToldByReading
    <3> QED BY <3>1 DEF AloneInv
  <2> QED BY <2>3, <2>4 DEF AloneInv
<1>2. CASE CallNext \/ Leave
  BY <1>2 DEF CallNext, Leave, AloneInv, closes, stream
<1>3. CASE \/ \E e \in Legal \cup Broken : Write(e)
           \/ Disconnect \/ CallerCancels \/ RequestFails \/ Refused \/ Opened
           \/ UNCHANGED vars
  <2>1. /\ UNCHANGED <<last, done, closed>>
        /\ pc' = pc \/ pc = "invoke"
    BY <1>3 DEF Write, Disconnect, CallerCancels, RequestFails, Refused, Opened, vars,
       stream, closes
  <2> QED BY <2>1 DEF AloneInv
<1>4. ASSUME NEW c \in Closers, Close(c) PROVE AloneInv'
  <2>1. c = Reader
    OBVIOUS
  <2>2. /\ UNCHANGED <<last, done>>
        /\ \/ closed' = closed /\ pc' \in {pc, "gone"}
           \/ closed' = TRUE /\ pc \in {"aborting", "leaving"} /\ pc' = pc
    BY <1>4, <2>1 DEF Close, CloseSwap, CloseCancel, CloseBody, MayClose, Returns, stream
  <2> QED BY <2>2 DEF AloneInv
<1> QED BY <1>1, <1>2, <1>3, <1>4 DEF Next

\* The comment on Next, corrected: a nil Err after the end means a clean end, unless
\* the stream was closed.
THEOREM NilErrIsCleanUnlessClosed ==
  Spec => [](~closed => NilErrMeansCleanEnd)
<1>1. Init => EndInv
  BY DEF Init, EndInv
<1>2. EndInv /\ VerdictIsComplete => (~closed => NilErrMeansCleanEnd)
  BY DEF EndInv, VerdictIsComplete, NilErrMeansCleanEnd
<1> QED BY <1>1, <1>2, EndStep, VerdictsAreComplete, PTL DEF Spec

\* A caller that closes its stream on the goroutine that reads it, as the usage at
\* actions_stream.go:78-85 does, has the comment as it stands; the run stream_nil_err
\* has a second closer.
THEOREM NilErrIsCleanWhenAlone ==
  ASSUME Closers = {Reader}
  PROVE  Spec => []NilErrMeansCleanEnd
<1>1. Init => AloneInv
  BY DEF Init, AloneInv
<1>2. AloneInv /\ VerdictIsComplete => NilErrMeansCleanEnd
  BY DEF AloneInv, VerdictIsComplete, NilErrMeansCleanEnd
<1>3. AloneInv /\ [Next]_vars => AloneInv'
  BY AloneStep
<1> QED BY <1>1, <1>2, <1>3, VerdictsAreComplete, PTL DEF Spec
=============================================================================
