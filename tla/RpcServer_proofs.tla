--------------------------- MODULE RpcServer_proofs ---------------------------
(***************************************************************************)
(* Theorems about RpcServer, for every set of requests, registered methods *)
(* and host configurations, and for any number of requests in progress.    *)
(***************************************************************************)
EXTENDS RpcServer, TLAPS

-----------------------------------------------------------------------------
(* What happens in one slot, and what a request carries. *)

\* A step that fills one slot leaves the others alone.
LEMMA PutKeeps ==
  ASSUME DOMAIN slot = Slots, NEW i \in Slots, NEW s, Put(i, s)
  PROVE  /\ DOMAIN slot' = Slots
         /\ slot'[i] = s
         /\ \A j \in Slots : j # i => slot'[j] = slot[j]
         /\ phase' = phase /\ config' = config
BY DEF Put

-----------------------------------------------------------------------------
(* Whose authority a call runs under. *)

\* What both properties ask of one slot.
Sound(s) ==
  /\ Runs(s, "handler") => Vouched(s)
  /\ Runs(s, "verifier") => Powerless(s)

\* A process that serves passed the gates of NewHandler: what an unsigned token is
\* worth depends on how the host configured it at boot.
AuthorityInv ==
  /\ DOMAIN slot = Slots
  /\ phase \in {"serving", "draining"} => ~Refusal
  /\ \A i \in Slots : Sound(slot[i])

\* A slot that is filled soundly keeps the invariant.
LEMMA PutSound ==
  ASSUME AuthorityInv, NEW i \in Slots, NEW s, Put(i, s), Sound(s)
  PROVE  AuthorityInv'
<1>1. /\ DOMAIN slot' = Slots /\ slot'[i] = s
      /\ \A j \in Slots : j # i => slot'[j] = slot[j]
      /\ phase' = phase /\ config' = config
  BY PutKeeps DEF AuthorityInv
<1>2. ASSUME NEW j \in Slots PROVE Sound(slot[j])'
  <2>1. Sound(slot'[j])
    BY <1>1 DEF AuthorityInv
  <2> QED BY <1>1, <2>1 DEF Sound, Runs, Vouched, Powerless, Audience
<1> QED BY <1>1, <1>2 DEF AuthorityInv, Refusal

\* A slot where nothing runs is sound.
LEMMA IdleSound == ASSUME NEW s, s.stage # "running" PROVE Sound(s)
BY DEF Sound, Runs

\* The route to a verifier starts it only with its own token's word for it.
LEMMA RouteVerifierSound ==
  ASSUME AuthorityInv, NEW i \in Slots, RouteVerifier(i)
  PROVE  AuthorityInv'
<1> DEFINE r == slot[i].request
           s == Running(r, "verifier", r.token, IF r.runAs THEN "runAs" ELSE "none", NoBound)
<1>1. CASE VerifierRefusal(r) # "none"
  BY <1>1, PutSound, IdleSound DEF RouteVerifier, Refuse, Answered
<1>2. CASE VerifierRefusal(r) = "none"
  <2>1. Put(i, s)
    BY <1>2 DEF RouteVerifier
  <2>2. VerifierTokenValid(r)
    BY <1>2 DEF VerifierRefusal
  <2>3. Sound(s)
    BY <2>2 DEF Sound, Runs, Powerless, Running, VerifierTokenValid
  <2> QED BY <2>1, <2>3, PutSound
<1> QED BY <1>1, <1>2

\* The route to a handler starts it with the claims of a valid token, or with none
\* where the configuration asks for none.
LEMMA RouteHandlerSound ==
  ASSUME AuthorityInv, config \in Config, NEW i \in Slots, RouteHandler(i)
  PROVE  AuthorityInv'
<1> DEFINE r == slot[i].request
           credential == IF r.token = NoToken THEN "none" ELSE "call"
           s == Running(r, "handler", r.token, credential,
                        IF r.timeout = 0 THEN NoBound ELSE Duration(r.timeout))
<1>1. CASE ~Authenticated(r) \/ HandlerRefusal(r) # "none"
  BY <1>1, PutSound, IdleSound DEF RouteHandler, Dispatch, Refuse, Answered
<1>2. CASE Authenticated(r) /\ HandlerRefusal(r) = "none"
  <2>1. Put(i, s)
    BY <1>2 DEF RouteHandler, Dispatch
  <2>2. ~config.authenticator /\ ~Refusal
    BY DEF RouteHandler, Received, AuthorityInv
  <2>3. /\ s.claims = r.token /\ s.request = r /\ s.family = "handler"
    BY DEF Running
  <2>4. Vouched(s)
    <3> HIDE DEF s
    <3>1. CASE r.token = NoToken
      BY <1>2, <2>2, <2>3, <3>1 DEF Authenticated, Vouched
    <3>2. CASE r.token # NoToken
      <4>1. HandlerTokenValid(r.token) /\ r.token.method \in {"", r.method}
        BY <1>2, <3>2 DEF Authenticated
      <4>2. ~config.secret => config.allowUnverified /\ ~config.requireToken
        BY <2>2 DEF Refusal
      <4> QED BY <2>2, <2>3, <3>2, <4>1, <4>2 DEF Vouched, HandlerTokenValid
    <3> QED BY <3>1, <3>2
  <2>5. Sound(s)
    BY <2>3, <2>4 DEF Sound, Runs
  <2> QED BY <2>1, <2>5, PutSound
<1> QED BY <1>1, <1>2

\* With an Authenticator a handler starts under the claims it vouches for.
LEMMA RouteAuthenticatorSound ==
  ASSUME AuthorityInv, NEW i \in Slots, RouteAuthenticator(i)
  PROVE  AuthorityInv'
<1> DEFINE r == slot[i].request
           s == Running(r, "handler", NoToken, "authenticator",
                        IF r.timeout = 0 THEN NoBound ELSE Duration(r.timeout))
<1>1. config.authenticator
  BY DEF RouteAuthenticator
<1>2. Sound(s)
  BY <1>1 DEF Sound, Runs, Vouched, Running
<1>3. \/ Put(i, s)
      \/ \E type : Put(i, Answered(r, "server", "refused", type))
  BY DEF RouteAuthenticator, Dispatch, Refuse
<1> QED BY <1>2, <1>3, PutSound, IdleSound DEF Answered

\* Every step keeps every running call's authority proven.
LEMMA AuthorityStep ==
  AuthorityInv /\ config \in Config /\ [Next]_vars => AuthorityInv'
<1> SUFFICES ASSUME AuthorityInv, config \in Config, [Next]_vars PROVE AuthorityInv'
  OBVIOUS
<1>1. CASE Start
  <2>1. slot' = slot /\ config' = config /\ (phase' \in {"serving", "draining"} => ~Refusal)
    BY <1>1 DEF Start
  <2>2. Refusal' = Refusal
    BY <2>1 DEF Refusal
  <2>3. \A i \in Slots : Sound(slot[i])' = Sound(slot[i])
    BY <2>1 DEF Sound, Runs, Vouched, Powerless, Audience
  <2> QED BY <2>1, <2>2, <2>3 DEF AuthorityInv
<1>2. ASSUME NEW i \in Slots, NEW r \in Requests, Accept(i, r) PROVE AuthorityInv'
  BY <1>2, PutSound, IdleSound DEF Accept
<1>3. ASSUME NEW i \in Slots, RefuseFrame(i) PROVE AuthorityInv'
  BY <1>3, PutSound, IdleSound DEF RefuseFrame, Refuse, Answered
<1>4. ASSUME NEW i \in Slots, NEW said, Finish(i, said) PROVE AuthorityInv'
  BY <1>4, PutSound, IdleSound DEF Finish, Answered
<1>5. ASSUME NEW i \in Slots, Respond(i) PROVE AuthorityInv'
  BY <1>5, PutSound, IdleSound DEF Respond, Free
<1>6. CASE Signal \/ Drained \/ UNCHANGED vars
  <2>1. /\ slot' = slot /\ config' = config
        /\ phase' \in {"serving", "draining"} => phase \in {"serving", "draining"}
    BY <1>6 DEF Signal, Drained, vars
  <2>2. Refusal' = Refusal
    BY <2>1 DEF Refusal
  <2>3. \A i \in Slots : Sound(slot[i])' = Sound(slot[i])
    BY <2>1 DEF Sound, Runs, Vouched, Powerless, Audience
  <2> QED BY <2>1, <2>2, <2>3 DEF AuthorityInv
<1>7. CASE ShutdownTimesOut \/ ListenerFails
  <2>1. slot' = [i \in Slots |-> Free] /\ phase' \in {"timedOut", "failed"}
    BY <1>7 DEF ShutdownTimesOut, ListenerFails, Abandon
  <2> QED BY <2>1 DEF AuthorityInv, Sound, Runs, Free
<1> QED BY <1>1, <1>2, <1>3, <1>4, <1>5, <1>6, <1>7, RouteVerifierSound, RouteHandlerSound,
           RouteAuthenticatorSound DEF Next, Serves

\* The host does not reconfigure a process that runs.
LEMMA ConfigConstant == Spec => [](config \in Config)
<1>1. Init => config \in Config
  BY ConstantsAssumption DEF Init
<1>2. config \in Config /\ [Next]_vars => (config \in Config)'
  BY DEF Next, Serves, Start, Accept, RefuseFrame, RouteVerifier, RouteHandler, RouteAuthenticator,
         Dispatch, Refuse, Finish, Respond, Signal, Drained, ShutdownTimesOut, ListenerFails,
         Abandon, Put, vars
<1> QED BY <1>1, <1>2, PTL DEF Spec

LEMMA AuthorityAlways == Spec => []AuthorityInv
<1>1. Init => AuthorityInv
  BY DEF Init, AuthorityInv, Sound, Runs, Free
<1> QED BY <1>1, AuthorityStep, ConfigConstant, PTL DEF Spec

\* A handler runs only under authority somebody vouches for.
THEOREM HandlersAreVouchedFor == Spec => []AuthorityProven
<1>1. AuthorityInv => AuthorityProven
  BY DEF AuthorityInv, AuthorityProven, Sound
<1> QED BY <1>1, AuthorityAlways, PTL

\* A verifier runs only for a token made for it, which buys it nothing.
THEOREM VerifiersArePowerless == Spec => []VerifierPowerless
<1>1. AuthorityInv => VerifierPowerless
  BY DEF AuthorityInv, VerifierPowerless, Sound
<1> QED BY <1>1, AuthorityAlways, PTL

-----------------------------------------------------------------------------
(* Types. *)

\* A product that wraps stays in the width of a time.Duration.
LEMMA DurationFits ==
  ASSUME NEW ms \in Int
  PROVE  Duration(ms) \in -DurationSpan..DurationSpan
<1>1. ASSUME NEW a \in Int, NEW n \in Nat \ {0} PROVE a % n \in 0..(n - 1)
  OBVIOUS
<1>2. DurationSpan \in Nat /\ ms + DurationSpan \in Int /\ 2 * DurationSpan \in Nat \ {0}
  BY ConstantsAssumption
<1>3. (ms + DurationSpan) % (2 * DurationSpan) \in 0..(2 * DurationSpan - 1)
  BY <1>1, <1>2
<1> QED BY <1>2, <1>3 DEF Duration

\* A slot that is filled with its type keeps the types.
LEMMA PutTyped ==
  ASSUME TypeOK, NEW i \in Slots, NEW s, Put(i, s), SlotType(s)
  PROVE  TypeOK'
<1>1. /\ DOMAIN slot' = Slots /\ slot'[i] = s
      /\ \A j \in Slots : j # i => slot'[j] = slot[j]
      /\ phase' = phase /\ config' = config
  BY PutKeeps DEF TypeOK
<1>2. \A j \in Slots : SlotType(slot'[j])
  BY <1>1 DEF TypeOK
<1> QED BY <1>1, <1>2 DEF TypeOK, SlotType, Free

\* A request that waits for its route is one that was sent.
LEMMA ReceivedTyped ==
  ASSUME TypeOK, NEW i \in Slots, slot[i].stage \in {"received", "running", "answered"}
  PROVE  slot[i].request \in Requests
BY DEF TypeOK, SlotType, Free

\* A call is handed over and refused with the types of its slot.
LEMMA DispatchTyped ==
  ASSUME TypeOK, NEW i \in Slots, Received(i),
         NEW claims \in {NoToken, slot[i].request.token},
         NEW credential \in {"none", "call", "authenticator"},
         Dispatch(i, claims, credential)
  PROVE  TypeOK'
<1> DEFINE r == slot[i].request
           s == Running(r, "handler", claims, credential,
                        IF r.timeout = 0 THEN NoBound ELSE Duration(r.timeout))
<1>1. r \in Requests
  BY ReceivedTyped DEF Received
<1>2. CASE HandlerRefusal(r) # "none"
  <2>1. HandlerRefusal(r) \in Types
    BY <1>2 DEF HandlerRefusal, Types
  <2> QED BY <1>1, <1>2, <2>1, PutTyped DEF Dispatch, Refuse, Answered, SlotType
<1>3. CASE HandlerRefusal(r) = "none"
  <2>1. r.timeout \in Int
    BY <1>1, ConstantsAssumption DEF Request
  <2>2. s.bound \in -DurationSpan..DurationSpan
    BY <2>1, DurationFits, ConstantsAssumption DEF Running, NoBound
  <2>3. SlotType(s)
    BY <1>1, <2>2 DEF SlotType, Running
  <2> QED BY <1>3, <2>3, PutTyped DEF Dispatch
<1> QED BY <1>2, <1>3

LEMMA TypeStep == TypeOK /\ [Next]_vars => TypeOK'
<1> SUFFICES ASSUME TypeOK, [Next]_vars PROVE TypeOK'
  OBVIOUS
<1>1. CASE Start
  BY <1>1 DEF Start, TypeOK, SlotType, Free
<1>2. ASSUME NEW i \in Slots, NEW r \in Requests, Accept(i, r) PROVE TypeOK'
  <2>1. SlotType([stage |-> "received", request |-> r])
    BY DEF SlotType
  <2> QED BY <1>2, <2>1, PutTyped DEF Accept
<1>3. ASSUME NEW i \in Slots, NEW type \in Types, slot[i].request \in Requests, Refuse(i, type)
      PROVE  TypeOK'
  BY <1>3, PutTyped DEF Refuse, Answered, SlotType
<1>4. ASSUME NEW i \in Slots, RefuseFrame(i) PROVE TypeOK'
  <2>1. FrameRefusal(slot[i].request) \in Types
    BY <1>4 DEF RefuseFrame, FrameRefusal, Types
  <2> QED BY <1>3, <1>4, <2>1, ReceivedTyped DEF RefuseFrame, Received
<1>5. ASSUME NEW i \in Slots, RouteVerifier(i) PROVE TypeOK'
  <2> DEFINE r == slot[i].request
             s == Running(r, "verifier", r.token, IF r.runAs THEN "runAs" ELSE "none", NoBound)
  <2>1. r \in Requests
    BY <1>5, ReceivedTyped DEF RouteVerifier, Received
  <2>2. CASE VerifierRefusal(r) # "none"
    <3>1. VerifierRefusal(r) \in Types
      BY <2>2 DEF VerifierRefusal, Types
    <3> QED BY <1>3, <1>5, <2>1, <2>2, <3>1 DEF RouteVerifier
  <2>3. CASE VerifierRefusal(r) = "none"
    <3>1. SlotType(s)
      BY <2>1, ConstantsAssumption DEF SlotType, Running, NoBound
    <3> QED BY <1>5, <2>3, <3>1, PutTyped DEF RouteVerifier
  <2> QED BY <2>2, <2>3
<1>6. ASSUME NEW i \in Slots, RouteHandler(i) \/ RouteAuthenticator(i) PROVE TypeOK'
  <2>1. Received(i) /\ slot[i].request \in Requests
    BY <1>6, ReceivedTyped DEF RouteHandler, RouteAuthenticator, Received
  <2>2. "auth.invalid_token" \in Types
    BY DEF Types
  <2> QED BY <1>3, <1>6, <2>1, <2>2, DispatchTyped DEF RouteHandler, RouteAuthenticator
<1>7. ASSUME NEW i \in Slots, NEW said, Finish(i, said) PROVE TypeOK'
  <2>1. slot[i].request \in Requests /\ slot[i].family \in {"handler", "verifier"}
    BY <1>7, ReceivedTyped DEF Finish, TypeOK, SlotType, Free
  <2>2. HandlerAnswer(said) \in Types /\ VerifierAnswer(said) \in Types
    BY DEF HandlerAnswer, VerifierAnswer, Types
  <2> QED BY <1>7, <2>1, <2>2, PutTyped DEF Finish, Answered, SlotType
<1>8. ASSUME NEW i \in Slots, Respond(i) PROVE TypeOK'
  BY <1>8, PutTyped DEF Respond, SlotType
<1>9. CASE Signal \/ Drained \/ ShutdownTimesOut \/ ListenerFails \/ UNCHANGED vars
  <2>1. /\ slot' = slot \/ slot' = [i \in Slots |-> Free]
        /\ config' = config
        /\ phase' \in {phase, "draining", "stopped", "timedOut", "failed"}
    BY <1>9 DEF Signal, Drained, ShutdownTimesOut, ListenerFails, Abandon, vars
  <2>2. DOMAIN slot' = Slots /\ \A i \in Slots : SlotType(slot'[i])
    BY <2>1 DEF TypeOK, SlotType
  <2>3. \A i \in Slots : SlotType(slot[i])'
    BY <2>2 DEF SlotType, Free
  <2> QED BY <2>1, <2>2, <2>3 DEF TypeOK
<1> QED BY <1>1, <1>2, <1>4, <1>5, <1>6, <1>7, <1>8, <1>9 DEF Next, Serves

\* The slots hold requests that were sent, and every answer has a declared type.
THEOREM TypeCorrect == Spec => []TypeOK
<1>1. Init => TypeOK
  BY DEF Init, TypeOK, SlotType
<1> QED BY <1>1, TypeStep, PTL DEF Spec

-----------------------------------------------------------------------------
(* What a fault is answered with. *)

NoVerdict(s) ==
  s.stage = "answered" /\ s.said \in {"panic", "plain", "noOutcome"} =>
    s.type \in {"platform.internal_error", "verifier.unavailable"}

VerdictInv == DOMAIN slot = Slots /\ \A i \in Slots : NoVerdict(slot[i])

LEMMA PutNoVerdict ==
  ASSUME VerdictInv, NEW i \in Slots, NEW s, Put(i, s), NoVerdict(s)
  PROVE  VerdictInv'
<1>1. DOMAIN slot' = Slots /\ \A j \in Slots : slot'[j] \in {s, slot[j]}
  BY PutKeeps DEF VerdictInv
<1>2. \A j \in Slots : NoVerdict(slot'[j])
  BY <1>1 DEF VerdictInv
<1> QED BY <1>1, <1>2 DEF VerdictInv, NoVerdict

\* What is not answered yet is no verdict.
LEMMA UnansweredNoVerdict == ASSUME NEW s, s.stage # "answered" PROVE NoVerdict(s)
BY DEF NoVerdict

\* The server's own refusals are no fault of a handler.
LEMMA RefusedNoVerdict ==
  ASSUME VerdictInv, NEW i \in Slots, NEW type, Refuse(i, type)
  PROVE  VerdictInv'
<1> DEFINE s == Answered(slot[i].request, "server", "refused", type)
<1>1. NoVerdict(s)
  BY DEF NoVerdict, Answered
<1>2. Put(i, s)
  BY DEF Refuse
<1> QED BY <1>1, <1>2, PutNoVerdict

LEMMA DispatchNoVerdict ==
  ASSUME VerdictInv, NEW i \in Slots, NEW claims, NEW credential,
         Dispatch(i, claims, credential)
  PROVE  VerdictInv'
BY PutNoVerdict, RefusedNoVerdict, UnansweredNoVerdict DEF Dispatch, Running

\* The two tables of answers.
LEMMA FinishNoVerdict ==
  ASSUME VerdictInv, NEW i \in Slots, NEW said, Finish(i, said)
  PROVE  VerdictInv'
<1> DEFINE type == IF slot[i].family = "handler" THEN HandlerAnswer(said)
                                                 ELSE VerifierAnswer(said)
           s == Answered(slot[i].request, slot[i].family, said, type)
<1>1. said \in {"panic", "plain", "noOutcome"} =>
        type \in {"platform.internal_error", "verifier.unavailable"}
  BY DEF HandlerAnswer, VerifierAnswer
<1>2. Put(i, s)
  BY DEF Finish
<1> HIDE DEF type
<1>3. NoVerdict(s)
  BY <1>1 DEF NoVerdict, Answered
<1> QED BY <1>2, <1>3, PutNoVerdict

LEMMA VerdictStep == VerdictInv /\ [Next]_vars => VerdictInv'
<1> SUFFICES ASSUME VerdictInv, [Next]_vars PROVE VerdictInv'
  OBVIOUS
<1>1. CASE Start \/ Signal \/ Drained \/ UNCHANGED vars
  <2>1. slot' = slot
    BY <1>1 DEF Start, Signal, Drained, vars
  <2> QED BY <2>1 DEF VerdictInv, NoVerdict
<1>2. ASSUME NEW i \in Slots, NEW r \in Requests, Accept(i, r) PROVE VerdictInv'
  BY <1>2, PutNoVerdict, UnansweredNoVerdict DEF Accept
<1>3. ASSUME NEW i \in Slots, RefuseFrame(i) PROVE VerdictInv'
  BY <1>3, RefusedNoVerdict DEF RefuseFrame
<1>4. ASSUME NEW i \in Slots, RouteVerifier(i) PROVE VerdictInv'
  BY <1>4, PutNoVerdict, RefusedNoVerdict, UnansweredNoVerdict DEF RouteVerifier, Running
<1>5. ASSUME NEW i \in Slots, RouteHandler(i) \/ RouteAuthenticator(i) PROVE VerdictInv'
  BY <1>5, DispatchNoVerdict, RefusedNoVerdict DEF RouteHandler, RouteAuthenticator
<1>6. ASSUME NEW i \in Slots, Respond(i) PROVE VerdictInv'
  BY <1>6, PutNoVerdict, UnansweredNoVerdict DEF Respond, Free
<1>7. CASE ShutdownTimesOut \/ ListenerFails
  <2>1. slot' = [i \in Slots |-> Free]
    BY <1>7 DEF ShutdownTimesOut, ListenerFails, Abandon
  <2> QED BY <2>1 DEF VerdictInv, NoVerdict, Free
<1> QED BY <1>1, <1>2, <1>3, <1>4, <1>5, <1>6, <1>7, FinishNoVerdict DEF Next, Serves

\* writeHandlerError, writeVerifierError and recoverPanic: no panic, no plain error
\* and no forgotten outcome is ever told as a verdict.
THEOREM FaultsAreNoVerdicts == Spec => []FaultIsNoVerdict
<1>1. Init => VerdictInv
  BY DEF Init, VerdictInv, NoVerdict, Free
<1>2. VerdictInv => FaultIsNoVerdict
  BY DEF VerdictInv, NoVerdict, FaultIsNoVerdict
<1> QED BY <1>1, <1>2, VerdictStep, PTL DEF Spec

-----------------------------------------------------------------------------
(* The handler's bound. *)

\* A product that fits a time.Duration does not wrap.
LEMMA DurationIsTheProduct ==
  ASSUME NEW ms \in 0..DurationSpan - 1
  PROVE  Duration(ms) = ms
<1>1. DurationSpan \in Nat /\ ms \in Nat /\ ms + DurationSpan \in 0..2 * DurationSpan - 1
  BY ConstantsAssumption
<1>2. ASSUME NEW n \in Nat, NEW a \in 0..n - 1 PROVE a % n = a
  OBVIOUS
<1>3. (ms + DurationSpan) % (2 * DurationSpan) = ms + DurationSpan
  BY <1>1, <1>2
<1> QED BY <1>1, <1>3 DEF Duration

\* A product that wraps comes out smaller, and is never the span itself.
LEMMA DurationNeverLonger ==
  ASSUME NEW ms \in Nat
  PROVE  Duration(ms) \in Int /\ Duration(ms) <= ms /\ Duration(ms) # NoBound
<1>1. ASSUME NEW a \in Nat, NEW n \in Nat \ {0} PROVE a % n \in 0..(n - 1) /\ a % n <= a
  <2>1. a % n \in 0..(n - 1)
    OBVIOUS
  <2>2. CASE a < n
    BY <2>2
  <2>3. CASE a >= n
    BY <2>1, <2>3
  <2> QED BY <2>1, <2>2, <2>3
<1>2. DurationSpan \in Nat /\ ms + DurationSpan \in Nat /\ 2 * DurationSpan \in Nat \ {0}
  BY ConstantsAssumption
<1>3. /\ (ms + DurationSpan) % (2 * DurationSpan) \in 0..(2 * DurationSpan - 1)
      /\ (ms + DurationSpan) % (2 * DurationSpan) <= ms + DurationSpan
  BY <1>1, <1>2
<1> QED BY <1>2, <1>3 DEF Duration, NoBound

\* The header and the bound a handler is dispatched with.
Within(timeout, bound) ==
  timeout # 0 => /\ bound # NoBound /\ bound <= timeout
                 /\ timeout < DurationSpan => bound = timeout

Bounded(s) ==
  s.stage = "running" /\ s.family = "handler" => Within(s.request.timeout, s.bound)

BoundInv == DOMAIN slot = Slots /\ \A i \in Slots : Bounded(slot[i])

LEMMA PutBounded ==
  ASSUME BoundInv, NEW i \in Slots, NEW s, Put(i, s), Bounded(s)
  PROVE  BoundInv'
<1>1. DOMAIN slot' = Slots /\ \A j \in Slots : slot'[j] \in {s, slot[j]}
  BY PutKeeps DEF BoundInv
<1>2. \A j \in Slots : Bounded(slot'[j])
  BY <1>1 DEF BoundInv
<1> QED BY <1>1, <1>2 DEF BoundInv, Bounded

\* What does not run has no bound.
LEMMA IdleBounded == ASSUME NEW s, s.stage # "running" PROVE Bounded(s)
BY DEF Bounded

LEMMA RefusedBounded ==
  ASSUME BoundInv, NEW i \in Slots, NEW type, Refuse(i, type)
  PROVE  BoundInv'
BY PutBounded, IdleBounded DEF Refuse, Answered

\* withHandlerTimeout refuses a negative header before it multiplies.
LEMMA DispatchBounded ==
  ASSUME TypeOK, BoundInv, NEW i \in Slots, Received(i), NEW claims, NEW credential,
         Dispatch(i, claims, credential)
  PROVE  BoundInv'
<1> DEFINE r == slot[i].request
           bound == IF r.timeout = 0 THEN NoBound ELSE Duration(r.timeout)
           s == Running(r, "handler", claims, credential, bound)
<1>1. r \in Requests
  BY ReceivedTyped DEF Received
<1>2. CASE HandlerRefusal(r) # "none"
  BY <1>2, RefusedBounded DEF Dispatch
<1>3. CASE HandlerRefusal(r) = "none"
  <2>1. r.timeout \in Int /\ ~ (r.timeout < 0)
    BY <1>1, <1>3, ConstantsAssumption DEF Request, HandlerRefusal
  <2>2. r.timeout < DurationSpan => Duration(r.timeout) = r.timeout
    <3>1. r.timeout < DurationSpan => r.timeout \in 0..DurationSpan - 1
      BY <2>1, ConstantsAssumption
    <3> QED BY <3>1, DurationIsTheProduct
  <2>3. Within(r.timeout, bound)
    <3>1. r.timeout \in Nat
      BY <2>1
    <3>2. Duration(r.timeout) <= r.timeout /\ Duration(r.timeout) # NoBound
      BY <3>1, DurationNeverLonger
    <3> QED BY <2>2, <3>2 DEF Within
  <2> HIDE DEF bound, r
  <2>4. Bounded(s)
    BY <2>3 DEF Bounded, Running
  <2> QED BY <1>3, <2>4, PutBounded DEF Dispatch, bound, r
<1> QED BY <1>2, <1>3

LEMMA BoundStep == TypeOK /\ BoundInv /\ [Next]_vars => BoundInv'
<1> SUFFICES ASSUME TypeOK, BoundInv, [Next]_vars PROVE BoundInv'
  OBVIOUS
<1>1. CASE Start \/ Signal \/ Drained \/ UNCHANGED vars
  <2>1. slot' = slot
    BY <1>1 DEF Start, Signal, Drained, vars
  <2> QED BY <2>1 DEF BoundInv, Bounded
<1>2. ASSUME NEW i \in Slots, NEW r \in Requests, Accept(i, r) PROVE BoundInv'
  BY <1>2, PutBounded, IdleBounded DEF Accept
<1>3. ASSUME NEW i \in Slots, RefuseFrame(i) PROVE BoundInv'
  BY <1>3, RefusedBounded DEF RefuseFrame
<1>4. ASSUME NEW i \in Slots, RouteVerifier(i) PROVE BoundInv'
  <2> DEFINE r == slot[i].request
             s == Running(r, "verifier", r.token, IF r.runAs THEN "runAs" ELSE "none", NoBound)
  <2>1. Bounded(s)
    BY DEF Bounded, Running
  <2> QED BY <1>4, <2>1, PutBounded, RefusedBounded DEF RouteVerifier
<1>5. ASSUME NEW i \in Slots, RouteHandler(i) \/ RouteAuthenticator(i) PROVE BoundInv'
  BY <1>5, DispatchBounded, RefusedBounded DEF RouteHandler, RouteAuthenticator
<1>6. ASSUME NEW i \in Slots, NEW said, Finish(i, said) PROVE BoundInv'
  BY <1>6, PutBounded, IdleBounded DEF Finish, Answered
<1>7. ASSUME NEW i \in Slots, Respond(i) PROVE BoundInv'
  BY <1>7, PutBounded, IdleBounded DEF Respond, Free
<1>8. CASE ShutdownTimesOut \/ ListenerFails
  <2>1. slot' = [i \in Slots |-> Free]
    BY <1>8 DEF ShutdownTimesOut, ListenerFails, Abandon
  <2> QED BY <2>1 DEF BoundInv, Bounded, Free
<1> QED BY <1>1, <1>2, <1>3, <1>4, <1>5, <1>6, <1>7, <1>8 DEF Next, Serves

\* A handler whose request carries a timeout header runs under a bound, never past the
\* header and the header's own wherever a time.Duration holds it (withHandlerTimeout).
THEOREM HandlersAreBounded == Spec => []BoundWithinHeader
<1>1. Init => BoundInv
  BY DEF Init, BoundInv, Bounded, Free
<1>2. TypeOK /\ BoundInv /\ [Next]_vars => BoundInv'
  BY BoundStep
<1>3. BoundInv => BoundWithinHeader
  BY DEF BoundInv, Bounded, Within, BoundWithinHeader, Runs
<1> QED BY <1>1, <1>2, <1>3, TypeCorrect, PTL DEF Spec

-----------------------------------------------------------------------------
(* The shutdown. *)

BootInv == DOMAIN slot = Slots /\ (phase = "boot" => \A i \in Slots : slot[i] = Free)

\* A request in service stays in service or is answered, while its server runs.
LEMMA ServiceStep ==
  ASSUME BootInv, Next, NEW i \in Slots, slot[i].stage \in {"received", "running"}
  PROVE  \/ slot'[i].stage # "free" /\ phase' \in {"serving", "draining"}
         \/ phase' \in {"timedOut", "failed"}
<1>1. slot[i] # Free
  BY DEF Free
<1>2. ASSUME NEW j \in Slots, NEW s, Put(j, s), phase \in {"serving", "draining"},
             j = i => s.stage # "free"
      PROVE  slot'[i].stage # "free" /\ phase' \in {"serving", "draining"}
  BY <1>2, PutKeeps DEF BootInv
<1>3. ASSUME NEW j \in Slots, NEW r \in Requests, Accept(j, r)
      PROVE  slot'[i].stage # "free" /\ phase' \in {"serving", "draining"}
  BY <1>1, <1>2, <1>3 DEF Accept
<1>4. ASSUME NEW j \in Slots,
             \/ RefuseFrame(j) \/ RouteVerifier(j) \/ RouteHandler(j) \/ RouteAuthenticator(j)
      PROVE  slot'[i].stage # "free" /\ phase' \in {"serving", "draining"}
  <2>1. phase \in {"serving", "draining"}
    BY <1>4 DEF RefuseFrame, RouteVerifier, RouteHandler, RouteAuthenticator, Received
  <2>2. \E s : Put(j, s) /\ s.stage \in {"answered", "running"}
    <3>1. CASE RefuseFrame(j)
      BY <3>1 DEF RefuseFrame, Refuse, Answered
    <3>2. CASE RouteVerifier(j)
      BY <3>2 DEF RouteVerifier, Refuse, Answered, Running
    <3>3. CASE RouteHandler(j)
      BY <3>3 DEF RouteHandler, Dispatch, Refuse, Answered, Running
    <3>4. CASE RouteAuthenticator(j)
      BY <3>4 DEF RouteAuthenticator, Dispatch, Refuse, Answered, Running
    <3> QED BY <1>4, <3>1, <3>2, <3>3, <3>4
  <2> QED BY <1>2, <2>1, <2>2
<1>5. ASSUME NEW j \in Slots, NEW said, Finish(j, said)
      PROVE  slot'[i].stage # "free" /\ phase' \in {"serving", "draining"}
  BY <1>2, <1>5 DEF Finish, Answered
<1>6. ASSUME NEW j \in Slots, Respond(j)
      PROVE  slot'[i].stage # "free" /\ phase' \in {"serving", "draining"}
  BY <1>2, <1>6 DEF Respond
<1>7. CASE Start \/ Signal \/ Drained \/ ShutdownTimesOut \/ ListenerFails
  BY <1>1, <1>7 DEF Start, Signal, Drained, ShutdownTimesOut, ListenerFails, Abandon, BootInv
<1> QED BY <1>3, <1>4, <1>5, <1>6, <1>7 DEF Next, Serves

\* No request is lost but to the shutdown deadline or a listener that failed.
THEOREM NothingDropped == Spec => NoneDropped
<1>1. TypeOK /\ BootInv /\ [Next]_vars => BootInv'
  <2> SUFFICES ASSUME TypeOK, BootInv, [Next]_vars PROVE BootInv'
    OBVIOUS
  <2>1. TypeOK'
    BY TypeStep
  <2>2. phase' = "boot" => UNCHANGED vars
    BY DEF Next, Serves, Start, Accept, RefuseFrame, RouteVerifier, RouteHandler, RouteAuthenticator,
           Dispatch, Refuse, Received, Finish, Respond, Signal, Drained, ShutdownTimesOut,
           ListenerFails, Abandon, Put
  <2> QED BY <2>1, <2>2 DEF TypeOK, BootInv, vars
<1>2. Init => BootInv
  BY DEF Init, BootInv
<1>3. BootInv /\ [Next]_vars =>
        [\A i \in Slots :
           slot[i].stage \in {"received", "running"} =>
             \/ slot'[i].stage # "free" /\ phase' \in {"serving", "draining"}
             \/ phase' \in {"timedOut", "failed"}]_vars
  BY ServiceStep
<1> QED BY <1>1, <1>2, <1>3, TypeCorrect, PTL DEF Spec, NoneDropped
=============================================================================
