------------------------------ MODULE RpcServer ------------------------------
(***************************************************************************)
(* The sidecar's JSON-RPC server (runtime/serve.go): the startup gates of  *)
(* NewHandler, the path of a request from its body to a registered handler *)
(* or verifier, what either may answer, and Serve's graceful shutdown.     *)
(*                                                                         *)
(* A request is a record of what the checks tell apart.  The checks of one *)
(* request touch nothing another request can see, so they are one step,    *)
(* decided in the order the code makes them.  Handlers and verifiers run   *)
(* for as long as they like, concurrently, while the process is asked to   *)
(* stop.  They are external, and so are the platform that mints tokens and *)
(* the host that configures the process.                                   *)
(***************************************************************************)
EXTENDS Integers, Sequences, FiniteSets

CONSTANTS
  Slots,       \* requests in progress at once
  Methods,     \* JSON-RPC methods that are asked for
  Handlers,    \* methods with a registered handler
  Verifiers,   \* methods with a verifier, where any is registered
  Configs,     \* what hosts configure
  Requests,    \* the requests sent
  DurationSpan \* milliseconds a time.Duration holds before it wraps

\* jwt secret set; RequireToken; DECLARION_SIDECAR_ALLOW_UNVERIFIED=1; Authenticator;
\* and whether it registers its verifiers.
Config == [secret: BOOLEAN, requireToken: BOOLEAN, allowUnverified: BOOLEAN,
           authenticator: BOOLEAN, verifiers: BOOLEAN]

NoToken == [aud |-> <<>>, scope |-> "", signed |-> FALSE, live |-> FALSE,
            method |-> "", complete |-> FALSE]

\* live: not expired; complete: the identity claims and depth a token must carry;
\* method "": minted before tokens named theirs.
Token == [aud: {<<"handler">>, <<"verifier">>, <<"handler", "verifier">>,
                <<"verifier", "handler">>},
          scope: {"handler", "verifier"}, signed: BOOLEAN, live: BOOLEAN,
          method: Methods \cup {""}, complete: BOOLEAN]

\* timeout: the header's milliseconds, 0 for none, negative for one that is not a
\* positive whole number; params: a plain object, Core's verifier envelope, a
\* reserved key that is unknown or of the wrong type, or of no use to the handler.
Request == [frame: {"ok", "tooLarge", "unreadable", "notJSON", "otherProtocol",
                    "otherVersion"},
            token: Token \cup {NoToken}, method: Methods, timeout: Int,
            params: {"plain", "envelope", "reserved", "undecodable"},
            runAs: BOOLEAN]

ASSUME ConstantsAssumption ==
  /\ Handlers \subseteq Methods /\ Verifiers \subseteq Methods
  /\ Configs \subseteq Config
  /\ Requests \subseteq Request
  /\ DurationSpan \in Nat \ {0}

VARIABLES
  phase,  \* of the process: "boot", "refused", "serving", "draining", or how it ended
  config, \* what the host configured
  slot    \* the requests in progress

vars == <<phase, config, slot>>

Free == [stage |-> "free"]

Init ==
  /\ phase = "boot"
  /\ config \in Configs
  /\ slot = [i \in Slots |-> Free]

-----------------------------------------------------------------------------
(* NewHandler: a process that could not check its callers does not start. *)

\* Mutant: the test mode is allowed whatever RequireToken says.
RefusalWithoutRequireToken ==
  \/ ~config.authenticator /\ ~config.secret /\ ~config.allowUnverified
  \/ config.verifiers /\ ~config.secret

Refusal ==
  \/ ~config.authenticator /\ ~config.secret
       /\ (config.requireToken \/ ~config.allowUnverified)
  \/ config.verifiers /\ ~config.secret

Start ==
  /\ phase = "boot"
  /\ phase' = IF Refusal THEN "refused" ELSE "serving"
  /\ UNCHANGED <<config, slot>>

-----------------------------------------------------------------------------
(* handleRPC *)

Audience(token, family) == \E i \in DOMAIN token.aud : token.aud[i] = family

\* tokenAudience: a peek at the first audience picks the family, and no more.
Family(r) == IF r.token # NoToken /\ r.token.aud[1] = "verifier"
               THEN "verifier" ELSE "handler"

\* parseHandlerToken; without a secret the claims are read unverified.
HandlerTokenValid(token) ==
  /\ config.secret => token.signed /\ token.live /\ Audience(token, "handler")
  /\ token.scope = "handler" /\ token.complete

\* authenticateRequest without an Authenticator.
Authenticated(r) ==
  IF r.token = NoToken
    THEN ~config.requireToken
    ELSE /\ HandlerTokenValid(r.token)
         /\ r.token.method \in {"", r.method}

\* Mutant: the token is not bound to the method it names.
VerifierTokenOfAnyMethod(r) ==
  /\ r.token.signed /\ r.token.live /\ Audience(r.token, "verifier")
  /\ r.token.scope = "verifier" /\ r.token.complete

\* parseVerifierToken and the exact-method binding.
VerifierTokenValid(r) ==
  /\ r.token.signed /\ r.token.live /\ Audience(r.token, "verifier")
  /\ r.token.scope = "verifier"
  /\ r.token.complete /\ r.token.method = r.method

\* time.Duration(ms) * time.Millisecond wraps.
Duration(ms) == ((ms + DurationSpan) % (2 * DurationSpan)) - DurationSpan

NoBound == DurationSpan

\* handleRPC up to the protocol checks.
FrameRefusal(r) ==
  CASE r.frame = "tooLarge"      -> "platform.body_too_large"
    [] r.frame = "unreadable"    -> "platform.read_body_failed"
    [] r.frame = "notJSON"       -> "platform.invalid_body"
    [] r.frame = "otherProtocol" -> "handler.protocol_mismatch"
    [] r.frame = "otherVersion"  -> "platform.invalid_body_shape"
    [] OTHER                     -> "none"

HasVerifier(method) == config.verifiers /\ method \in Verifiers

\* handleVerifierDispatch
VerifierRefusal(r) ==
  CASE ~config.secret             -> "auth.unauthorized"
    [] ~VerifierTokenValid(r)     -> "auth.invalid_token"
    [] ~HasVerifier(r.method)      -> "handler.not_registered"
    [] r.params # "envelope"      -> "action.invalid_params"
    [] OTHER                      -> "none"

\* withHandlerTimeout, extractReservedParams, executeRegisteredHandler.
HandlerRefusal(r) ==
  CASE r.timeout < 0                        -> "handler.protocol_mismatch"
    [] r.params \in {"envelope", "reserved"} -> "action.invalid_params"
    [] r.method \notin Handlers             -> "handler.not_registered"
    [] r.params = "undecodable"             -> "action.invalid_params"
    [] OTHER                                -> "none"

\* A call in service: the claims it runs under, its credential for the platform,
\* and the time left when it began.
Running(r, family, claims, credential, bound) ==
  [stage |-> "running", request |-> r, family |-> family, claims |-> claims,
   credential |-> credential, bound |-> bound]

\* said: what the code that ran said; type: what the caller is told.
Answered(r, family, said, type) ==
  [stage |-> "answered", request |-> r, family |-> family, said |-> said, type |-> type]

Put(i, s) == slot' = [slot EXCEPT ![i] = s] /\ UNCHANGED <<phase, config>>

Accept(i, r) ==
  /\ phase = "serving" /\ slot[i] = Free
  /\ Put(i, [stage |-> "received", request |-> r])

Refuse(i, type) == Put(i, Answered(slot[i].request, "server", "refused", type))

Received(i) == phase \in {"serving", "draining"} /\ slot[i].stage = "received"

RefuseFrame(i) ==
  LET r == slot[i].request IN
  /\ Received(i) /\ FrameRefusal(r) # "none"
  /\ Refuse(i, FrameRefusal(r))

\* A verifier's platform client is built from the run-as header or not at all.
RouteVerifier(i) ==
  LET r == slot[i].request IN
  /\ Received(i) /\ FrameRefusal(r) = "none" /\ Family(r) = "verifier"
  /\ IF VerifierRefusal(r) # "none"
       THEN Refuse(i, VerifierRefusal(r))
       ELSE Put(i, Running(r, "verifier", r.token,
                           IF r.runAs THEN "runAs" ELSE "none", NoBound))

\* Mutant: a timeout past what a time.Duration holds is read as no bound.
DispatchUnbounded(i, claims, credential) ==
  LET r == slot[i].request IN
  IF HandlerRefusal(r) # "none"
    THEN Refuse(i, HandlerRefusal(r))
    ELSE Put(i, Running(r, "handler", claims, credential,
                        IF r.timeout \notin 1..DurationSpan - 1 THEN NoBound ELSE r.timeout))

\* The rest of handleRPC, once the claims and the platform credential are known.
Dispatch(i, claims, credential) ==
  LET r == slot[i].request IN
  IF HandlerRefusal(r) # "none"
    THEN Refuse(i, HandlerRefusal(r))
    ELSE Put(i, Running(r, "handler", claims, credential,
                        IF r.timeout = 0 THEN NoBound ELSE Duration(r.timeout)))

RouteHandler(i) ==
  LET r == slot[i].request IN
  /\ Received(i) /\ FrameRefusal(r) = "none" /\ Family(r) = "handler"
  /\ ~config.authenticator
  /\ IF Authenticated(r)
       THEN Dispatch(i, r.token, IF r.token = NoToken THEN "none" ELSE "call")
       ELSE Refuse(i, "auth.invalid_token")

\* A host's Authenticator refuses, or answers with claims and a credential it
\* vouches for.
RouteAuthenticator(i) ==
  LET r == slot[i].request IN
  /\ Received(i) /\ FrameRefusal(r) = "none" /\ Family(r) = "handler"
  /\ config.authenticator
  /\ \/ Refuse(i, "auth.invalid_token")
     \/ Dispatch(i, NoToken, "authenticator")

-----------------------------------------------------------------------------
(* What a handler or a verifier says, and what its caller is told. *)

\* writeHandlerError: a declared failure keeps its own type, wrapped or not.
HandlerAnswer(said) ==
  CASE said = "result"               -> "result"
    [] said \in {"typed", "wrapped"} -> "its own"
    [] said = "notFound"             -> "handler.not_registered"
    [] OTHER                         -> "platform.internal_error"

\* Mutants: the outcome is the type; what is not understood is a rejection.
VerifierAnswerVerbatim(said) == said
VerifierAnswerRejecting(said) ==
  CASE said = "result"         -> "result"
    [] said = "invalidRequest" -> "verifier.invalid_request"
    [] said = "unavailable"    -> "verifier.unavailable"
    [] OTHER                   -> "verifier.rejected"

\* writeVerifierError
VerifierAnswer(said) ==
  CASE said = "result"         -> "result"
    [] said = "reject"         -> "verifier.rejected"
    [] said = "invalidRequest" -> "verifier.invalid_request"
    [] OTHER                   -> "verifier.unavailable"

\* recoverPanic: a panic is one more thing it may say.
Says(family) ==
  {"result", "panic", "plain"} \cup
    IF family = "handler" THEN {"typed", "wrapped", "notFound"}
                          ELSE {"reject", "invalidRequest", "unavailable", "noOutcome"}

Finish(i, said) ==
  /\ phase \in {"serving", "draining"} /\ slot[i].stage = "running"
  /\ said \in Says(slot[i].family)
  /\ Put(i, Answered(slot[i].request, slot[i].family, said,
                     IF slot[i].family = "handler" THEN HandlerAnswer(said)
                                                   ELSE VerifierAnswer(said)))

\* The response is on the wire and the connection idle.
Respond(i) ==
  /\ phase \in {"serving", "draining"} /\ slot[i].stage = "answered"
  /\ Put(i, Free)

-----------------------------------------------------------------------------
(* Serve: a signal starts a shutdown that waits for the requests in progress,
   no longer than ShutdownTimeout; a listener that fails ends it at once. *)

\* Mutant: a signal closes the server instead of shutting it down.
SignalCloses ==
  /\ phase = "serving" /\ phase' = "stopped"
  /\ slot' = [i \in Slots |-> Free]
  /\ UNCHANGED config

Signal ==
  /\ phase = "serving" /\ phase' = "draining"
  /\ UNCHANGED <<config, slot>>

Drained ==
  /\ phase = "draining" /\ \A i \in Slots : slot[i] = Free
  /\ phase' = "stopped"
  /\ UNCHANGED <<config, slot>>

Abandon(why) ==
  /\ phase' = why
  /\ slot' = [i \in Slots |-> Free]
  /\ UNCHANGED config

\* Mutant: the shutdown waits with no deadline.
ShutdownWaits ==
  /\ phase = "draining" /\ \E i \in Slots : slot[i] # Free
  /\ UNCHANGED vars

ShutdownTimesOut ==
  /\ phase = "draining" /\ \E i \in Slots : slot[i] # Free
  /\ Abandon("timedOut")

ListenerFails ==
  /\ phase = "serving"
  /\ Abandon("failed")

-----------------------------------------------------------------------------
\* What the process does with the requests it has, and with itself.
Serves ==
  \/ Start
  \/ \E i \in Slots :
       \/ RefuseFrame(i)
       \/ RouteVerifier(i)
       \/ RouteHandler(i)
       \/ RouteAuthenticator(i)
       \/ \E said \in Says("handler") \cup Says("verifier") : Finish(i, said)
       \/ Respond(i)
  \/ Signal
  \/ Drained
  \/ ShutdownTimesOut
  \/ ListenerFails

Next == Serves \/ \E i \in Slots, r \in Requests : Accept(i, r)

Spec == Init /\ [][Next]_vars

\* Shutdown polls and its timer fires; what runs owes nothing.
FairSpec == Spec /\ WF_vars(Drained \/ ShutdownTimesOut)

-----------------------------------------------------------------------------
(***************************************************************************)
(* Properties.                                                             *)
(***************************************************************************)

Types == {"result", "its own", "platform.body_too_large", "platform.read_body_failed",
          "platform.invalid_body", "platform.invalid_body_shape", "platform.internal_error",
          "handler.protocol_mismatch", "handler.not_registered", "auth.unauthorized",
          "auth.invalid_token", "action.invalid_params", "verifier.rejected",
          "verifier.invalid_request", "verifier.unavailable"}

SlotType(s) ==
  \/ s = Free
  \/ /\ s.stage \in {"received", "running", "answered"} /\ s.request \in Requests
     /\ s.stage = "running" =>
          /\ s.family \in {"handler", "verifier"}
          /\ s.claims \in {NoToken, s.request.token}
          /\ s.credential \in {"none", "call", "runAs", "authenticator"}
          /\ s.bound \in -DurationSpan..DurationSpan
     /\ s.stage = "answered" =>
          s.family \in {"server", "handler", "verifier"} /\ s.type \in Types

\* Types; a time.Duration stays in its width.
TypeOK ==
  /\ phase \in {"boot", "refused", "serving", "draining", "stopped", "timedOut", "failed"}
  /\ config \in Configs
  /\ DOMAIN slot = Slots
  /\ \A i \in Slots : SlotType(slot[i])

Runs(s, family) == s.stage = "running" /\ s.family = family

\* NewHandler, authenticateRequest and parseHandlerToken together: a handler runs
\* under claims somebody vouches for - the host's Authenticator, or a signed live
\* handler token bound to this method. Unsigned claims run only where the host
\* asked for the test mode and required no token, and none at all only where it
\* required none.
Vouched(s) ==
  IF config.authenticator THEN s.claims = NoToken
  ELSE IF s.claims = NoToken THEN s.request.token = NoToken /\ ~config.requireToken
  ELSE /\ s.claims = s.request.token
       /\ s.claims.scope = "handler" /\ s.claims.method \in {"", s.request.method}
       /\ \/ s.claims.signed /\ s.claims.live /\ Audience(s.claims, "handler")
          \/ config.allowUnverified /\ ~config.requireToken /\ ~config.secret

AuthorityProven == \A i \in Slots : Runs(slot[i], "handler") => Vouched(slot[i])

\* handleVerifierDispatch: a verifier runs only for a signed live token made for
\* that one method, in every configuration, and the token that called it is never
\* its credential for the platform.
Powerless(s) ==
  /\ s.claims.signed /\ s.claims.live /\ s.claims.scope = "verifier"
  /\ s.claims.method = s.request.method
  /\ s.credential \in {"none", "runAs"}

VerifierPowerless == \A i \in Slots : Runs(slot[i], "verifier") => Powerless(slot[i])

\* writeVerifierError: a fault of the verifier's own, a panic or an outcome it
\* forgot to set never becomes a refusal the provider takes for final.
FaultIsNoVerdict ==
  \A i \in Slots :
    slot[i].stage = "answered" /\ slot[i].said \in {"panic", "plain", "noOutcome"} =>
      slot[i].type \in {"platform.internal_error", "verifier.unavailable"}

\* Serve: a request that was accepted is served until it is answered, and a server
\* that stopped owes no answer, unless the shutdown ran out of time or the listener
\* failed.
NoneDropped ==
  [][\A i \in Slots :
       slot[i].stage \in {"received", "running"} =>
         \/ slot'[i].stage # "free" /\ phase' \in {"serving", "draining"}
         \/ phase' \in {"timedOut", "failed"}]_vars

\* Serve: once signalled it returns, whatever the handlers do.
ShutdownEnds == phase = "draining" ~> phase \in {"stopped", "timedOut"}

\* withHandlerTimeout "bounds the handler by what the platform said it will wait": a
\* timeout header is never read as no bound, and the bound is the header's, or an
\* earlier one where the header says more than a time.Duration holds.
BoundWithinHeader ==
  \A i \in Slots : Runs(slot[i], "handler") /\ slot[i].request.timeout # 0 =>
    /\ slot[i].bound # NoBound
    /\ slot[i].bound <= slot[i].request.timeout
    /\ slot[i].request.timeout < DurationSpan => slot[i].bound = slot[i].request.timeout
=============================================================================
