----------------------------- MODULE MCRpcServer -----------------------------
(* Small instances of RpcServer for TLC. *)
EXTENDS RpcServer

CONSTANTS m, v, s1, s2

Sent(frames, tokens, timeouts, params, runAs) ==
  [frame: frames, token: tokens, method: Methods, timeout: timeouts, params: params,
   runAs: runAs]

\* Every token, for every method, in well-formed requests.
EveryToken == Sent({"ok"}, Token \cup {NoToken}, {0}, {"plain", "envelope"}, BOOLEAN)
EveryConfig == Config

\* Few tokens, and every way a request can fail around them.
Good(family, method) ==
  [aud |-> <<family>>, scope |-> family, signed |-> TRUE, live |-> TRUE,
   method |-> method, complete |-> TRUE]
EveryRequest ==
  Sent({"tooLarge", "unreadable", "notJSON", "otherProtocol", "otherVersion"},
       {NoToken}, {0}, {"plain"}, {FALSE})
    \cup Sent({"ok"}, {Good("handler", m), Good("verifier", v)}, {0, -1, 2, 9},
              {"plain", "envelope", "reserved", "undecodable"}, {FALSE})
Production == [secret: {TRUE}, requireToken: {TRUE}, allowUnverified: {FALSE},
               authenticator: BOOLEAN, verifiers: {TRUE}]

\* Two loads in one instance: under the production configuration both slots take
\* every request, and under every configuration one slot takes every token.
EveryLoad == EveryToken \cup EveryRequest
Busy == {i \in Slots : slot[i] # Free}
Offered(i) ==
  (IF config \in Production /\ \A j \in Busy : slot[j].request \in EveryRequest
     THEN EveryRequest ELSE {})
  \cup (IF i = s1 /\ Busy = {} THEN EveryToken ELSE {})
LoadSpec ==
  /\ Init
  /\ [][Serves \/ \E i \in Slots : \E r \in Offered(i) : Accept(i, r)]_vars
  /\ WF_vars(Drained \/ ShutdownTimesOut)
=============================================================================
