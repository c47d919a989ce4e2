---------------------------- MODULE MCJsonNumbers ----------------------------
(* Small instances of JsonNumbers for TLC. *)
EXTENDS JsonNumbers

CONSTANTS a, b, c

\* Each value at a place of its own, or two of them at one.
EveryPlace ==
  LET own == [v \in Values |-> v] IN
  {own} \cup {[own EXCEPT ![v] = w] : v, w \in Values}

\* Every graph of three values below a root.
EveryDocument ==
  {d \in [root: {a}, kind: [Values -> Kinds],
          kids: [Values -> SUBSET Values], place: EveryPlace] : IsGo(d)}
=============================================================================
