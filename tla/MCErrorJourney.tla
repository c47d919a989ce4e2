---------------------------- MODULE MCErrorJourney ----------------------------
(* Small instances of ErrorJourney for TLC. *)
EXTENDS ErrorJourney, TLC

CONSTANTS s1, s2, busy, wordy, odd

Symmetry == Permutations({s1, s2})

\* A type longer than what a replacement quotes of it, and short ones.
Weights == [c \in AllCodes |-> IF c = wordy THEN 3 ELSE 1]

\* What one module set declares, and another that knows neither wordy nor the
\* transport types.
Declares(known, again) ==
  [c \in known |-> [retryable |-> again, title |-> IF c = busy THEN 3 ELSE 1]]

Loaded == {Declares(AllCodes \ {odd}, TRUE),
           Declares(AllCodes \ (TransportTypes \cup {wordy, odd}), FALSE)}
=============================================================================
