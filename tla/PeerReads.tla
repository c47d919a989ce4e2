------------------------------- MODULE PeerReads -------------------------------
(***************************************************************************)
(* What the platform client makes of a body whose size the peer chooses    *)
(* (platform/references.go, fileref/key.go): a stored file is read up to   *)
(* the caller's limit, one more byte is probed for, and what was read must *)
(* have the digest its key names.                                          *)
(*                                                                         *)
(* A digest is abstracted to what it tells apart: the bytes read have the  *)
(* key's digest when they are all of the stored file and it is intact.     *)
(***************************************************************************)
EXTENDS Naturals

CONSTANTS
  MaxSize,  \* bound: bytes of a stored file
  Limits    \* read limits callers pass; 0 is refused

\* The stored file and what of it arrives before the body ends, cleanly or cut.
Body == [size: 0..MaxSize, arrived: 0..MaxSize, end: {"eof", "cut"}, intact: BOOLEAN]
Bodies == {b \in Body : b.arrived <= b.size}

Lesser(a, b) == IF a < b THEN a ELSE b

\* io.ReadAll over a LimitReader: a cut shows only if it comes before the limit.
ReadUpTo(b, limit) == Lesser(b.arrived, limit)
CutWithin(b, limit) == b.end = "cut" /\ b.arrived < limit

\* fileref.VerifyContent, with no expected size.
Verified(b, got) == b.intact /\ got = b.size

\* Mutant: a body of the limit's length is taken without a probe.
FileVerdictUnprobed(b, limit) ==
  LET got == ReadUpTo(b, limit) IN
  IF CutWithin(b, limit)  THEN "unreadable"
  ELSE IF Verified(b, got) THEN "content" ELSE "digest"

\* ReadFileReferenceRuntime from a 2xx on.  The probe asks for one byte beyond the
\* limit; a cut exactly at the limit shows only there.
FileVerdict(b, limit) ==
  LET got == ReadUpTo(b, limit) IN
  IF CutWithin(b, limit)                     THEN "unreadable"
  ELSE IF got = limit /\ b.arrived > limit   THEN "limit"
  ELSE IF got = limit /\ b.end = "cut"       THEN "unreadable"
  ELSE IF Verified(b, got) THEN "content" ELSE "digest"
=============================================================================
