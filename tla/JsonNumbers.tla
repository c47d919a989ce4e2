----------------------------- MODULE JsonNumbers -----------------------------
(***************************************************************************)
(* jsondoc.ValidateNumbers: the walk over a Go value, before it is         *)
(* serialized, that refuses a number which JSON would not keep and a value *)
(* that contains itself (jsondoc/numbers.go).  It goes through pointers,   *)
(* maps, slices and arrays, and passes a struct without a look inside.     *)
(*                                                                         *)
(* The calls of validateNumbers in progress are a path.  What each kind of *)
(* number must satisfy is abstracted to whether it is safe; an interface   *)
(* is the value in it.  Elements are taken in any order: a map has none,   *)
(* and no property depends on a slice's.                                   *)
(***************************************************************************)
EXTENDS SequencesExt

CONSTANTS
  Values,   \* the Go values of a document
  Places,   \* types and addresses: containerVisit
  Documents \* what callers validate

Scalars == {"plain", "unsafe"} \* unsafe: a number JSON would not keep
Tracked == {"pointer", "map", "slice"}   \* what can contain itself
InPlace == {"array", "struct"}           \* what holds its elements in itself
Kinds   == Scalars \cup Tracked \cup InPlace

Document == [root: Values, kind: [Values -> Kinds], kids: [Values -> SUBSET Values],
             place: [Values -> Places]]

IsTracked(d, v) == d.kind[v] \in Tracked
SameVisit(d, v, w) == IsTracked(d, v) /\ IsTracked(d, w) /\ d.place[v] = d.place[w]

\* What validateNumbers goes on to: it has no case for a struct.
Elements(d, v) == IF d.kind[v] = "struct" THEN {} ELSE d.kids[v]

\* What Go can build.  Two slices may begin at one address: one is then a prefix of
\* the other.  What holds its elements in itself is never among them.
IsGo(d) ==
  /\ \A v \in Values : d.kind[v] \in Scalars => d.kids[v] = {}
  /\ \A v \in Values : d.kind[v] = "pointer" => \E w \in Values : d.kids[v] = {w}
  /\ \A v, w \in Values : SameVisit(d, v, w) /\ v # w =>
       /\ d.kind[v] = "slice" /\ d.kind[w] = "slice"
       /\ d.kids[v] \subseteq d.kids[w] \/ d.kids[w] \subseteq d.kids[v]
  /\ \A S \in SUBSET {v \in Values : d.kind[v] \in InPlace} :
       S # {} => \E v \in S : d.kids[v] \cap S = {}

ASSUME ConstantsAssumption == Documents \subseteq Document /\ \A d \in Documents : IsGo(d)

VARIABLES
  doc,
  path,     \* calls in progress: a value, and its elements not yet come to
  visiting, \* the map of that name
  verdict,  \* "none" yet, "ok", or the error: "unsafe" or "cyclic"
  checked   \* history: the values whose call returned nil

vars == <<doc, path, visiting, verdict, checked>>

Call == [value: Values, todo: SUBSET Values]

Init ==
  /\ doc \in Documents
  /\ path = << >> /\ visiting = {} /\ verdict = "none" /\ checked = {}

-----------------------------------------------------------------------------
\* A call returns nil, to its caller's loop or to ValidateNumbers.
Passes(v, callers) ==
  /\ checked' = checked \cup {v}
  /\ path' = callers
  /\ verdict' = IF callers = << >> THEN "ok" ELSE "none"

\* An error ends every call in progress, and each deferred delete runs.
Fails(why) == verdict' = why /\ path' = << >> /\ visiting' = {} /\ UNCHANGED checked

Enters(v, callers) ==
  path' = Append(callers, [value |-> v, todo |-> Elements(doc, v)]) /\ UNCHANGED <<verdict, checked>>

\* Mutant: an array's elements are not looked at.
ValidateNoArray(v, callers) ==
  \/ doc.kind[v] \in {"plain", "struct", "array"} /\ Passes(v, callers) /\ UNCHANGED visiting
  \/ doc.kind[v] = "unsafe" /\ Fails("unsafe")
  \/ IsTracked(doc, v) /\ doc.place[v] \in visiting /\ Fails("cyclic")
  \/ /\ IsTracked(doc, v) /\ doc.place[v] \notin visiting
     /\ visiting' = visiting \cup {doc.place[v]} /\ Enters(v, callers)

\* validateNumbers up to its loop.
Validate(v, callers) ==
  \/ doc.kind[v] \in {"plain", "struct"} /\ Passes(v, callers) /\ UNCHANGED visiting
  \/ doc.kind[v] = "unsafe" /\ Fails("unsafe")
  \/ IsTracked(doc, v) /\ doc.place[v] \in visiting /\ Fails("cyclic")
  \/ doc.kind[v] = "array" /\ Enters(v, callers) /\ UNCHANGED visiting
  \/ /\ IsTracked(doc, v) /\ doc.place[v] \notin visiting
     /\ visiting' = visiting \cup {doc.place[v]} /\ Enters(v, callers)

Top == path[Len(path)]

ValidateRoot ==
  /\ verdict = "none" /\ path = << >>
  /\ Validate(doc.root, << >>)
  /\ UNCHANGED doc

\* Mutant: the loop does not go on to the next element.
ValidateSameElement ==
  /\ verdict = "none" /\ path # << >>
  /\ \E v \in Top.todo : Validate(v, path)
  /\ UNCHANGED doc

ValidateElement ==
  /\ verdict = "none" /\ path # << >>
  /\ \E v \in Top.todo : Validate(v, [path EXCEPT ![Len(path)].todo = @ \ {v}])
  /\ UNCHANGED doc

\* Mutant: a value stays marked when its call returns.
ReturnKeepingMark ==
  /\ verdict = "none" /\ path # << >> /\ Top.todo = {}
  /\ Passes(Top.value, Front(path))
  /\ UNCHANGED <<doc, visiting>>

Return ==
  /\ verdict = "none" /\ path # << >> /\ Top.todo = {}
  /\ Passes(Top.value, Front(path))
  /\ visiting' = visiting \ (IF IsTracked(doc, Top.value) THEN {doc.place[Top.value]} ELSE {})
  /\ UNCHANGED doc

Next == ValidateRoot \/ ValidateElement \/ Return

Spec == Init /\ [][Next]_vars

\* One goroutine, which waits for nothing.
FairSpec == Spec /\ WF_vars(Next)

-----------------------------------------------------------------------------
(***************************************************************************)
(* Properties.                                                             *)
(***************************************************************************)

\* Types; what is marked is what the calls in progress are about.
TypeOK ==
  /\ doc \in Documents
  /\ path \in Seq(Call)
  /\ verdict \in {"none", "ok", "unsafe", "cyclic"}
  /\ checked \in SUBSET Values
  /\ visiting = {doc.place[path[i].value] :
                   i \in {j \in DOMAIN path : IsTracked(doc, path[j].value)}}

\* All that the walk can come to, and all that there is.
Closed(d, S) == \A v \in S : Elements(d, v) \subseteq S
Seen(d) == {v \in Values : \A S \in SUBSET Values : d.root \in S /\ Closed(d, S) => v \in S}
Reachable(d) ==
  {v \in Values : \A S \in SUBSET Values :
                    d.root \in S /\ (\A w \in S : d.kids[w] \subseteq S) => v \in S}

\* From each of them one comes to another of them, without an end.
Endless(d, S) == S # {} /\ \A v \in S : Elements(d, v) \cap S # {}
ContainsItself(d) == \E S \in SUBSET Seen(d) : Endless(d, S)

\* "It checks nested maps, slices and arrays" (README.md:170), and pointers: however deep
\* these nest and whatever they share, what passes holds no unsafe number outside a
\* struct and leads back to itself only through one.
AcceptedIsSafe ==
  verdict = "ok" => /\ \A v \in Seen(doc) : doc.kind[v] # "unsafe"
                    /\ ~ContainsItself(doc)

\* ValidateNumbers "rejects numeric values that cannot retain ..." (numbers.go:19-20): no
\* unsafe number passes in any part, nor anything without an end.
SafeThroughout ==
  verdict = "ok" =>
    /\ \A v \in Reachable(doc) : doc.kind[v] # "unsafe"
    /\ \A S \in SUBSET Reachable(doc) : S # {} => \E v \in S : doc.kids[v] \cap S = {}

\* What is refused has what it is refused for, unless two slices begin at one address;
\* a value that is shared is not thereby cyclic.
RefusedForCause ==
  /\ verdict = "unsafe" => \E v \in Seen(doc) : doc.kind[v] = "unsafe"
  /\ verdict = "cyclic" => \/ ContainsItself(doc)
                           \/ \E v, w \in Seen(doc) : v # w /\ SameVisit(doc, v, w)

\* The recursion never enters a value that could contain it a second time, so it is
\* no deeper than the document has values between arrays.
NoReentry ==
  \A i, j \in DOMAIN path : path[i].value = path[j].value => i = j \/ ~IsTracked(doc, path[i].value)

\* Every walk ends, also one over a value without an end.
Terminates == <>(verdict # "none")

\* The error's own words, "cyclic JSON value" (numbers.go:47 and 74): what is refused
\* with them contains itself.
CyclicIsCyclic == verdict = "cyclic" => ContainsItself(doc)
=============================================================================
