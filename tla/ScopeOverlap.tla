--------------------------- MODULE ScopeOverlap ---------------------------
(***************************************************************************)
(* The scopes a work item declares and the test that decides whether two   *)
(* of them touch the same part of the repository (internal/coordination).  *)
(*                                                                         *)
(* A locator is the sequence of its path segments: the repository root "." *)
(* is <<>>, "internal/api" is <<"internal", "api">>.  A string prefix up   *)
(* to a "/" is then exactly a sequence prefix.                             *)
(***************************************************************************)
EXTENDS Integers, SequencesExt

CONSTANTS Segments,   \* the names a directory or a file may have
          MaxScopes   \* the most scopes one request may declare (50)

ASSUME ScopeAssumption ==
    /\ MaxScopes \in Nat \ {0}
    /\ {"..", "."} \cap Segments = {}

Kinds == {"repository", "path", "file"}
Modes == {"exclusive", "shared"}
Locators == Seq(Segments)
Scope == [kind : Kinds, locator : Locators, mode : Modes]

(***************************************************************************)
(* normalizeScopes.                                                        *)
(***************************************************************************)
CleanSegmentPastRoot(done, segment) ==
    CASE segment = "." -> done
      [] segment = ".." /\ done # <<>> -> Front(done)
      [] OTHER -> Append(done, segment)

\* The step path.Clean takes on one segment of a relative path.
CleanSegment(done, segment) ==
    CASE segment = "." -> done
      [] segment = ".." /\ done # <<>> /\ Last(done) # ".." -> Front(done)
      [] OTHER -> Append(done, segment)

\* What is left of the path after each of its segments.
Cleaned(segments) ==
    LET done[n \in 0..Len(segments)] ==
            IF n = 0 THEN <<>> ELSE CleanSegment(done[n - 1], segments[n])
    IN done

Clean(segments) == Cleaned(segments)[Len(segments)]

ValidLocatorByFirstSegment(raw) ==
    /\ ~raw.absolute
    /\ raw.segments # <<>>
    /\ Head(raw.segments) # ".."

\* A raw locator stays inside the repository and names something below its root.
ValidLocator(raw) ==
    /\ ~raw.absolute
    /\ raw.segments # <<>>
    /\ Clean(raw.segments) # <<>>
    /\ Head(Clean(raw.segments)) # ".."

ValidRaw(raw) == raw.kind = "repository" \/ ValidLocator(raw)

Normalized(raw) ==
    [kind    |-> raw.kind,
     locator |-> IF raw.kind = "repository" THEN <<>> ELSE Clean(raw.segments),
     mode    |-> raw.mode]

\* The request is refused whole when one scope is invalid; equal scopes collapse.
NormalizeScopes(raws) ==
    IF /\ Len(raws) \in 1..MaxScopes
       /\ \A raw \in ToSet(raws) : ValidRaw(raw)
    THEN {Normalized(raw) : raw \in ToSet(raws)}
    ELSE {}

(***************************************************************************)
(* scopesOverlap and the blocking rule of loadScopeOverlaps.               *)
(***************************************************************************)
PathContains(parent, child) == IsPrefix(parent, child)

ScopesOverlapOneWay(left, right) ==
    \/ "repository" \in {left.kind, right.kind}
    \/ left.kind = "file" /\ left.locator = right.locator
    \/ left.kind = "path" /\ PathContains(left.locator, right.locator)

ScopesOverlap(left, right) ==
    \/ "repository" \in {left.kind, right.kind}
    \/ /\ left.kind = "file" /\ right.kind = "file"
       /\ left.locator = right.locator
    \/ /\ left.kind = "path"
       /\ PathContains(left.locator, right.locator)
    \/ /\ right.kind = "path"
       /\ PathContains(right.locator, left.locator)

Blocking(requested, existing) ==
    /\ ScopesOverlap(requested, existing)
    /\ "exclusive" \in {requested.mode, existing.mode}

\* upsertResourceRef identifies a resource by kind and locator, not by mode.
SameResource(left, right) ==
    left.kind = right.kind /\ left.locator = right.locator

(***************************************************************************)
(* What the overlap test is for.  Covers is the set of files a scope lets  *)
(* its holder edit, and two scopes must overlap exactly when some file     *)
(* belongs to both.                                                        *)
(***************************************************************************)
Covers(scope, file) ==
    CASE scope.kind = "repository" -> TRUE
      [] scope.kind = "path" -> PathContains(scope.locator, file)
      [] scope.kind = "file" -> scope.locator = file

ShareFile(left, right, files) ==
    \E file \in files : Covers(left, file) /\ Covers(right, file)

\* A raw path escapes the repository when some prefix of it climbs above the
\* root, and it is the root when it climbs back to it.
Climb(segments, n) ==
    Cardinality({i \in 1..n : segments[i] \in Segments})
      - Cardinality({i \in 1..n : segments[i] = ".."})

StaysBelowRoot(segments) ==
    /\ \A n \in 1..Len(segments) : Climb(segments, n) >= 0
    /\ Climb(segments, Len(segments)) > 0
=============================================================================
