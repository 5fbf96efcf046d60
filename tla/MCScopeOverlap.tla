-------------------------- MODULE MCScopeOverlap --------------------------
(***************************************************************************)
(* Exhausts requests of two raw scopes: locators of up to three segments   *)
(* over two names, "." and "..", absolute or not, in every kind and mode.  *)
(***************************************************************************)
EXTENDS ScopeOverlap

CONSTANT MaxDepth  \* the longest raw locator that is tried

ASSUME DepthAssumption == MaxDepth \in Nat

VARIABLES raws,    \* the request as the client sent it
          scopes   \* {} until it is normalised, and when it is refused

vars == <<raws, scopes>>

RawLocators == UNION {[1..n -> Segments \cup {"..", "."}] : n \in 0..MaxDepth}
CleanLocators == UNION {[1..n -> Segments] : n \in 0..MaxDepth}

Init == raws = <<>> /\ scopes = {}

\* The second scope of a request is drawn from the clean ones, which is
\* enough to reach every pair of normalised scopes.
Declare ==
    /\ Len(raws) < 2
    /\ \E kind \in Kinds, mode \in Modes :
          \/ /\ raws = <<>>
             /\ \E absolute \in BOOLEAN, segments \in RawLocators :
                   raws' = <<[kind |-> kind, mode |-> mode,
                              absolute |-> absolute, segments |-> segments]>>
          \/ /\ raws # <<>>
             /\ \E segments \in CleanLocators :
                   raws' = Append(raws, [kind |-> kind, mode |-> mode,
                                         absolute |-> FALSE, segments |-> segments])
    /\ scopes' = {}

Normalize ==
    /\ scopes = {}
    /\ scopes' = NormalizeScopes(raws)
    /\ scopes' # {}
    /\ UNCHANGED raws

Next == Declare \/ Normalize

Spec == Init /\ [][Next]_vars

\* Whatever normalizeScopes lets through is a scope of the model: its locator
\* has no "." or ".." left and only the repository kind names the root.
NormalizedScopesAreClean ==
    \A s \in scopes : /\ s \in [kind : Kinds, locator : CleanLocators, mode : Modes]
                      /\ s.locator = <<>> <=> s.kind = "repository"

\* normalizeScopes refuses exactly the relative locators that climb above the
\* repository root at some prefix or end at the root ("rechaza rutas absolutas,
\* `..` y cualquier referencia que escape del repositorio", ADR-0009).
RefusesExactlyEscapes ==
    \A raw \in ToSet(raws) :
        raw.kind # "repository" =>
            (ValidRaw(raw) <=> ~raw.absolute /\ StaysBelowRoot(raw.segments))

\* Two normalised scopes overlap exactly when some file lies in both, in
\* either order, so a request cannot slip past a claim by swapping sides.
OverlapIsSharedFile ==
    \A left, right \in scopes :
        ScopesOverlap(left, right) <=> ShareFile(left, right, CleanLocators)
=============================================================================
