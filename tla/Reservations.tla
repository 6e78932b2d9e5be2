---------------------------- MODULE Reservations ----------------------------
(***************************************************************************)
(* The reservation algebra of AgentCoordinationService: which paths a path *)
(* or glob reservation covers, and when two reservations count as          *)
(* overlapping, with the ledger of leases that rests on it.                *)
(*                                                                         *)
(* A path is the sequence of its segments, "." the empty one.  A glob also *)
(* has wildcard segments: fnmatch lets "*" run across "/", so a wildcard   *)
(* segment stands for one or more segments, of which the last must be in   *)
(* its class.                                                              *)
(***************************************************************************)
EXTENDS Naturals, Sequences, FiniteSets

CONSTANTS
    Names,          \* segment names
    Starts,         \* <<n, m>>: name n starts with name m, as strings
    Wild,           \* wildcard segments
    Class,          \* wildcard -> the names its fixed suffix allows
    Dot,            \* the wildcards that also match "."
    MaxSegments,    \* bound on the segments of a pattern
    MaxHeld         \* bound on the active leases

ASSUME ReservationAssumption ==
    /\ Names \cap Wild = {}
    /\ \A n \in Names : <<n, n>> \in Starts
    /\ Class \in [Wild -> SUBSET Names] /\ Dot \subseteq Wild
    /\ MaxSegments \in Nat /\ MaxHeld \in Nat

VARIABLE held       \* reservations of the active leases, one each

-----------------------------------------------------------------------------
(* Patterns *)

UpTo(S, n) == UNION {[1..k -> S] : k \in 0..n}

Paths    == UpTo(Names, MaxSegments + 1)
IsWild(p) == \E i \in DOMAIN p : p[i] \in Wild

\* normalize_reservations: a glob without a wildcard is a path.
Normalize(kind, p, rec) ==
    [kind |-> IF kind = "glob" /\ IsWild(p) THEN "glob" ELSE "path", pattern |-> p,
     recursive |-> rec]

Reserved == {Normalize("path", p, rec) : p \in UpTo(Names, MaxSegments), rec \in BOOLEAN}
       \cup {Normalize("glob", p, FALSE) : p \in UpTo(Names \cup Wild, MaxSegments)}

\* str.startswith on whole paths: the last segment of q may be a mere prefix.
StartsWith(p, q) ==
    \/ q = <<>>
    \/ LET n == Len(q) IN
       /\ Len(p) >= n
       /\ \A i \in 1..(n - 1) : p[i] = q[i]
       /\ <<p[n], q[n]>> \in Starts

\* p lies below directory d, which is "." or a path.
Below(p, d) == Len(p) > Len(d) /\ SubSeq(p, 1, Len(d)) = d

\* fnmatch.fnmatchcase: cut[i] segments of the path are used up by the first i
\* segments of the pattern.
FnMatch(path, pat) ==
    \/ path = <<>> /\ Len(pat) = 1 /\ pat[1] \in Dot
    \/ path # <<>> /\ \E cut \in [0..Len(pat) -> 0..Len(path)] :
          /\ cut[0] = 0 /\ cut[Len(pat)] = Len(path)
          /\ \A i \in 1..Len(pat) :
                /\ cut[i] > cut[i - 1]
                /\ IF pat[i] \in Wild THEN path[cut[i]] \in Class[pat[i]]
                   ELSE cut[i] = cut[i - 1] + 1 /\ path[cut[i]] = pat[i]

\* _glob_fixed_prefix: the directories before the first wildcard.
GlobFixedPrefix(p) ==
    LET fixed == {k \in 0..Len(p) : \A i \in 1..k : p[i] \notin Wild} IN
    SubSeq(p, 1, CHOOSE k \in fixed : \A j \in fixed : j <= k)

CoversPath(r, path) ==
    \/ r.kind = "glob" /\ FnMatch(path, r.pattern)
    \/ r.kind = "path" /\ (path = r.pattern \/ (r.recursive /\ Below(path, r.pattern)))

\* Mutant: only the first of the two is asked.
PathsOverlapOneWay(l, r) == CoversPath(l, r.pattern)

PathsOverlap(l, r) == CoversPath(l, r.pattern) \/ CoversPath(r, l.pattern)

PathOverlapsGlob(l, r) ==
    LET prefix == GlobFixedPrefix(r.pattern) IN
    \/ FnMatch(l.pattern, r.pattern)
    \/ /\ prefix # <<>>
       /\ \/ StartsWith(l.pattern, prefix)
          \/ l.pattern # <<>> /\ Below(prefix, l.pattern)

GlobsOverlap(l, r) ==
    LET p == GlobFixedPrefix(l.pattern)
        q == GlobFixedPrefix(r.pattern)
    IN  p = <<>> \/ q = <<>> \/ StartsWith(p, q) \/ StartsWith(q, p)

ReservationsOverlap(l, r) ==
    CASE l.kind = "path" /\ r.kind = "path" -> PathsOverlap(l, r)
      [] l.kind = "path" /\ r.kind = "glob" -> PathOverlapsGlob(l, r)
      [] l.kind = "glob" /\ r.kind = "path" -> PathOverlapsGlob(r, l)
      [] OTHER                              -> GlobsOverlap(l, r)

-----------------------------------------------------------------------------
(* The ledger: acquire_lease refuses an overlap with an active lease. *)

ResInit == held = {}

Acquire(r) ==
    /\ Cardinality(held) < MaxHeld
    /\ \A q \in held : ~ReservationsOverlap(r, q)
    /\ held' = held \cup {r}

Release(r) == r \in held /\ held' = held \ {r}

ResNext == \E r \in Reserved : Acquire(r) \/ Release(r)

ResSpec == ResInit /\ [][ResNext]_held

-----------------------------------------------------------------------------
(* Properties *)

Shared(l, r) == \E p \in Paths : CoversPath(l, p) /\ CoversPath(r, p)

\* Where the test of reservations_overlap is known to be incomplete: a
\* recursive path beside a glob, when the path is "." or the glob has no fixed
\* directory to compare with.
Gap(l, r) ==
    /\ l.kind = "path" /\ l.recursive /\ r.kind = "glob"
    /\ l.pattern = <<>> \/ GlobFixedPrefix(r.pattern) = <<>>

\* A path is covered by two leases, in whatever order they were acquired, only
\* where the test has its gap; two paths or two globs are always disjoint
\* (reservations_overlap, acquire_lease).
SharedOnlyAtGaps ==
    \A l, r \in held : l # r /\ Shared(l, r) => Gap(l, r) \/ Gap(r, l)

\* It makes no difference which of two leases came first: the verdict of
\* reservations_overlap is symmetric.  (Every pair is met while the first of
\* the two is held alone.)
OverlapSymmetric ==
    Cardinality(held) = 1 =>
        \A l \in held, r \in Reserved : ReservationsOverlap(l, r) <=> ReservationsOverlap(r, l)

\* What "Reservation conflicts with active lease" promises: no path is covered
\* by two active leases (acquire_lease).
NoSharedPath == \A l, r \in held : l # r => ~Shared(l, r)

\* The reservation rules as a whole: matching does not depend on the order of
\* the two paths, and admitted reservations are disjoint but for the gap.
ReservationsSound == SharedOnlyAtGaps /\ OverlapSymmetric
=============================================================================
