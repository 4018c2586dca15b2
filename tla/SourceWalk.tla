----------------------------- MODULE SourceWalk -----------------------------
(***************************************************************************)
(* The walk that lists the files below the roots of a dropped selection    *)
(* (src-tauri/src/discovery/walker.rs), as one function from a walk to the *)
(* walk after its next entry.                                              *)
(*                                                                         *)
(* Roots may overlap, and a walk has a budget of entries.  Whatever it     *)
(* does not list, it counts, and as long as the list of diagnostics has    *)
(* room it names the path in one.                                          *)
(*                                                                         *)
(* Abstractions.  A path is a node of a fixed tree; that an entry cannot   *)
(* be read, is a link or is no regular file is one outcome, "fails".       *)
(***************************************************************************)
EXTENDS Naturals, Sequences, FiniteSets

CONSTANTS
    Path,
    Entries,            \* the entries of each directory, in the order of their names
    MaxItems,           \* MAX_DISCOVERY_ITEMS
    MaxDepth,           \* MAX_DIRECTORY_DEPTH
    MaxDiagnostics      \* MAX_DIAGNOSTICS

Directory == DOMAIN Entries
File == Path \ Directory

ASSUME TreeAssumption == /\ Entries \in [Directory -> Seq(Path)]
                         /\ Directory \subseteq Path
                         /\ MaxItems \in Nat /\ MaxDepth \in Nat /\ MaxDiagnostics \in Nat

-----------------------------------------------------------------------------
\* An entry to inspect: depth 0 is a root.
Entry == [path: Path, depth: Nat]

\* todo: what is left to inspect; counted: the sum of the three counters of what is not listed;
\* told: the paths of the diagnostics.  The code does not keep noted, the paths it counted.
Walk == [todo: Seq(Entry), visited: Nat, seen: SUBSET Path, items: Seq(Path), noted: SUBSET Path,
         counted: Nat, told: SUBSET Path, cut: BOOLEAN]

Begun(roots) == [todo |-> [i \in DOMAIN roots |-> [path |-> roots[i], depth |-> 0]],
                 visited |-> 0, seen |-> {}, items |-> <<>>, noted |-> {},
                 counted |-> 0, told |-> {}, cut |-> FALSE]

First(w) == Head(w.todo)
Rest(w) == [w EXCEPT !.todo = Tail(@)]
Remaining(w) == MaxItems - w.visited

\* diagnostic: a path is counted, and named while there are less than MaxDiagnostics names.
Noted(w) == [Rest(w) EXCEPT
                !.noted = @ \cup {First(w).path},
                !.counted = @ + 1,
                !.told = IF w.counted < MaxDiagnostics THEN @ \cup {First(w).path} ELSE @]

\* stop_for_deadline: nothing else is inspected, and the first path is noted.
Stopped(w) == [Noted(w) EXCEPT !.todo = <<>>, !.cut = TRUE]

\* include_open_file.
Included(w, fails) ==
    LET p == First(w).path
        marked == [w EXCEPT !.seen = @ \cup {p}]
    IN  IF p \in w.seen THEN Rest(w)
        ELSE IF fails THEN Noted(marked)
        ELSE [Rest(marked) EXCEPT !.items = Append(@, p)]

Listing(w, names) ==
    [Rest(w) EXCEPT
        !.todo = [i \in DOMAIN names |-> [path |-> names[i], depth |-> First(w).depth + 1]] \o @,
        !.visited = @ + Len(names),
        !.seen = @ \cup {First(w).path}]

\* Mutant: a directory is listed as far as the budget goes.
ListedInPart(w, fails) ==
    LET names == Entries[First(w).path]
    IN  IF First(w).path \in w.seen THEN Rest(w)
        ELSE IF fails \/ First(w).depth > MaxDepth \/ Remaining(w) = 0 THEN Noted(w)
        ELSE Listing(w, SubSeq(names, 1, IF Len(names) > Remaining(w) THEN Remaining(w)
                                         ELSE Len(names)))

\* inspect_directory: all of its entries, or none.
Listed(w, fails) ==
    LET names == Entries[First(w).path]
    IN  IF First(w).path \in w.seen THEN Rest(w)
        ELSE IF \/ fails
                \/ First(w).depth > MaxDepth
                \/ Remaining(w) = 0
                \/ Len(names) > Remaining(w) THEN Noted(w)
        ELSE Listing(w, names)

\* A root that is a file counts as an entry.
RootFile(w, fails) ==
    IF Remaining(w) = 0 THEN Noted(w)
    ELSE Included([w EXCEPT !.visited = @ + 1], fails)

\* open_trusted_drop_root, classify_opened_root: each component is opened without following
\* links, and a root that cannot be opened so is in the grant as a diagnostic.
UnopenedRoot(w) == Noted(w)

\* inspect_root.
InspectedRoot(w, fails) ==
    IF First(w).path \in Directory THEN Listed(w, fails) ELSE RootFile(w, fails)

\* inspect_entry, inspect_opened_entry.
InspectedEntry(w, fails) ==
    IF First(w).path \in Directory THEN Listed(w, fails) ELSE Included(w, fails)

-----------------------------------------------------------------------------
\* What lies below a path is in every set that holds it and the entries of its directories.
Closed == {S \in SUBSET Path :
             \A d \in S \cap Directory : \A i \in DOMAIN Entries[d] : Entries[d][i] \in S}

Reached == [p \in Path |-> {q \in Path : \A S \in Closed : p \in S => q \in S}]

\* What was noted is named, or the counters are beyond the names that there can be, and they
\* never fall short of what was noted.
NotesAreCounted(w) ==
    /\ IsFiniteSet(w.noted) /\ Cardinality(w.noted) <= w.counted
    /\ w.told = w.noted \/ w.counted > MaxDiagnostics

\* A finished walk of some roots has listed a file below them, or it has noted the file or a
\* directory above it, or it was cut short by its deadline and has noted that.
Discloses(w, roots) ==
  /\ NotesAreCounted(w)
  /\ \/ w.cut /\ w.noted # {}
     \/ \A i \in DOMAIN roots : \A f \in Reached[roots[i]] \cap File :
           \/ \E j \in DOMAIN w.items : w.items[j] = f
           \/ \E p \in w.noted : f \in Reached[p]

\* No file is listed twice, and the walk keeps to its budget.
Bounded(w) ==
    /\ \A i, j \in DOMAIN w.items : w.items[i] = w.items[j] => i = j
    /\ Len(w.items) <= w.visited
    /\ w.visited <= MaxItems

\* The inductive strengthening of both.  What was seen or dropped is never lost: it is listed,
\* noted or still to inspect.
Covered(w) == w.seen \cup w.noted \cup {w.todo[i].path : i \in DOMAIN w.todo}

FollowsUp(w, roots) ==
    /\ \A i \in DOMAIN roots : roots[i] \in Covered(w)
    /\ \A d \in w.seen \cap Directory : \A i \in DOMAIN Entries[d] : Entries[d][i] \in Covered(w)
    /\ \A f \in w.seen \cap File : f \in w.noted \/ \E j \in DOMAIN w.items : w.items[j] = f

\* The entries of directories come before the roots left, and each was counted.
RootsComeLast(w) ==
    \E n \in 0 .. Len(w.todo) :
        /\ \A i \in DOMAIN w.todo : w.todo[i].depth > 0 <=> i <= n
        /\ Len(w.items) + n <= w.visited

WalkInvariant(w, roots) ==
    /\ w \in Walk
    /\ w.visited <= MaxItems
    /\ \A i, j \in DOMAIN w.items : w.items[i] = w.items[j] => i = j
    /\ \A i \in DOMAIN w.items : w.items[i] \in w.seen
    /\ RootsComeLast(w)
    /\ NotesAreCounted(w)
    /\ IF w.cut THEN w.todo = <<>> /\ w.noted # {} ELSE FollowsUp(w, roots)
=============================================================================
