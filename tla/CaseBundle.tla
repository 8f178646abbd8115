------------------------------ MODULE CaseBundle ------------------------------
(***************************************************************************)
(* The diagnosis-side case bundle of the blind attribution study: one      *)
(* observation (an arm of a matched pair) is written by the custody side,  *)
(* submitted to blind_attribution.py's _validate_observation, and accepted *)
(* or refused.  Ids, texts and key sets that the code only checks for      *)
(* shape are left out; what relates two rows of the observation is kept:   *)
(* identities, boundary events, intervals, edges, links and charges.       *)
(*                                                                         *)
(* Time is counted in cells of one charge unit (the code's milliseconds).  *)
(***************************************************************************)
EXTENDS Integers, FiniteSets, Sequences, SequencesExt, Relation

CONSTANTS
    Requests,        \* request / lifecycle identities
    Clocks,          \* clock domains, a subset of {"host", "device"}
    Steps,           \* batch/step identities, None when the row has none
    Times,           \* timestamps of the boundary events
    Charges,         \* accounted durations the author writes
    Kinds,           \* edge kinds the author writes
    LinkKeys,        \* sets of TraceLoom keys a link may carry
    Slips,           \* the author may copy an identity or a time wrongly
    MaxSpans, MaxEdges, MaxLinks,   \* bounds on the author
    Capacity,        \* DATA_CAPACITY_RECORDS
    RecursionLimit   \* the interpreter's recursion limit, in calls of visit

CONSTANT None

\* What the constants are.
BundleConstants ==
    /\ Times \subseteq Nat
    /\ Charges \subseteq Nat
    /\ Clocks \subseteq {"host", "device"}
    /\ {Capacity, RecursionLimit, MaxSpans, MaxEdges, MaxLinks} \subseteq Nat
    /\ Slips \in BOOLEAN

VARIABLES
    spans,     \* lifecycle_spans, in the order written
    edges,     \* lifecycle_edges
    links,     \* traceloom_links
    verdict    \* "open", then "accepted", "refused" or "crashed"

vars == <<spans, edges, links, verdict>>

-----------------------------------------------------------------------------
(* The rows of an observation.  Its normalized events are all the boundary  *)
(* events the runtime could have written: one per identity and time.        *)

Identities == [request: Requests, clock: Clocks, step: Steps]

Events == [who: Identities, at: Times]

EdgeKinds == {"request_handoff", "batch_membership", "execution_support",
              "resource_owner", "precedes"}

TreeKeys == {"tree_id", "node_id", "occurrence_idx", "anchor_id"}

TraceKeys == {"tree_id", "event_id", "runtime_relation_id", "device_work_id"}

Rows(s) == Range(s)

SpanNames == {row.id : row \in Rows(spans)}

SpanNamed(id) == CHOOSE row \in Rows(spans) : row.id = id

(* What the author may write: spans with the identity and the times of      *)
(* their boundary events, numbered as they come, unless the author slips.   *)
SpanIds == 1 .. MaxSpans

SpanRows ==
    {row \in [id: SpanIds, first: Events, last: Events, who: Identities,
              start: Times, end: Times, charge: Charges] :
        \/ Slips
        \/ /\ row.first = [who |-> row.who, at |-> row.start]
           /\ row.last = [who |-> row.who, at |-> row.end]
           /\ row.start <= row.end}

EdgeRows == [source: SpanIds, target: SpanIds, kind: Kinds]

LinkRows == [span: SpanIds, who: Identities, supported: BOOLEAN,
             reason: BOOLEAN, keys: LinkKeys]

-----------------------------------------------------------------------------
(* Spans *)

MatchesEvents(row) ==
    /\ row.first.who = row.who
    /\ row.last.who = row.who
    /\ row.first.at = row.start
    /\ row.last.at = row.end

ValidInterval(row) ==
    /\ row.start <= row.end
    /\ row.charge <= row.end - row.start

ValidSpans ==
    /\ spans # <<>>
    /\ Len(spans) <= Capacity
    /\ \A i, j \in DOMAIN spans : i # j => spans[i].id # spans[j].id
    /\ \A row \in Rows(spans) : MatchesEvents(row) /\ ValidInterval(row)

-----------------------------------------------------------------------------
(* Edges *)

InPrecedence(edge) ==
    edge.kind = "precedes" =>
        SpanNamed(edge.source).end <= SpanNamed(edge.target).start

ValidEdges ==
    /\ Len(edges) <= Capacity
    /\ \A i, j \in DOMAIN edges : i # j => edges[i] # edges[j]
    /\ \A edge \in Rows(edges) :
        /\ {edge.source, edge.target} \subseteq SpanNames
        /\ edge.kind \in EdgeKinds
        /\ SpanNamed(edge.source).who.request = SpanNamed(edge.target).who.request
        /\ InPrecedence(edge)

(* successors[x]: the targets of x's edges, in the order of the edges.      *)
Successors(x) ==
    LET out == SelectSeq(edges, LAMBDA edge : edge.source = x)
    IN [i \in DOMAIN out |-> out[i].target]

(* The depth-first search of _validate_acyclic_edges.  A search state has   *)
(* the finished spans, the spans on the current path, and how it ended:     *)
(* "on", at a "cycle", or past the recursion limit.                         *)
RECURSIVE Visit(_, _)
Visit(search, x) ==
    LET entered == [search EXCEPT !.visiting = @ \cup {x}]
        found   == FoldLeft(Visit, entered, Successors(x))
        left    == [found EXCEPT !.visiting = @ \ {x}, !.visited = @ \cup {x}]
    IN IF search.outcome # "on" THEN search
       ELSE IF Cardinality(search.visiting) >= RecursionLimit
            THEN [search EXCEPT !.outcome = "too_deep"]
       ELSE IF x \in search.visiting THEN [search EXCEPT !.outcome = "cycle"]
       ELSE IF x \in search.visited THEN search
       ELSE IF found.outcome = "on" THEN left ELSE found

\* A mistaken variant: the search starts from one span only.
SearchedFromFirst(order) ==
    Visit([visiting |-> {}, visited |-> {}, outcome |-> "on"], Head(order)).outcome

(* The roots are the members of a Python set: any order is possible.        *)
Searched(order) ==
    FoldLeft(Visit, [visiting |-> {}, visited |-> {}, outcome |-> "on"], order).outcome

-----------------------------------------------------------------------------
(* Charges *)

Groups == {<<row.who.request, row.who.clock>> : row \in Rows(spans)}

InGroup(group) ==
    SelectSeq(spans, LAMBDA row : <<row.who.request, row.who.clock>> = group)

Earlier(a, b) == a[1] < b[1] \/ (a[1] = b[1] /\ a[2] < b[2])

(* One step of the sweep over the sorted intervals.                         *)
Swept(sweep, interval) ==
    IF interval[1] <= sweep.end
    THEN [sweep EXCEPT !.end = IF interval[2] > @ THEN interval[2] ELSE @]
    ELSE [union |-> sweep.union + (sweep.end - sweep.start),
          start |-> interval[1], end |-> interval[2]]

UnionOf(rows) ==
    LET intervals == SortSeq([i \in DOMAIN rows |-> <<rows[i].start, rows[i].end>>], Earlier)
        first     == [union |-> 0, start |-> Head(intervals)[1], end |-> Head(intervals)[2]]
        last      == FoldLeft(Swept, first, Tail(intervals))
    IN last.union + (last.end - last.start)

Charged(rows) == FoldLeft(LAMBDA sum, row : sum + row.charge, 0, rows)

ValidCharges ==
    \A group \in Groups : Charged(InGroup(group)) <= UnionOf(InGroup(group))

-----------------------------------------------------------------------------
(* Links *)

ValidLink(link) ==
    /\ link.span \in SpanNames
    /\ link.who = SpanNamed(link.span).who
    /\ ~link.supported => link.reason
    /\ link.supported =>
        /\ link.keys \cap TraceKeys # {}
        /\ link.who.clock = "device" =>
            /\ TreeKeys \subseteq link.keys
            /\ link.who.step # None

ValidLinks ==
    /\ Len(links) <= Capacity
    /\ \A link \in Rows(links) : ValidLink(link)
    /\ \A i, j \in DOMAIN links :
        i # j => <<links[i].span, links[i].keys>> # <<links[j].span, links[j].keys>>
    /\ \A row \in Rows(spans) :
        row.who.clock = "device" =>
            \E link \in Rows(links) : link.supported /\ link.span = row.id

-----------------------------------------------------------------------------
(* The custody side writes rows; _validate_observation decides.             *)

Init ==
    /\ spans = <<>>
    /\ edges = <<>>
    /\ links = <<>>
    /\ verdict = "open"

AddSpan ==
    /\ verdict = "open" /\ edges = <<>> /\ links = <<>>
    /\ Len(spans) < MaxSpans
    /\ \E row \in SpanRows :
        /\ Slips \/ row.id = Len(spans) + 1
        /\ spans' = Append(spans, row)
    /\ UNCHANGED <<edges, links, verdict>>

AddEdge ==
    /\ verdict = "open" /\ links = <<>>
    /\ Len(edges) < MaxEdges
    /\ \E row \in EdgeRows :
        /\ Slips \/ {row.source, row.target} \subseteq SpanNames
        /\ edges' = Append(edges, row)
    /\ UNCHANGED <<spans, links, verdict>>

AddLink ==
    /\ verdict = "open"
    /\ Len(links) < MaxLinks
    /\ \E row \in LinkRows : links' = Append(links, row)
    /\ UNCHANGED <<spans, edges, verdict>>

Decision(searched) ==
    CASE searched = "too_deep" -> "crashed"
      [] searched = "cycle" -> "refused"
      [] searched = "on" -> IF ValidCharges /\ ValidLinks THEN "accepted" ELSE "refused"

Submit ==
    /\ verdict = "open"
    /\ IF ValidSpans /\ ValidEdges
       THEN \E order \in SetToSeqs(SpanNames) : verdict' = Decision(Searched(order))
       ELSE verdict' = "refused"
    /\ UNCHANGED <<spans, edges, links>>

Rest ==
    /\ verdict # "open"
    /\ UNCHANGED vars

Next == AddSpan \/ AddEdge \/ AddLink \/ Submit \/ Rest

Spec == Init /\ [][Next]_vars

-----------------------------------------------------------------------------
(* Properties *)

Reaches(kinds) ==
    TransitiveClosure([<<x, y>> \in SpanNames \X SpanNames |->
        \E edge \in Rows(edges) :
            edge.source = x /\ edge.target = y /\ edge.kind \in kinds], SpanNames)

(* The depth-first search of _validate_acyclic_edges, whatever the order in *)
(* which the set of spans is walked, lets no observation through in which a *)
(* span reaches itself along the edges.                                     *)
AcceptedIsDag ==
    verdict = "accepted" =>
        \A x \in SpanNames : ~Reaches(EdgeKinds)[x, x]

(* And it refuses no observation for a cycle that is not there: when every  *)
(* other rule holds and no span reaches itself, the observation is accepted.*)
DagIsAccepted ==
    (/\ verdict = "refused"
     /\ ValidSpans /\ ValidEdges /\ ValidCharges /\ ValidLinks) =>
        \E x \in SpanNames : Reaches(EdgeKinds)[x, x]

(* A chain of "precedes" edges of an accepted observation orders its two    *)
(* ends in time, although only neighbours are compared.                     *)
AcceptedIsOrdered ==
    verdict = "accepted" =>
        \A x, y \in SpanNames :
            Reaches({"precedes"})[x, y] => SpanNamed(x).end <= SpanNamed(y).start

(* The cells of a request and clock that some span covers.                  *)
Covered(group) ==
    {t \in 0 .. 100 : \E row \in Rows(spans) :
        /\ <<row.who.request, row.who.clock>> = group
        /\ row.start <= t /\ t < row.end}

(* An accepted observation never charges a request more time than its spans *)
(* cover on a clock: the sweep over sorted intervals of                     *)
(* _validate_overlap_accounting counts overlapping cells once.              *)
AcceptedChargesOnce ==
    verdict = "accepted" =>
        \A group \in Groups : Charged(InGroup(group)) <= Cardinality(Covered(group))

(* The sweep's union is the number of cells covered, for every set of       *)
(* well-formed spans in every order, nested, touching and empty ones.       *)
UnionIsCoverage ==
    (\A row \in Rows(spans) : row.start <= row.end) =>
        \A group \in Groups : UnionOf(InGroup(group)) = Cardinality(Covered(group))

(* Every device-backed span of an accepted observation can be drilled down: *)
(* a supported link of the same request, clock and step carries the whole   *)
(* tree occurrence chain (docs/blind_attribution_contract.md:83-86).        *)
AcceptedIsDrillable ==
    verdict = "accepted" =>
        \A row \in Rows(spans) : row.who.clock = "device" =>
            /\ row.first.who.step # None /\ row.last.who.step # None
            /\ \E link \in Rows(links) :
                /\ link.supported
                /\ link.span = row.id
                /\ link.who = row.first.who /\ link.who = row.last.who
                /\ TreeKeys \subseteq link.keys

(* The schema lets an observation hold as many spans and edges as the       *)
(* record capacity ("maxItems": 4096); the validator answers each one, with *)
(* acceptance or with CaseValidationError.                                  *)
ValidatorDecides == verdict # "crashed"
=============================================================================
