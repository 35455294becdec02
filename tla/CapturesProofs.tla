----------------------------- MODULE CapturesProofs -----------------------------
(***************************************************************************)
(* Theorems about Captures, for any worlds, bounds and windows: what was   *)
(* posted without the token leaves nothing, the calls of a capture are     *)
(* accounted for, a call is flagged as not offered when it was not, what a *)
(* request did that is easily missed is not hidden behind a data_actions   *)
(* shown held, and the proposed rule covers the calls it was made of.      *)
(*                                                                         *)
(* A table's part of the invariant speaks of that table alone, so that a   *)
(* step has to be followed only through the tables it writes (Frame).      *)
(***************************************************************************)
EXTENDS Captures, FiniteSetTheorems, NaturalsInduction, WellFoundedInduction, TLAPS

IngestStep(how, c, d)      == Ingested(how, c, d)
UpsertStep(ref, call, t)   == UpsertCall(t, ref, call)
JudgeStep(none, p, d)      == JudgeNotOffered(d, p)
CountStep(none, row, n)    == row.count + n

Ingesting == INSTANCE Folding WITH Op <- IngestStep
Upserting == INSTANCE Folding WITH Op <- UpsertStep
Queueing  == INSTANCE Folding WITH Op <- QueueCall
Judging   == INSTANCE Folding WITH Op <- JudgeStep
Counting  == INSTANCE Folding WITH Op <- CountStep

(* e has d's tables, but for some that changed.                            *)
Frame(d, e, changed) ==
    DOMAIN d = Tables /\ DOMAIN e = Tables /\ \A t \in Tables \ changed : e[t] = d[t]

CopiesOf(w) == UNION {ToSet(b.copies) : b \in w.batches}

(* Stored copies, one of an id; those that came with the token are those   *)
(* the collector delivered.                                                *)
StoredOK(stored, copies, delivered) ==
    /\ stored \subseteq [copy : copies, authenticated : BOOLEAN]
    /\ \A s, t \in stored : s.copy.id = t.copy.id => s = t
    /\ {s.copy : s \in {t \in stored : t.authenticated}} = delivered

(* A request is judged, and its calls are read, once it is delivered.      *)
JudgedOK(judged, delivered) ==
    /\ {j.copy : j \in judged} \subseteq delivered
    /\ \A j, k \in judged : j.copy.id = k.copy.id => j = k

ReadOK(read, delivered) == {r.id : r \in read} \subseteq {c.id : c \in delivered}

(* Every tool a schema of a tools/list has is on a page of the time the    *)
(* schema was last seen, and a page's tools were last seen then or later.  *)
PagesOK(schemas, listings, now) ==
    /\ \A s \in schemas : /\ DOMAIN s = {"ref", "source", "endpoint", "host", "tool", "schema", "last"}
                          /\ s.last \in 0..now
    /\ \A s \in schemas : s.source = TOOLS_LIST =>
          \E l \in listings : l.endpoint = s.endpoint /\ l.at = s.last /\ s.tool \in l.tools
    /\ \A l \in listings : l.at \in 0..now /\ l.tools # {}
    /\ \A l \in listings : \A tool \in l.tools :
          \E s \in schemas : /\ s.source = TOOLS_LIST /\ s.endpoint = l.endpoint
                             /\ s.tool = tool /\ l.at <= s.last

(* NotOfferedRight, of one verdict.                                        *)
NotListed(known, wire, called) ==
    LET newest == {l \in known : \A k \in known : k.at <= l.at}
        Counts(l) == \/ \E k \in newest : l.at >= k.at - PagesWindow
                     \/ l.at >= called - ListingWindow
    IN known # {} /\ \A l \in known : Counts(l) => wire \notin l.tools

VerdictsOK(verdicts) ==
    \A v \in verdicts : v.flagged <=> NotListed(v.known, v.wire, v.called)

(* The queue is a list of calls made by now, each of a judged request, and *)
(* no agent has more in it than its bound.                                 *)
QueueOK(pending, now, agents, ids) ==
    /\ IsList(pending)
    /\ \A n \in DOMAIN pending :
          /\ pending[n].called \in Int /\ pending[n].due = pending[n].called + Delay
          /\ <<pending[n].agent, pending[n].id>> \in ids
    /\ \A a \in agents : Cardinality(Queued(pending, a)) <= MAX_PENDING

RowsOK(rows, ids) == \A row \in rows : <<row.agent, row.v.id>> \in ids

JudgedIds(judged) == {<<j.agent, j.copy.id>> : j \in judged}

MarksOK(d) == \A t \in {d.failed, d.unattributed} : \E x : t \subseteq {x}

(* What the queue's steps keep, of the requests judged or about to be.     *)
SideOK(d, ids) ==
    /\ DOMAIN d = Tables
    /\ PagesOK(d.schemas, d.listings, clock)
    /\ VerdictsOK(d.verdicts)
    /\ QueueOK(d.pending, clock, W.agents, ids)
    /\ RowsOK(d.rows, ids)
-----------------------------------------------------------------------------
(* Table by table: what the small steps change                             *)

(* Two steps of one transaction touch at most the tables either touches.   *)
LEMMA FrameThrough ==
    ASSUME NEW d, NEW e, NEW f, NEW s, NEW t, NEW u, s \cup t \subseteq u,
           Frame(d, e, s), Frame(e, f, t)
    PROVE  Frame(d, f, u)
  BY DEF Frame

(* Recording violations touches no table but theirs.                       *)
LEMMA RecordChanges ==
    ASSUME NEW d, DOMAIN d = Tables, NEW a, NEW violations
    PROVE  Frame(d, RecordViolations(d, a, violations), {"rows"})
  BY DEF Frame, RecordViolations

(* A verdict on a call is added to the ones before, with the lists that    *)
(* were recorded of the call's server when it was reached.                 *)
LEMMA VerdictChanges ==
    ASSUME NEW d, DOMAIN d = Tables, NEW p, NEW flagged
    PROVE  /\ Frame(d, Verdict(d, p, flagged), {"verdicts"})
           /\ Verdict(d, p, flagged).verdicts =
                 d.verdicts \cup {[endpoint |-> p.endpoint, wire |-> p.wire, called |-> p.called,
                                   known |-> {l \in d.listings : l.endpoint = p.endpoint},
                                   flagged |-> flagged]}
  BY DEF Frame, Verdict, Tables

(* A check that failed leaves its mark at the clock and changes nothing    *)
(* that is judged.                                                         *)
LEMMA MarkChanges ==
    ASSUME NEW d, DOMAIN d = Tables, NEW failed
    PROVE  /\ Frame(d, MarkedIf(failed, d), {"failed", "lost"})
           /\ MarkedIf(failed, d).failed \in {d.failed, {clock}}
  BY DEF Frame, MarkedIf, MarkCheckFailed, Tables

(* The rows recorded are the agent's, each of a request that one of the    *)
(* violations or of the rows before is of.                                 *)
LEMMA RecordRows ==
    ASSUME NEW d, DOMAIN d = Tables, NEW a, NEW violations, NEW ids, RowsOK(d.rows, ids),
           \A v \in violations : "id" \in DOMAIN v /\ <<a, v.id>> \in ids
    PROVE  RowsOK(RecordViolations(d, a, violations).rows, ids)
<1> DEFINE Old(v) == {r \in d.rows : r.agent = a /\ DataActionItem(r.v) = DataActionItem(v)}
           Of(v)  == IF Old(v) = {} THEN {[agent |-> a, v |-> v]}
                     ELSE {IF r.v.id = v.id THEN r
                           ELSE [agent |-> a, v |-> MergedDetail(r.v, v)] : r \in Old(v)}
<1>1. RecordViolations(d, a, violations).rows =
         (d.rows \ UNION {Old(v) : v \in violations}) \cup UNION {Of(v) : v \in violations}
  BY DEF RecordViolations, Tables
<1>2. ASSUME NEW v \in violations, NEW row \in Of(v) PROVE <<row.agent, row.v.id>> \in ids
  <2>1. CASE row = [agent |-> a, v |-> v]
    BY <2>1
  <2>2. ASSUME NEW r \in Old(v), row = r PROVE <<row.agent, row.v.id>> \in ids
    BY <2>2 DEF RowsOK
  <2>3. ASSUME NEW r \in Old(v), row = [agent |-> a, v |-> MergedDetail(r.v, v)]
        PROVE  <<row.agent, row.v.id>> \in ids
    <3>1. MergedDetail(r.v, v).id = v.id
      BY DEF MergedDetail
    <3> QED BY <2>3, <3>1
  <2> QED BY <1>2, <2>1, <2>2, <2>3
<1> HIDE DEF Old, Of
<1> QED BY <1>1, <1>2 DEF RowsOK
-----------------------------------------------------------------------------
(* Offered or not                                                          *)

(* A set of some of the times so far has a latest.                         *)
LEMMA LatestOf ==
    ASSUME NEW now \in Nat, NEW times \in SUBSET (0..now), times # {}
    PROVE  \E t \in times : \A u \in times : u <= t
<1>1. IsFiniteSet(times)
  <2>1. IsFiniteSet(0..now)
    BY FS_Interval
  <2> QED BY <2>1, FS_Subset
<1>2. Judging!Max(times) \in times /\ \A u \in times : u <= Judging!Max(times)
  <2>1. IsFiniteSet(times) => Judging!IsFiniteSet(times)
    BY DEF IsFiniteSet, Judging!IsFiniteSet
  <2>2. times \in SUBSET Int
    OBVIOUS
  <2> QED BY <1>1, <2>1, <2>2, Judging!FiniteMax
<1> QED BY <1>2

(* What _offered_locked reads of the schemas says, of the pages recorded,  *)
(* whether the tool was on one that counts.                                *)
LEMMA OfferedIsListed ==
    ASSUME NEW schemas, NEW listings, clock \in Nat, PagesOK(schemas, listings, clock),
           NEW endpoint, NEW wire, NEW called \in Int
    PROVE  NotListed({l \in listings : l.endpoint = endpoint}, wire, called)
              <=> Offered(schemas, endpoint, wire, called) = "no"
<1> DEFINE listed == Listings(schemas, endpoint)
           known  == {l \in listings : l.endpoint = endpoint}
           newest == CHOOSE t \in {s.last : s \in listed} : \A s \in listed : s.last <= t
<1>1. /\ \A s \in listed : /\ s.last \in 0..clock
                           /\ \E l \in known : l.at = s.last /\ s.tool \in l.tools
      /\ \A l \in known : /\ l.at \in 0..clock /\ l.tools # {}
                          /\ \A tool \in l.tools : \E s \in listed : s.tool = tool /\ l.at <= s.last
  BY DEF PagesOK, Listings
<1>2. listed = {} <=> known = {}
  BY <1>1
<1>3. CASE listed = {}
  BY <1>2, <1>3 DEF Offered, NotListed
<1>4. CASE listed # {}
  <2> HIDE DEF listed, known
  <2>1. PICK latest \in {s.last : s \in listed} : \A u \in {s.last : s \in listed} : u <= latest
    <3>1. {s.last : s \in listed} \in SUBSET (0..clock) /\ {s.last : s \in listed} # {}
      BY <1>1, <1>4
    <3> QED BY <3>1, LatestOf
  <2>2. newest \in {s.last : s \in listed} /\ \A s \in listed : s.last <= newest
    BY <2>1
  <2> HIDE DEF newest
  <2>3. newest \in 0..clock /\ \E l \in known : l.at = newest
    BY <1>1, <2>2
  <2>4. \A l \in known : l.at <= newest
    <3> SUFFICES ASSUME NEW l \in known PROVE l.at <= newest
      OBVIOUS
    <3>1. PICK tool \in l.tools : TRUE
      BY <1>1
    <3>2. PICK s \in listed : s.tool = tool /\ l.at <= s.last
      BY <1>1
    <3> QED BY <1>1, <2>2, <2>3, <3>2
  <2>5. {l \in known : \A k \in known : k.at <= l.at} = {l \in known : l.at = newest}
    BY <1>1, <2>3, <2>4
  <2> DEFINE from == {newest - PagesWindow, called - ListingWindow}
             Late(t) == \E u \in from : t >= u
  <2>6. PagesWindow \in Nat /\ ListingWindow \in Nat
    BY CaptureBoundsAssumption
  <2>7. \A t, u \in 0..clock : Late(t) /\ t <= u => Late(u)
    BY <2>3, <2>6
  <2>8. Offered(schemas, endpoint, wire, called) = "no"
           <=> ~ \E s \in listed : s.tool = wire /\ Late(s.last)
    BY <1>4 DEF Offered, listed, newest
  <2>9. NotListed(known, wire, called) <=> \A l \in known : Late(l.at) => wire \notin l.tools
    <3>1. known # {}
      BY <2>3
    <3>2. \A l \in known : (\E k \in {j \in known : j.at = newest} : l.at >= k.at - PagesWindow)
                              <=> l.at >= newest - PagesWindow
      BY <2>3
    <3> QED BY <2>5, <3>1, <3>2 DEF NotListed
  <2> HIDE DEF Late
  <2>10. ASSUME NEW s \in listed, s.tool = wire, Late(s.last)
         PROVE  \E l \in known : Late(l.at) /\ wire \in l.tools
    BY <1>1, <2>10
  <2>11. ASSUME NEW l \in known, wire \in l.tools, Late(l.at)
         PROVE  \E s \in listed : s.tool = wire /\ Late(s.last)
    <3>1. PICK s \in listed : s.tool = wire /\ l.at <= s.last
      BY <1>1, <2>11
    <3> QED BY <1>1, <2>7, <2>11, <3>1
  <2> QED BY <2>8, <2>9, <2>10, <2>11 DEF known
<1> QED BY <1>3, <1>4

(* A verdict on a call, flagged exactly when it is not offered.            *)
LEMMA VerdictRight ==
    ASSUME NEW d, DOMAIN d = Tables, clock \in Nat,
           PagesOK(d.schemas, d.listings, clock), VerdictsOK(d.verdicts),
           NEW p, p.called \in Int, NEW flagged \in BOOLEAN,
           flagged <=> Offered(d.schemas, p.endpoint, p.wire, p.called) = "no"
    PROVE  VerdictsOK(Verdict(d, p, flagged).verdicts)
<1>1. NotListed({l \in d.listings : l.endpoint = p.endpoint}, p.wire, p.called) <=> flagged
  BY OfferedIsListed
<1> DEFINE known == {l \in d.listings : l.endpoint = p.endpoint}
           new   == [endpoint |-> p.endpoint, wire |-> p.wire, called |-> p.called,
                     known |-> known, flagged |-> flagged]
<1>2. Verdict(d, p, flagged).verdicts = d.verdicts \cup {new}
  BY VerdictChanges
<1>3. new.flagged = flagged /\ new.known = known /\ new.wire = p.wire /\ new.called = p.called
  OBVIOUS
<1> HIDE DEF new
<1>4. new.flagged <=> NotListed(new.known, new.wire, new.called)
  BY <1>1, <1>3, Zenon
<1> QED BY <1>2, <1>4, Zenon DEF VerdictsOK

(* The verdict on one due call: a violation only when the lists say no, and*)
(* the verdict beside it says which lists it was reached from.             *)
LEMMA JudgeNotOfferedKeeps ==
    ASSUME clock \in Nat, NEW d, NEW ids, SideOK(d, ids),
           NEW p, p.called \in Int, <<p.agent, p.id>> \in ids
    PROVE  /\ Frame(d, JudgeNotOffered(d, p), {"rows", "verdicts"})
           /\ SideOK(JudgeNotOffered(d, p), ids)
<1> DEFINE hit == [tool |-> p.tool, action |-> "not_offered", endpoint |-> p.endpoint,
                   class |-> OBSERVED, id |-> p.id, undeclared |-> FALSE]
           no  == Offered(d.schemas, p.endpoint, p.wire, p.called) = "no"
           e   == IF no THEN RecordViolations(d, p.agent, {hit}) ELSE d
           f   == Verdict(e, p, no)
<1>1. JudgeNotOffered(d, p) \in {d, f}
  BY DEF JudgeNotOffered
<1>2. CASE JudgeNotOffered(d, p) = d
  BY <1>2 DEF SideOK, Frame
<1>3. CASE JudgeNotOffered(d, p) = f
  <2>1. DOMAIN d = Tables /\ RowsOK(d.rows, ids)
    BY DEF SideOK
  <2>2. Frame(d, e, {"rows"}) /\ RowsOK(e.rows, ids)
    <3>1. CASE ~no
      BY <2>1, <3>1 DEF Frame
    <3>2. CASE no
      BY <2>1, <3>2, RecordChanges, RecordRows
    <3> QED BY <3>1, <3>2
  <2> HIDE DEF e
  <2>3. /\ DOMAIN e = Tables /\ e.schemas = d.schemas /\ e.listings = d.listings
        /\ e.verdicts = d.verdicts /\ e.pending = d.pending
    BY <2>2 DEF Frame, Tables
  <2>4. Frame(e, f, {"verdicts"})
    BY <2>3, VerdictChanges
  <2>5. VerdictsOK(f.verdicts)
    <3>1. PagesOK(e.schemas, e.listings, clock) /\ VerdictsOK(e.verdicts)
      BY <2>3 DEF SideOK
    <3>2. no <=> Offered(e.schemas, p.endpoint, p.wire, p.called) = "no"
      BY <2>3
    <3> HIDE DEF no
    <3> QED BY <2>3, <3>1, <3>2, VerdictRight
  <2> HIDE DEF f
  <2>6. Frame(d, f, {"rows", "verdicts"})
    BY <2>2, <2>4, FrameThrough
  <2>7. f.rows = e.rows /\ f.schemas = d.schemas /\ f.listings = d.listings
        /\ f.pending = d.pending /\ DOMAIN f = Tables
    BY <2>3, <2>4 DEF Frame, Tables
  <2> QED BY <1>3, <2>2, <2>5, <2>6, <2>7 DEF SideOK
<1> QED BY <1>1, <1>2, <1>3
-----------------------------------------------------------------------------
(* The queue                                                               *)

(* A sequence of anything is a list.                                       *)
LEMMA SeqIsList ==
    ASSUME NEW S, NEW seq \in Seq(S)
    PROVE  IsList(seq) /\ Len(seq) \in Nat /\ DOMAIN seq = 1..Len(seq)
<1>1. Len(seq) \in Nat /\ DOMAIN seq = 1..Len(seq)
  OBVIOUS
<1>2. \A n \in 1..Len(seq) : seq[n] \in ToSet(seq)
  BY <1>1 DEF ToSet
<1>3. seq = [n \in 1..Len(seq) |-> seq[n]]
  BY <1>1
<1>4. seq \in Seq(ToSet(seq))
  BY <1>1, <1>2, <1>3
<1> QED BY <1>1, <1>4 DEF IsList

(* The part of a list from one place to another.                           *)
LEMMA PartOfList ==
    ASSUME NEW seq, IsList(seq), NEW from \in 1..(Len(seq) + 1), NEW to \in (from - 1)..Len(seq)
    PROVE  LET part == SubSeq(seq, from, to)
           IN /\ IsList(part) /\ Len(part) = to - from + 1 /\ DOMAIN part = 1..(to - from + 1)
              /\ \A n \in DOMAIN part : part[n] = seq[from + n - 1] /\ from + n - 1 \in DOMAIN seq
<1> DEFINE part == SubSeq(seq, from, to)
<1>1. seq \in Seq(ToSet(seq)) /\ Len(seq) \in Nat /\ DOMAIN seq = 1..Len(seq)
  BY DEF IsList
<1>2. part \in Seq(ToSet(seq))
  BY <1>1
<1>3. Len(part) = to - from + 1
  BY <1>1
<1>4. \A n \in 1..(to - from + 1) : part[n] = seq[from + n - 1] /\ from + n - 1 \in 1..Len(seq)
  BY <1>1
<1> HIDE DEF part
<1>5. IsList(part) /\ DOMAIN part = 1..Len(part)
  BY <1>2, SeqIsList
<1> QED BY <1>1, <1>3, <1>4, <1>5 DEF part

(* A call put at the end of the queue is there, the ones before it stay,   *)
(* and only its own agent's count grows.                                   *)
LEMMA QueuedAppend ==
    ASSUME NEW pending, IsList(pending), NEW p, NEW a
    PROVE  /\ IsList(Append(pending, p))
           /\ DOMAIN Append(pending, p) = DOMAIN pending \cup {Len(pending) + 1}
           /\ \A n \in DOMAIN Append(pending, p) :
                 Append(pending, p)[n] = IF n \in DOMAIN pending THEN pending[n] ELSE p
           /\ Queued(Append(pending, p), a) =
                 Queued(pending, a) \cup (IF p.agent = a THEN {Len(pending) + 1} ELSE {})
<1> DEFINE longer == Append(pending, p)
           S      == ToSet(pending)
<1>1. pending \in Seq(S)
  BY DEF IsList
<1>2. longer \in Seq(S \cup {p}) /\ Len(longer) = Len(pending) + 1 /\ Len(pending) \in Nat
  BY <1>1
<1>3. /\ DOMAIN longer = 1..(Len(pending) + 1) /\ DOMAIN pending = 1..Len(pending)
      /\ \A n \in DOMAIN longer : longer[n] = IF n \in DOMAIN pending THEN pending[n] ELSE p
  BY <1>1, <1>2
<1>4. 1..(Len(pending) + 1) = (1..Len(pending)) \cup {Len(pending) + 1}
      /\ Len(pending) + 1 \notin 1..Len(pending)
  BY <1>2
<1> HIDE DEF longer
<1>5. IsList(longer)
  BY <1>2, <1>3 DEF IsList, ToSet
<1>6. Queued(longer, a) = Queued(pending, a) \cup (IF p.agent = a THEN {Len(pending) + 1} ELSE {})
  BY <1>3, <1>4 DEF Queued
<1> QED BY <1>3, <1>4, <1>5, <1>6 DEF longer

(* Dropping the first of the queue leaves an agent no more than it had.    *)
LEMMA QueuedAfter ==
    ASSUME NEW pending, IsList(pending), NEW k \in 0..Len(pending)
    PROVE  LET rest == SubSeq(pending, k + 1, Len(pending))
           IN /\ IsList(rest)
              /\ \A n \in DOMAIN rest : \E m \in DOMAIN pending : rest[n] = pending[m]
              /\ \A a : Cardinality(Queued(rest, a)) <= Cardinality(Queued(pending, a))
<1> DEFINE rest == SubSeq(pending, k + 1, Len(pending))
           N    == Len(pending)
<1>1. pending \in Seq(ToSet(pending)) /\ N \in Nat /\ DOMAIN pending = 1..N
  BY DEF IsList
<1>2. k + 1 \in 1..(N + 1) /\ N \in ((k + 1) - 1)..Len(pending)
  BY <1>1
<1>3. /\ IsList(rest) /\ DOMAIN rest = 1..(N - k)
      /\ \A n \in 1..(N - k) : rest[n] = pending[n + k] /\ n + k \in 1..N
  <2>1. /\ IsList(rest) /\ DOMAIN rest = 1..(N - (k + 1) + 1)
        /\ \A n \in DOMAIN rest :
              rest[n] = pending[(k + 1) + n - 1] /\ (k + 1) + n - 1 \in DOMAIN pending
    BY <1>2, PartOfList
  <2> HIDE DEF rest, N
  <2>2. N - (k + 1) + 1 = N - k /\ \A n \in 1..(N - k) : (k + 1) + n - 1 = n + k
    BY <1>1
  <2> QED BY <1>1, <2>1, <2>2
<1> HIDE DEF rest, N
<1>4. ASSUME NEW a PROVE Cardinality(Queued(rest, a)) <= Cardinality(Queued(pending, a))
  <2> DEFINE R == Queued(rest, a)
             Q == Queued(pending, a)
             f == [n \in R |-> n + k]
  <2>1. R \subseteq 1..(N - k) /\ Q \subseteq 1..N
    BY <1>1, <1>3 DEF Queued
  <2>2. IsFiniteSet(R) /\ IsFiniteSet(Q)
    <3>1. IsFiniteSet(1..(N - k)) /\ IsFiniteSet(1..N)
      BY <1>1, FS_Interval
    <3> QED BY <2>1, <3>1, FS_Subset
  <2>3. f \in [R -> Q]
    BY <1>1, <1>3, <2>1 DEF Queued
  <2>4. \A n, m \in R : f[n] = f[m] => n = m
    BY <1>1, <2>1
  <2> HIDE DEF R, Q, f
  <2>5. ~ Cardinality(Q) < Cardinality(R)
    BY <2>2, <2>3, <2>4, FS_PigeonHole
  <2>6. Cardinality(Q) \in Nat /\ Cardinality(R) \in Nat
    BY <2>2, FS_CardinalityType
  <2> QED BY <2>5, <2>6 DEF R, Q
<1>5. \A n \in DOMAIN rest : \E m \in DOMAIN pending : rest[n] = pending[m]
  BY <1>1, <1>3
<1> QED BY <1>3, <1>4, <1>5 DEF rest, N

(* The calls one agent has waiting can be counted.                         *)
LEMMA QueuedFinite ==
    ASSUME NEW pending, IsList(pending), NEW a
    PROVE  IsFiniteSet(Queued(pending, a)) /\ Cardinality(Queued(pending, a)) \in Nat
<1>1. Len(pending) \in Nat /\ Queued(pending, a) \subseteq 1..Len(pending)
  BY DEF IsList, Queued
<1>2. IsFiniteSet(1..Len(pending))
  BY <1>1, FS_Interval
<1>3. IsFiniteSet(Queued(pending, a))
  BY <1>1, <1>2, FS_Subset
<1> QED BY <1>3, FS_CardinalityType

(* A call the lists offer is cleared at once; another waits while its agent*)
(* has room, and else is judged on the spot.                               *)
LEMMA QueueCallKeeps ==
    ASSUME clock \in Nat, NEW d, NEW ids, SideOK(d, ids),
           NEW by, NEW call, by.agent \in W.agents, <<by.agent, by.id>> \in ids
    PROVE  /\ Frame(d, QueueCall(by, call, d), {"rows", "verdicts", "pending"})
           /\ SideOK(QueueCall(by, call, d), ids)
<1> DEFINE p == [agent |-> by.agent, id |-> by.id, tool |-> call.tool, wire |-> call.wire,
                 endpoint |-> call.endpoint, called |-> clock, due |-> clock + Delay]
           e == QueueCall(by, call, d)
           v == Verdict(d, p, FALSE)
           q == [d EXCEPT !.pending = Append(@, p)]
<1>1. /\ p.agent = by.agent /\ p.id = by.id /\ p.called = clock /\ p.due = clock + Delay
      /\ p.endpoint = call.endpoint /\ p.wire = call.wire
  OBVIOUS
<1>2. \/ e = d
      \/ e = v /\ Offered(d.schemas, call.endpoint, call.wire, clock) = "yes"
      \/ e = JudgeNotOffered(d, p)
      \/ e = q /\ ~QueueFull(d.pending, by.agent)
  BY DEF QueueCall
<1> HIDE DEF p, e
<1>3. DOMAIN d = Tables
  BY DEF SideOK
<1>4. CASE e = d
  BY <1>3, <1>4 DEF Frame, e
<1>5. CASE e = v /\ Offered(d.schemas, call.endpoint, call.wire, clock) = "yes"
  <2>1. Frame(d, v, {"verdicts"})
    BY <1>3, VerdictChanges
  <2>2. VerdictsOK(v.verdicts)
    <3>1. Offered(d.schemas, p.endpoint, p.wire, p.called) # "no" /\ p.called \in Int
      BY <1>1, <1>5
    <3>2. FALSE <=> Offered(d.schemas, p.endpoint, p.wire, p.called) = "no"
      BY <3>1
    <3>3. PagesOK(d.schemas, d.listings, clock) /\ VerdictsOK(d.verdicts)
      BY DEF SideOK
    <3> QED BY <1>3, <3>1, <3>2, <3>3, VerdictRight
  <2> HIDE DEF v
  <2>3. v.rows = d.rows /\ v.schemas = d.schemas /\ v.listings = d.listings
        /\ v.pending = d.pending /\ DOMAIN v = Tables
    BY <2>1 DEF Frame, Tables
  <2> QED BY <1>5, <2>1, <2>2, <2>3 DEF SideOK, Frame, e
<1>6. CASE e = JudgeNotOffered(d, p)
  <2>1. Frame(d, e, {"rows", "verdicts"}) /\ SideOK(e, ids)
    BY <1>1, <1>6, JudgeNotOfferedKeeps
  <2> QED BY <2>1 DEF Frame, e
<1>7. CASE e = q /\ ~QueueFull(d.pending, by.agent)
  <2>1. Frame(d, q, {"pending"}) /\ q.pending = Append(d.pending, p)
    BY <1>3 DEF Frame, Tables
  <2> HIDE DEF q
  <2>2. q.rows = d.rows /\ q.schemas = d.schemas /\ q.listings = d.listings
        /\ q.verdicts = d.verdicts /\ DOMAIN q = Tables
    BY <2>1 DEF Frame, Tables
  <2>3. QueueOK(q.pending, clock, W.agents, ids)
    <3>1. QueueOK(d.pending, clock, W.agents, ids) /\ IsList(d.pending)
      BY DEF SideOK, QueueOK
    <3>2. /\ IsList(q.pending)
          /\ DOMAIN q.pending = DOMAIN d.pending \cup {Len(d.pending) + 1}
          /\ \A n \in DOMAIN q.pending :
                q.pending[n] = IF n \in DOMAIN d.pending THEN d.pending[n] ELSE p
          /\ \A a : Queued(q.pending, a) =
                Queued(d.pending, a) \cup (IF p.agent = a THEN {Len(d.pending) + 1} ELSE {})
      BY <2>1, <3>1, QueuedAppend
    <3>3. ASSUME NEW n \in DOMAIN q.pending
          PROVE  /\ q.pending[n].called \in Int
                 /\ q.pending[n].due = q.pending[n].called + Delay
                 /\ <<q.pending[n].agent, q.pending[n].id>> \in ids
      <4>1. CASE q.pending[n] = p
        BY <1>1, <4>1
      <4>2. CASE n \in DOMAIN d.pending /\ q.pending[n] = d.pending[n]
        BY <3>1, <4>2 DEF QueueOK
      <4> QED BY <3>2, <4>1, <4>2
    <3>4. ASSUME NEW a \in W.agents PROVE Cardinality(Queued(q.pending, a)) <= MAX_PENDING
      <4>1. Cardinality(Queued(d.pending, a)) <= MAX_PENDING
        BY <3>1 DEF QueueOK
      <4>2. CASE p.agent # a
        <5>1. Queued(q.pending, a) = Queued(d.pending, a)
          BY <3>2, <4>2
        <5> QED BY <4>1, <5>1
      <4>3. CASE p.agent = a
        <5>1. Queued(q.pending, a) = Queued(d.pending, a) \cup {Len(d.pending) + 1}
          BY <3>2, <4>3
        <5>2. ~ Cardinality(Queued(d.pending, a)) >= MAX_PENDING
          BY <1>1, <1>7, <4>3 DEF QueueFull
        <5>3. IsFiniteSet(Queued(d.pending, a))
          BY <3>1, QueuedFinite
        <5>7. Cardinality(Queued(d.pending, a)) \in Nat
          BY <5>3, FS_CardinalityType
        <5>8. Cardinality(Queued(q.pending, a)) \in {Cardinality(Queued(d.pending, a)),
                                                       Cardinality(Queued(d.pending, a)) + 1}
          BY <5>1, <5>3, FS_AddElement
        <5>4. Cardinality(Queued(q.pending, a)) <= Cardinality(Queued(d.pending, a)) + 1
          BY <5>7, <5>8
        <5>5. MAX_PENDING \in Nat
          BY CaptureBoundsAssumption
        <5>6. Cardinality(Queued(q.pending, a)) \in Nat
          BY <5>1, <5>3, FS_CardinalityType, FS_AddElement
        <5> QED BY <5>2, <5>4, <5>5, <5>6, <5>7
      <4> QED BY <4>2, <4>3
    <3> QED BY <3>2, <3>3, <3>4 DEF QueueOK
  <2> QED BY <1>7, <2>1, <2>2, <2>3 DEF SideOK, Frame, e
<1> QED BY <1>2, <1>4, <1>5, <1>6, <1>7 DEF e

(* So do all the calls of one request, one after another.                  *)
LEMMA QueueNotOfferedKeeps ==
    ASSUME clock \in Nat, NEW d, NEW ids, SideOK(d, ids),
           NEW by, by.agent \in W.agents, <<by.agent, by.id>> \in ids,
           NEW calls, NEW N \in Nat, DOMAIN calls = 1..N
    PROVE  /\ Frame(d, QueueNotOffered(by, calls, d), {"rows", "verdicts", "pending"})
           /\ SideOK(QueueNotOffered(by, calls, d), ids)
<1> DEFINE changed == {"rows", "verdicts", "pending"}
           Good(e) == Frame(d, e, changed) /\ SideOK(e, ids)
<1>1. QueueNotOffered(by, calls, d) = Queueing!OfSeq(by, d, calls)
  BY DEF QueueNotOffered, Queueing!OfSeq, FoldLeft, Queueing!FoldLeft,
         MapThenFoldSet, Queueing!MapThenFoldSet, Max, Queueing!Max
<1>2. PICK f : /\ Queueing!OfSeq(by, d, calls) = f[N] /\ f[0] = d
               /\ \A n \in 1..N : f[n] = QueueCall(by, calls[n], f[n - 1])
  <2>1. Queueing!Folded(by, d, calls, N)
    BY Queueing!SeqFold
  <2> QED BY <2>1 DEF Queueing!Folded
<1> DEFINE S == {n \in 0..N : Good(f[n])}
<1>3. 0 \in S
  BY <1>2 DEF Frame, SideOK
<1>4. ASSUME NEW n \in 1..N, n - 1 \in S PROVE n \in S
  <2>1. Good(f[n - 1]) /\ f[n] = QueueCall(by, calls[n], f[n - 1]) /\ n \in 0..N
    BY <1>2, <1>4
  <2>2. Frame(f[n - 1], f[n], changed) /\ SideOK(f[n], ids)
    BY <2>1, QueueCallKeeps
  <2>3. Frame(d, f[n], changed)
    BY <2>1, <2>2, FrameThrough
  <2> QED BY <2>1, <2>2, <2>3
<1> HIDE DEF S
<1>5. N \in S
  BY <1>3, <1>4, Queueing!StepsTo
<1> QED BY <1>1, <1>2, <1>5 DEF S

(* The calls of one run are the first of the queue, one each.              *)
LEMMA DueIsFirst ==
    ASSUME NEW pending, IsList(pending)
    PROVE  LET due == DueNow(pending)
           IN /\ IsList(due) /\ Len(due) \in 0..Len(pending)
              /\ \A n \in DOMAIN due : \E m \in DOMAIN pending : due[n] = pending[m]
<1> DEFINE passed == {n \in DOMAIN pending : pending[n].due <= clock}
           K      == Cardinality(passed)
           upto   == SubSeq(pending, 1, K)
<1>1. Len(pending) \in Nat /\ DOMAIN pending = 1..Len(pending)
  BY DEF IsList
<1>2. K \in 0..Len(pending)
  <2>1. IsFiniteSet(1..Len(pending)) /\ Cardinality(1..Len(pending)) = Len(pending)
    <3>1. /\ IsFiniteSet(1..Len(pending))
          /\ Cardinality(1..Len(pending)) = IF 1 > Len(pending) THEN 0 ELSE Len(pending) - 1 + 1
      BY <1>1, FS_Interval
    <3> QED BY <1>1, <3>1
  <2>2. passed \subseteq 1..Len(pending)
    BY <1>1
  <2> HIDE DEF passed
  <2>3. IsFiniteSet(passed) /\ K <= Len(pending)
    BY <2>1, <2>2, FS_Subset
  <2>4. K \in Nat
    BY <2>3, FS_CardinalityType
  <2> QED BY <1>1, <2>3, <2>4
<1> HIDE DEF K
<1>3. /\ IsList(upto) /\ Len(upto) = K /\ DOMAIN upto = 1..K
      /\ \A n \in 1..K : upto[n] = pending[n] /\ n \in DOMAIN pending
  <2>1. 1 \in 1..(Len(pending) + 1) /\ K \in (1 - 1)..Len(pending) /\ K - 1 + 1 = K
    BY <1>1, <1>2
  <2>2. /\ IsList(upto) /\ Len(upto) = K - 1 + 1 /\ DOMAIN upto = 1..(K - 1 + 1)
        /\ \A n \in DOMAIN upto : upto[n] = pending[1 + n - 1] /\ 1 + n - 1 \in DOMAIN pending
    BY <2>1, PartOfList
  <2> HIDE DEF upto
  <2>3. \A n \in 1..K : 1 + n - 1 = n
    BY <1>2
  <2> QED BY <2>1, <2>2, <2>3
<1> HIDE DEF upto
<1>4. DueNow(pending) = FirstOf(upto, RUN_LIMIT)
  BY DEF DueNow, upto, K
<1>5. CASE ~ Len(upto) > RUN_LIMIT
  <2>1. DueNow(pending) = upto
    BY <1>4, <1>5 DEF FirstOf
  <2> QED BY <1>2, <1>3, <2>1
<1>6. CASE Len(upto) > RUN_LIMIT
  <2> DEFINE first == SubSeq(upto, 1, RUN_LIMIT)
  <2>1. DueNow(pending) = first
    BY <1>4, <1>6 DEF FirstOf
  <2>2. RUN_LIMIT \in Nat /\ 1 \in 1..(Len(upto) + 1) /\ RUN_LIMIT \in (1 - 1)..Len(upto)
    BY <1>2, <1>3, <1>6, CaptureBoundsAssumption
  <2>3. /\ IsList(first) /\ Len(first) = RUN_LIMIT - 1 + 1
        /\ \A n \in DOMAIN first : first[n] = upto[1 + n - 1] /\ 1 + n - 1 \in DOMAIN upto
    BY <1>3, <2>2, PartOfList
  <2> HIDE DEF first
  <2>4. Len(first) \in 0..Len(pending)
    BY <1>1, <1>2, <1>3, <1>6, <2>2, <2>3
  <2>5. ASSUME NEW n \in DOMAIN first PROVE \E m \in DOMAIN pending : first[n] = pending[m]
    <3>1. first[n] = upto[1 + n - 1] /\ 1 + n - 1 \in 1..K
      BY <1>3, <2>3
    <3> QED BY <1>3, <3>1
  <2> QED BY <2>1, <2>3, <2>4, <2>5
<1> QED BY <1>5, <1>6

(* Judging the due calls in turn adds violations and verdicts, and nothing *)
(* else.                                                                   *)
LEMMA JudgingKeeps ==
    ASSUME clock \in Nat, NEW d, NEW ids, SideOK(d, ids), NEW due, IsList(due),
           \A n \in DOMAIN due : due[n].called \in Int /\ <<due[n].agent, due[n].id>> \in ids
    PROVE  /\ Frame(d, Judging!OfSeq({}, d, due), {"rows", "verdicts"})
           /\ SideOK(Judging!OfSeq({}, d, due), ids)
<1> DEFINE N == Len(due)
           changed == {"rows", "verdicts"}
           Good(e) == Frame(d, e, changed) /\ SideOK(e, ids)
<1>1. N \in Nat /\ DOMAIN due = 1..N
  BY DEF IsList
<1> HIDE DEF N
<1>2. PICK f : /\ Judging!OfSeq({}, d, due) = f[N] /\ f[0] = d
               /\ \A n \in 1..N : f[n] = JudgeStep({}, due[n], f[n - 1])
  <2>1. Judging!Folded({}, d, due, N)
    BY <1>1, Judging!SeqFold
  <2> QED BY <2>1 DEF Judging!Folded
<1> DEFINE S == {n \in 0..N : Good(f[n])}
<1>3. 0 \in S
  BY <1>1, <1>2 DEF Frame, SideOK
<1>4. ASSUME NEW n \in 1..N, n - 1 \in S PROVE n \in S
  <2>1. Good(f[n - 1]) /\ f[n] = JudgeNotOffered(f[n - 1], due[n]) /\ n \in 0..N
    BY <1>1, <1>2, <1>4 DEF JudgeStep
  <2>2. Frame(f[n - 1], f[n], changed) /\ SideOK(f[n], ids)
    BY <1>1, <2>1, JudgeNotOfferedKeeps
  <2>3. Frame(d, f[n], changed)
    BY <2>1, <2>2, FrameThrough
  <2> QED BY <2>1, <2>2, <2>3
<1> HIDE DEF S
<1>5. N \in S
  BY <1>1, <1>3, <1>4, Judging!StepsTo
<1> QED BY <1>2, <1>5 DEF S

(* A run of the queue changes what is queued, recorded and marked.         *)
LEMMA RunKeeps ==
    ASSUME clock \in Nat, NEW d, NEW ids, SideOK(d, ids), MarksOK(d), NEW fault
    PROVE  LET e == RunNotOffered(d, fault)
           IN /\ Frame(d, e, {"rows", "verdicts", "pending", "failed", "lost"})
              /\ SideOK(e, ids) /\ MarksOK(e)
<1> DEFINE changed == {"rows", "verdicts", "pending", "failed", "lost"}
           due   == DueNow(d.pending)
           fails == fault = "one" /\ due # <<>>
           rest  == SubSeq(d.pending, Len(due) + 1, Len(d.pending))
           left  == [d EXCEPT !.pending = rest]
           mark  == MarkedIf(fails, left)
           list  == IF fails THEN Tail(due) ELSE due
           e     == Judging!OfSeq({}, mark, list)
<1>1. DOMAIN d = Tables
  BY DEF SideOK
<1>2. CASE fault = "run"
  <2> DEFINE f == MarkedIf(TRUE, d)
  <2>1. RunNotOffered(d, fault) = f
    BY <1>2 DEF RunNotOffered, MarkedIf
  <2>2. Frame(d, f, {"failed", "lost"}) /\ f.failed \in {d.failed, {clock}}
    BY <1>1, MarkChanges
  <2> HIDE DEF f
  <2>3. /\ f.schemas = d.schemas /\ f.listings = d.listings /\ f.verdicts = d.verdicts
        /\ f.pending = d.pending /\ f.rows = d.rows /\ f.unattributed = d.unattributed
        /\ DOMAIN f = Tables
    BY <2>2 DEF Frame, Tables
  <2>4. SideOK(f, ids)
    BY <2>3 DEF SideOK
  <2>5. MarksOK(f)
    BY <2>2, <2>3 DEF MarksOK
  <2>6. Frame(d, f, changed)
    BY <2>2 DEF Frame
  <2> QED BY <2>1, <2>4, <2>5, <2>6
<1>3. CASE fault # "run"
  <2>1. RunNotOffered(d, fault) = e
    BY <1>3 DEF RunNotOffered, JudgeStep, Judging!OfSeq, FoldLeft, Judging!FoldLeft,
                MapThenFoldSet, Judging!MapThenFoldSet, Max, Judging!Max
  <2>2. /\ IsList(d.pending)
        /\ \A n \in DOMAIN d.pending :
              /\ d.pending[n].called \in Int
              /\ d.pending[n].due = d.pending[n].called + Delay
              /\ <<d.pending[n].agent, d.pending[n].id>> \in ids
        /\ \A a \in W.agents : Cardinality(Queued(d.pending, a)) <= MAX_PENDING
    BY DEF SideOK, QueueOK
  <2>3. /\ IsList(due) /\ Len(due) \in 0..Len(d.pending)
        /\ \A n \in DOMAIN due : \E m \in DOMAIN d.pending : due[n] = d.pending[m]
    BY <2>2, DueIsFirst
  <2> HIDE DEF due
  <2>4. /\ IsList(rest)
        /\ \A n \in DOMAIN rest : \E m \in DOMAIN d.pending : rest[n] = d.pending[m]
        /\ \A a : Cardinality(Queued(rest, a)) <= Cardinality(Queued(d.pending, a))
    BY <2>2, <2>3, QueuedAfter
  <2>5. QueueOK(rest, clock, W.agents, ids)
    <3> HIDE DEF rest
    <3>1. \A n \in DOMAIN rest : /\ rest[n].called \in Int /\ rest[n].due = rest[n].called + Delay
                                 /\ <<rest[n].agent, rest[n].id>> \in ids
      BY <2>2, <2>4
    <3>2. ASSUME NEW a \in W.agents PROVE Cardinality(Queued(rest, a)) <= MAX_PENDING
      <4>1. /\ Cardinality(Queued(rest, a)) <= Cardinality(Queued(d.pending, a))
            /\ Cardinality(Queued(d.pending, a)) <= MAX_PENDING
        BY <2>2, <2>4
      <4>2. IsList(rest) /\ IsList(d.pending) /\ MAX_PENDING \in Nat
        BY <2>2, <2>4, CaptureBoundsAssumption
      <4>3. Cardinality(Queued(rest, a)) \in Nat /\ Cardinality(Queued(d.pending, a)) \in Nat
        BY <4>2, QueuedFinite
      <4> QED BY <4>1, <4>2, <4>3
    <3> QED BY <2>4, <3>1, <3>2 DEF QueueOK
  <2>6. Frame(d, left, {"pending"}) /\ left.pending = rest
    BY <1>1 DEF Frame, Tables
  <2> HIDE DEF left, rest
  <2>7. Frame(left, mark, {"failed", "lost"}) /\ mark.failed \in {left.failed, {clock}}
    BY <2>6, MarkChanges DEF Frame
  <2> HIDE DEF mark
  <2>8. /\ mark.schemas = d.schemas /\ mark.listings = d.listings
        /\ mark.verdicts = d.verdicts /\ mark.pending = rest /\ mark.rows = d.rows
        /\ mark.unattributed = d.unattributed /\ DOMAIN mark = Tables
        /\ mark.failed \in {d.failed, {clock}}
    BY <2>6, <2>7 DEF Frame, Tables
  <2>9. SideOK(mark, ids)
    BY <2>5, <2>8 DEF SideOK
  <2>10. /\ IsList(list)
         /\ \A n \in DOMAIN list : \E m \in DOMAIN due : list[n] = due[m]
    <3>1. CASE ~fails
      BY <2>3, <3>1
    <3>2. CASE fails
      <4>1. due \in Seq(ToSet(due)) /\ due # <<>>
        BY <2>3, <3>2 DEF IsList
      <4>2. /\ Tail(due) \in Seq(ToSet(due)) /\ Len(Tail(due)) = Len(due) - 1
            /\ \A n \in 1..(Len(due) - 1) : Tail(due)[n] = due[n + 1]
            /\ DOMAIN due = 1..Len(due) /\ Len(due) \in Nat
        BY <4>1
      <4>3. DOMAIN Tail(due) = 1..Len(Tail(due)) /\ IsList(Tail(due))
        BY <4>2, SeqIsList
      <4>4. \A n \in 1..(Len(due) - 1) : n + 1 \in DOMAIN due
        BY <4>2
      <4>5. \A n \in DOMAIN Tail(due) : Tail(due)[n] = due[n + 1] /\ n + 1 \in DOMAIN due
        BY <4>2, <4>3, <4>4
      <4> QED BY <3>2, <4>3, <4>5
    <3> QED BY <3>1, <3>2
  <2> HIDE DEF list
  <2>11. \A n \in DOMAIN list : list[n].called \in Int /\ <<list[n].agent, list[n].id>> \in ids
    <3> SUFFICES ASSUME NEW n \in DOMAIN list
                 PROVE  list[n].called \in Int /\ <<list[n].agent, list[n].id>> \in ids
      OBVIOUS
    <3>1. PICK m \in DOMAIN due : list[n] = due[m]
      BY <2>10
    <3>2. PICK k \in DOMAIN d.pending : due[m] = d.pending[k]
      BY <2>3
    <3> QED BY <2>2, <3>1, <3>2
  <2>12. Frame(mark, e, {"rows", "verdicts"}) /\ SideOK(e, ids)
    BY <2>9, <2>10, <2>11, JudgingKeeps
  <2> HIDE DEF e
  <2>13. Frame(d, e, changed)
    BY <2>6, <2>7, <2>12 DEF Frame
  <2>14. MarksOK(e)
    <3>1. e.failed \in {d.failed, {clock}} /\ e.unattributed = d.unattributed
      BY <2>8, <2>12 DEF Frame, Tables
    <3> QED BY <3>1 DEF MarksOK
  <2> QED BY <2>1, <2>12, <2>13, <2>14
<1> QED BY <1>2, <1>3
-----------------------------------------------------------------------------
(* What a rule keeps of a request's calls                                  *)

HitFields == {"tool", "action", "endpoint", "class", "id", "undeclared"}

(* What evaluate_data_actions keeps of a call's action.                    *)
HitOf(calls, id, n, action) ==
    [tool |-> calls[n].tool, action |-> action, endpoint |-> calls[n].endpoint,
     class |-> calls[n].class, id |-> id,
     undeclared |-> action = "upload" /\ calls[n].undeclared # {}]

AllHits(rule, calls, id) ==
    {h \in UNION {{[n |-> n, v |-> HitOf(calls, id, n, a)] : a \in CallActions(rule, calls[n])} :
                     n \in DOMAIN calls} :
       ~DataActionAllowed(rule, h.v.tool, h.v.action)}

SameHits(all, h) == {k \in all : DataActionItem(k.v) = DataActionItem(h.v)}

FirstHits(all) == {k \in all : \A j \in SameHits(all, k) : k.n <= j.n}

ShownHit(all, h) == [h.v EXCEPT !.class = IF \E k \in SameHits(all, h) : k.v.class = OBSERVED
                                          THEN OBSERVED ELSE @]

(* Two violations are of one item.                                         *)
SameItem(v, w) == DataActionItem(v) = DataActionItem(w)

(* evaluate_data_actions, in the parts the lemmas speak of.                *)
LEMMA EvaluateIs ==
    ASSUME NEW rule, NEW calls, NEW id
    PROVE  LET all == AllHits(rule, calls, id)
           IN EvaluateDataActions(rule, calls, id) = {ShownHit(all, h) : h \in FirstHits(all)}
  BY DEF EvaluateDataActions, AllHits, FirstHits, ShownHit, SameHits, HitOf

(* A hit is one action of one call that the rule does not allow.           *)
LEMMA HitParts ==
    ASSUME NEW rule, NEW calls, NEW id, NEW h
    PROVE  h \in AllHits(rule, calls, id) <=>
              \E n \in DOMAIN calls : \E a \in CallActions(rule, calls[n]) :
                 /\ h = [n |-> n, v |-> HitOf(calls, id, n, a)]
                 /\ ~DataActionAllowed(rule, calls[n].tool, a)
<1>1. \A n, a : LET k == [n |-> n, v |-> HitOf(calls, id, n, a)]
                IN k.v.tool = calls[n].tool /\ k.v.action = a
  BY DEF HitOf
<1> DEFINE k(n, a) == [n |-> n, v |-> HitOf(calls, id, n, a)]
<1>2. \A n, a : k(n, a).v.tool = calls[n].tool /\ k(n, a).v.action = a
  BY <1>1
<1>3. AllHits(rule, calls, id) =
         {i \in UNION {{k(n, a) : a \in CallActions(rule, calls[n])} : n \in DOMAIN calls} :
            ~DataActionAllowed(rule, i.v.tool, i.v.action)}
  BY DEF AllHits
<1> SUFFICES h \in AllHits(rule, calls, id) <=>
              \E n \in DOMAIN calls : \E a \in CallActions(rule, calls[n]) :
                 h = k(n, a) /\ ~DataActionAllowed(rule, calls[n].tool, a)
  OBVIOUS
<1> HIDE DEF k
<1> QED BY <1>2, <1>3

(* A violation kept is one call's, what it says of its class aside.        *)
LEMMA HitIsACalls ==
    ASSUME NEW rule, NEW calls, NEW id, NEW v \in EvaluateDataActions(rule, calls, id)
    PROVE  /\ DOMAIN v = HitFields /\ v.id = id
           /\ \E n \in DOMAIN calls :
                 /\ v.action \in CallActions(rule, calls[n])
                 /\ v.tool = calls[n].tool /\ v.endpoint = calls[n].endpoint
                 /\ v.undeclared = (v.action = "upload" /\ calls[n].undeclared # {})
                 /\ ~DataActionAllowed(rule, v.tool, v.action)
<1> DEFINE all == AllHits(rule, calls, id)
<1>1. PICK h \in FirstHits(all) : v = ShownHit(all, h)
  BY EvaluateIs
<1>2. h \in all
  BY <1>1 DEF FirstHits
<1>3. PICK n, a : /\ n \in DOMAIN calls
                  /\ a \in CallActions(rule, calls[n])
                  /\ h = [n |-> n, v |-> HitOf(calls, id, n, a)]
                  /\ ~DataActionAllowed(rule, calls[n].tool, a)
  BY <1>2, HitParts
<1>4. h.v = HitOf(calls, id, n, a)
  BY <1>3
<1> HIDE DEF all
<1>5. /\ DOMAIN h.v = HitFields /\ h.v.id = id /\ h.v.tool = calls[n].tool /\ h.v.action = a
      /\ h.v.endpoint = calls[n].endpoint
      /\ h.v.undeclared = (a = "upload" /\ calls[n].undeclared # {})
  BY <1>4 DEF HitOf, HitFields
<1>6. PICK x : v = [h.v EXCEPT !.class = x]
  BY <1>1 DEF ShownHit
<1>7. /\ DOMAIN v = HitFields /\ v.id = id /\ v.tool = calls[n].tool /\ v.action = a
      /\ v.endpoint = calls[n].endpoint
      /\ v.undeclared = (a = "upload" /\ calls[n].undeclared # {})
  BY <1>5, <1>6 DEF HitFields
<1> QED BY <1>3, <1>7

(* A violation is kept of the item of a call's action: the first such      *)
(* call's.                                                                 *)
KeptFirst(rule, calls, id, n, a) ==
    \E v \in EvaluateDataActions(rule, calls, id), m \in 1..n :
       /\ SameItem(v, HitOf(calls, id, n, a))
       /\ v.action \in CallActions(rule, calls[m])
       /\ v.tool = calls[m].tool /\ v.endpoint = calls[m].endpoint
       /\ v.undeclared = (v.action = "upload" /\ calls[m].undeclared # {})

(* What a call did is of an item kept when the rule forbids it.            *)
LEMMA FirstIsKept ==
    ASSUME NEW rule, NEW calls, NEW id, NEW N \in Nat, DOMAIN calls = 1..N,
           NEW n \in 1..N, NEW a \in CallActions(rule, calls[n]),
           ~DataActionAllowed(rule, calls[n].tool, a)
    PROVE  KeptFirst(rule, calls, id, n, a)
<1> DEFINE all  == AllHits(rule, calls, id)
           hit  == HitOf(calls, id, n, a)
           P(m) == \E h \in all : h.n = m /\ SameItem(h.v, hit)
<1>1. P(n)
  <2>1. [n |-> n, v |-> hit] \in all
    BY HitParts
  <2> HIDE DEF all, hit
  <2> QED BY <2>1 DEF SameItem
<1>2. \A m : P(m) => m \in 1..N
  <2> SUFFICES ASSUME NEW m, NEW h \in all, h.n = m PROVE m \in 1..N
    OBVIOUS
  <2>1. PICK i, b :
         /\ i \in DOMAIN calls /\ b \in CallActions(rule, calls[i])
         /\ h = [n |-> i, v |-> HitOf(calls, id, i, b)]
    BY HitParts
  <2> HIDE DEF all
  <2> QED BY <2>1
<1> HIDE DEF P
<1>3. PICK m \in 1..n : P(m) /\ \A k \in 1..N : P(k) => m <= k
  <2> DEFINE places == {k \in 1..n : P(k)}
             below  == OpToRel(<, Nat)
  <2>1. places \subseteq Nat /\ places # {}
    BY <1>1
  <2>2. PICK m \in places : \A k \in places : ~ <<k, m>> \in below
    <3>1. IsWellFoundedOn(below, Nat)
      BY NatLessThanWellFounded
    <3> HIDE DEF places, below
    <3> QED BY <2>1, <3>1, WFMin
  <2>3. \A k \in places : ~ k < m
    BY <2>1, <2>2 DEF OpToRel
  <2>4. \A k \in 1..N : P(k) => m <= k
    BY <2>3
  <2> QED BY <2>2, <2>4
<1>4. PICK h \in all : h.n = m /\ SameItem(h.v, hit)
  BY <1>3 DEF P
<1>5. h \in FirstHits(all)
  <2> SUFFICES ASSUME NEW j \in SameHits(all, h) PROVE h.n <= j.n
    BY DEF FirstHits
  <2>1. j \in all /\ SameItem(j.v, hit)
    BY <1>4 DEF SameHits, SameItem
  <2> HIDE DEF all, hit
  <2>2. P(j.n)
    BY <2>1 DEF P
  <2> QED BY <1>2, <1>3, <1>4, <2>2
<1>6. PICK i, b :
         /\ i \in DOMAIN calls /\ b \in CallActions(rule, calls[i])
         /\ h = [n |-> i, v |-> HitOf(calls, id, i, b)]
  BY <1>4, HitParts
<1>7. i = m /\ h.v = HitOf(calls, id, m, b) /\ b \in CallActions(rule, calls[m])
  BY <1>4, <1>6
<1> DEFINE v == ShownHit(all, h)
<1>8. v \in EvaluateDataActions(rule, calls, id)
  BY <1>5, EvaluateIs
<1>9. PICK x : v = [h.v EXCEPT !.class = x]
  BY DEF ShownHit
<1> HIDE DEF all, v, hit
<1>10. /\ DOMAIN h.v = HitFields /\ h.v.tool = calls[m].tool /\ h.v.action = b
       /\ h.v.endpoint = calls[m].endpoint
       /\ h.v.undeclared = (b = "upload" /\ calls[m].undeclared # {})
  BY <1>7 DEF HitOf, HitFields
<1>11. /\ v.tool = calls[m].tool /\ v.action = b /\ v.endpoint = calls[m].endpoint
       /\ v.undeclared = (b = "upload" /\ calls[m].undeclared # {})
       /\ v.tool = h.v.tool /\ v.action = h.v.action /\ v.endpoint = h.v.endpoint
  BY <1>9, <1>10 DEF HitFields
<1>12. SameItem(v, hit)
  BY <1>4, <1>11 DEF SameItem, DataActionItem
<1> QED BY <1>7, <1>8, <1>11, <1>12 DEF hit, KeptFirst
-----------------------------------------------------------------------------
(* Which guardrail judges, and what it does                                *)

(* Rows and queued calls of judged requests still are, once more requests  *)
(* are judged.                                                             *)
LEMMA MoreIds ==
    ASSUME NEW d, NEW ids, NEW more, ids \subseteq more, SideOK(d, ids)
    PROVE  SideOK(d, more)
<1>1. RowsOK(d.rows, more)
  BY DEF SideOK, RowsOK
<1>2. QueueOK(d.pending, clock, W.agents, more)
  BY DEF SideOK, QueueOK
<1> QED BY <1>1, <1>2 DEF SideOK

(* One agent's verdict on one request marks it judged and names only judged*)
(* requests in the rows and the queue.                                     *)
LEMMA JudgeRequestKeeps ==
    ASSUME clock \in Nat, NEW d, SideOK(d, JudgedIds(d.judged)), MarksOK(d),
           NEW a \in W.agents, NEW c, NEW calls, NEW N \in Nat, DOMAIN calls = 1..N
    PROVE  LET e == JudgeRequest(d, a, c, calls)
           IN /\ Frame(d, e, {"rows", "verdicts", "pending", "unreadable", "judged"})
              /\ SideOK(e, JudgedIds(e.judged)) /\ MarksOK(e)
              /\ \E j : j.copy = c /\ e.judged = d.judged \cup {j}
<1> DEFINE ids  == JudgedIds(d.judged) \cup {<<a, c.id>>}
           by   == [agent |-> a, id |-> c.id]
           q    == IF RuleOf(a) = {} THEN d ELSE QueueNotOffered(by, calls, d)
           hits == UNION {EvaluateDataActions(r, calls, c.id) : r \in RuleOf(a)}
           r    == RecordViolations(q, a, hits)
           j    == [agent |-> a, copy |-> c, at |-> clock, under |-> active[a],
                    calls |-> calls, known |-> c.endpoint \in KnownMcpEndpoints(d.schemas)]
           e    == [r EXCEPT !.unreadable[a] = IF c.readable THEN @ ELSE {clock},
                             !.judged = @ \cup {j}]
           changed == {"rows", "verdicts", "pending", "unreadable", "judged"}
<1>1. JudgeRequest(d, a, c, calls) = e
  BY DEF JudgeRequest
<1>2. SideOK(d, ids) /\ DOMAIN d = Tables
  BY MoreIds DEF SideOK
<1>3. Frame(d, q, {"rows", "verdicts", "pending"}) /\ SideOK(q, ids)
  <2>1. CASE RuleOf(a) = {}
    BY <1>2, <2>1 DEF Frame
  <2>2. CASE RuleOf(a) # {}
    <3>1. by.agent = a /\ by.id = c.id /\ <<by.agent, by.id>> \in ids
      OBVIOUS
    <3> HIDE DEF by, ids
    <3>2. /\ Frame(d, QueueNotOffered(by, calls, d), {"rows", "verdicts", "pending"})
          /\ SideOK(QueueNotOffered(by, calls, d), ids)
      BY <1>2, <3>1, QueueNotOfferedKeeps
    <3> QED BY <2>2, <3>2
  <2> QED BY <2>1, <2>2
<1> HIDE DEF q
<1>4. DOMAIN q = Tables /\ RowsOK(q.rows, ids)
  BY <1>3 DEF SideOK
<1>5. \A v \in hits : "id" \in DOMAIN v /\ <<a, v.id>> \in ids
  BY HitIsACalls DEF HitFields
<1> HIDE DEF hits, ids
<1>6. Frame(q, r, {"rows"}) /\ RowsOK(r.rows, ids)
  BY <1>4, <1>5, RecordChanges, RecordRows
<1> HIDE DEF r
<1>7. Frame(r, e, {"unreadable", "judged"}) /\ e.judged = r.judged \cup {j}
  BY <1>6 DEF Frame, Tables
<1>8. j.agent = a /\ j.copy = c
  OBVIOUS
<1> HIDE DEF e, j
<1>9. e.judged = d.judged \cup {j}
  BY <1>3, <1>6, <1>7 DEF Frame, Tables
<1>10. JudgedIds(e.judged) = ids
  BY <1>8, <1>9 DEF JudgedIds, ids
<1>11. /\ e.schemas = q.schemas /\ e.listings = q.listings /\ e.verdicts = q.verdicts
       /\ e.pending = q.pending /\ e.rows = r.rows /\ DOMAIN e = Tables
       /\ e.failed = d.failed /\ e.unattributed = d.unattributed
  BY <1>3, <1>6, <1>7 DEF Frame, Tables
<1>12. SideOK(e, ids)
  BY <1>3, <1>6, <1>11 DEF SideOK
<1>13. MarksOK(e)
  BY <1>11 DEF MarksOK
<1>14. Frame(d, e, changed)
  BY <1>3, <1>6, <1>7 DEF Frame
<1> QED BY <1>1, <1>8, <1>9, <1>10, <1>12, <1>13, <1>14

(* What a request's check may change, and what stays of the rest.          *)
JudgeTables == {"rows", "verdicts", "pending", "unreadable", "judged", "failed", "lost",
                "unattributed"}

(* The check of a request judges it for its one owner, or for nobody, or is*)
(* undone and leaves a mark.                                               *)
LEMMA GuardrailKeeps ==
    ASSUME clock \in Nat, NEW d, SideOK(d, JudgedIds(d.judged)), MarksOK(d),
           NEW c, NEW fault, NEW calls, NEW N \in Nat, DOMAIN calls = 1..N
    PROVE  LET e == GuardrailOnRequest(d, c, fault, calls)
           IN /\ Frame(d, e, JudgeTables)
              /\ SideOK(e, JudgedIds(e.judged)) /\ MarksOK(e)
              /\ e.judged = d.judged \/ \E j : j.copy = c /\ e.judged = d.judged \cup {j}
<1> DEFINE e      == GuardrailOnRequest(d, c, fault, calls)
           owners == Owners(c, On)
           mark   == MarkedIf(TRUE, d)
           shared == [d EXCEPT !.unattributed = {clock}]
<1>1. DOMAIN d = Tables
  BY DEF SideOK
<1>2. e \in {d, mark, shared} \/ \E a \in W.agents : e = JudgeRequest(d, a, c, calls)
  <2>1. CASE On = {}
    BY <2>1 DEF GuardrailOnRequest
  <2>2. CASE On # {} /\ fault = "check"
    BY <2>2 DEF GuardrailOnRequest, MarkedIf
  <2>3. CASE On # {} /\ fault # "check"
    <3>1. owners \subseteq W.agents
      BY DEF Owners, On
    <3>2. e = CheckRequest(d, c, calls)
      BY <2>3 DEF GuardrailOnRequest
    <3>3. \/ e \in {d, shared}
          \/ e = JudgeRequest(d, CHOOSE a \in owners : TRUE, c, calls) /\ \E a \in owners : TRUE
      BY <3>2 DEF CheckRequest
    <3> QED BY <3>1, <3>3
  <2> QED BY <2>1, <2>2, <2>3
<1> HIDE DEF e
<1>3. CASE e = d
  BY <1>1, <1>3 DEF Frame, e
<1>4. CASE e = mark
  <2>1. Frame(d, mark, {"failed", "lost"}) /\ mark.failed \in {d.failed, {clock}}
    BY <1>1, MarkChanges
  <2> HIDE DEF mark
  <2>2. /\ mark.schemas = d.schemas /\ mark.listings = d.listings /\ mark.verdicts = d.verdicts
        /\ mark.pending = d.pending /\ mark.rows = d.rows /\ mark.judged = d.judged
        /\ mark.unattributed = d.unattributed /\ DOMAIN mark = Tables
    BY <2>1 DEF Frame, Tables
  <2>3. SideOK(mark, JudgedIds(mark.judged)) /\ MarksOK(mark)
    BY <2>1, <2>2 DEF SideOK, MarksOK
  <2>4. Frame(d, mark, JudgeTables)
    BY <2>1 DEF Frame, JudgeTables
  <2> QED BY <1>4, <2>2, <2>3, <2>4 DEF e
<1>5. CASE e = shared
  <2>1. Frame(d, shared, {"unattributed"}) /\ shared.unattributed = {clock}
    BY <1>1 DEF Frame, Tables
  <2> HIDE DEF shared
  <2>2. /\ shared.schemas = d.schemas /\ shared.listings = d.listings
        /\ shared.verdicts = d.verdicts /\ shared.pending = d.pending
        /\ shared.rows = d.rows /\ shared.judged = d.judged
        /\ shared.failed = d.failed /\ DOMAIN shared = Tables
    BY <2>1 DEF Frame, Tables
  <2>3. SideOK(shared, JudgedIds(shared.judged)) /\ MarksOK(shared)
    BY <2>1, <2>2 DEF SideOK, MarksOK
  <2>4. Frame(d, shared, JudgeTables)
    BY <2>1 DEF Frame, JudgeTables
  <2> QED BY <1>5, <2>2, <2>3, <2>4 DEF e
<1>6. ASSUME NEW a \in W.agents, e = JudgeRequest(d, a, c, calls)
      PROVE  /\ Frame(d, e, JudgeTables)
             /\ SideOK(e, JudgedIds(e.judged)) /\ MarksOK(e)
             /\ \E j : j.copy = c /\ e.judged = d.judged \cup {j}
  <2>1. /\ Frame(d, e, {"rows", "verdicts", "pending", "unreadable", "judged"})
        /\ SideOK(e, JudgedIds(e.judged)) /\ MarksOK(e)
        /\ \E j : j.copy = c /\ e.judged = d.judged \cup {j}
    BY <1>6, JudgeRequestKeeps
  <2> QED BY <2>1 DEF Frame, JudgeTables
<1> QED BY <1>2, <1>3, <1>4, <1>5, <1>6 DEF e
-----------------------------------------------------------------------------
(* The schemas recorded                                                    *)

SchemaFields == {"ref", "source", "endpoint", "host", "tool", "schema", "last"}

(* The tools a server lists are recorded under the server the list came    *)
(* from.                                                                   *)
LEMMA SchemasFound ==
    ASSUME NEW c, NEW f \in ExtractToolSchemas(c)
    PROVE  f.source = TOOLS_LIST => f.endpoint = c.endpoint
<1>1. ASSUME NEW source, NEW endpoint, NEW tools, f \in Found(c, source, endpoint, tools)
      PROVE  f.source = source /\ f.endpoint = endpoint
  BY <1>1 DEF Found
<1>2. MODEL_REQUEST # TOOLS_LIST /\ PROVIDER_LIST # TOOLS_LIST
  BY DEF MODEL_REQUEST, PROVIDER_LIST, TOOLS_LIST
<1>3. CASE f \in Found(c, MODEL_REQUEST, NoEndpoint, c.given)
  BY <1>1, <1>2, <1>3
<1>4. CASE f \in Found(c, PROVIDER_LIST, NoEndpoint, c.provided)
  BY <1>1, <1>2, <1>4
<1>5. CASE f \in Found(c, TOOLS_LIST, c.endpoint, ListingAnswers(c))
  BY <1>1, <1>5
<1> QED BY <1>3, <1>4, <1>5 DEF ExtractToolSchemas

(* What a capture's lists leave in the tables, found being their schemas.  *)
LEMMA PagesWith ==
    ASSUME clock \in Nat, NEW schemas, NEW listings, PagesOK(schemas, listings, clock),
           NEW endpoint, NEW found,
           \A f \in found : /\ DOMAIN f = SchemaFields /\ f.last = clock
                            /\ f.source = TOOLS_LIST => f.endpoint = endpoint
    PROVE  LET listed == {f \in found : f.source = TOOLS_LIST}
               page   == [endpoint |-> endpoint, at |-> clock, tools |-> {f.tool : f \in listed}]
           IN PagesOK({s \in schemas : \A f \in found : [s EXCEPT !.last = clock] # f} \cup found,
                      listings \cup (IF listed = {} THEN {} ELSE {page}), clock)
<1> DEFINE listed == {f \in found : f.source = TOOLS_LIST}
           page   == [endpoint |-> endpoint, at |-> clock, tools |-> {f.tool : f \in listed}]
           kept   == {s \in schemas : \A f \in found : [s EXCEPT !.last = clock] # f}
           now    == kept \cup found
           pages  == listings \cup (IF listed = {} THEN {} ELSE {page})
<1>1. /\ \A s \in schemas : DOMAIN s = SchemaFields /\ s.last \in 0..clock
      /\ \A s \in schemas : s.source = TOOLS_LIST =>
            \E l \in listings : l.endpoint = s.endpoint /\ l.at = s.last /\ s.tool \in l.tools
      /\ \A l \in listings : l.at \in 0..clock /\ l.tools # {}
      /\ \A l \in listings : \A tool \in l.tools :
            \E s \in schemas : /\ s.source = TOOLS_LIST /\ s.endpoint = l.endpoint
                               /\ s.tool = tool /\ l.at <= s.last
  BY DEF PagesOK, SchemaFields
<1>2. page.endpoint = endpoint /\ page.at = clock /\ page.tools = {f.tool : f \in listed}
  OBVIOUS
<1> HIDE DEF page
<1>3. \A s \in now : DOMAIN s = SchemaFields /\ s.last \in 0..clock
  BY <1>1
<1>4. ASSUME NEW s \in now, s.source = TOOLS_LIST
      PROVE  \E l \in pages : l.endpoint = s.endpoint /\ l.at = s.last /\ s.tool \in l.tools
  <2>1. CASE s \in found
    <3>1. s \in listed /\ page \in pages
      BY <1>4, <2>1
    <3> QED BY <1>2, <1>4, <2>1, <3>1
  <2>2. CASE s \in schemas
    BY <1>1, <1>4, <2>2
  <2> QED BY <2>1, <2>2
<1>5. \A l \in pages : l.at \in 0..clock /\ l.tools # {}
  BY <1>1, <1>2
<1>6. ASSUME NEW l \in pages, NEW tool \in l.tools
      PROVE  \E s \in now : /\ s.source = TOOLS_LIST /\ s.endpoint = l.endpoint
                            /\ s.tool = tool /\ l.at <= s.last
  <2>1. CASE l = page
    <3>1. PICK f \in listed : f.tool = tool
      BY <1>2, <1>6, <2>1
    <3> QED BY <1>2, <2>1, <3>1
  <2>2. CASE l \in listings
    <3>1. PICK s \in schemas : /\ s.source = TOOLS_LIST /\ s.endpoint = l.endpoint
                               /\ s.tool = tool /\ l.at <= s.last
      BY <1>1, <1>6, <2>2
    <3>2. CASE s \in kept
      BY <3>1, <3>2
    <3>3. ASSUME NEW f \in found, [s EXCEPT !.last = clock] = f
          PROVE  f.source = TOOLS_LIST /\ f.endpoint = l.endpoint /\ f.tool = tool /\ l.at <= f.last
      <4>1. DOMAIN s = SchemaFields
        BY <1>1
      <4>2. f.source = s.source /\ f.endpoint = s.endpoint /\ f.tool = s.tool
        BY <3>3, <4>1 DEF SchemaFields
      <4>3. l.at <= f.last
        BY <1>1, <2>2
      <4> QED BY <3>1, <4>2, <4>3
    <3> QED BY <3>2, <3>3
  <2> QED BY <1>6, <2>1, <2>2
<1> HIDE DEF now, pages
<1>7. PagesOK(now, pages, clock)
  BY <1>3, <1>4, <1>5, <1>6 DEF PagesOK, SchemaFields
<1> QED BY <1>7 DEF now, pages, page

(* A tool a server listed has the listing it was last in, and every        *)
(* listing's tools have their schemas, none of them older.                 *)
LEMMA RecordSchemas ==
    ASSUME clock \in Nat, NEW d, DOMAIN d = Tables, PagesOK(d.schemas, d.listings, clock), NEW c
    PROVE  LET e == RecordToolSchemas(d, c)
           IN Frame(d, e, {"schemas", "listings"}) /\ PagesOK(e.schemas, e.listings, clock)
<1> DEFINE found == {[ref |-> CaptureRef(c), source |-> f.source, endpoint |-> f.endpoint,
                      host |-> f.host, tool |-> f.tool, schema |-> f.schema, last |-> clock] :
                       f \in ExtractToolSchemas(c)}
           listed == {f \in found : f.source = TOOLS_LIST}
           page   == [endpoint |-> c.endpoint, at |-> clock, tools |-> {f.tool : f \in listed}]
           e      == [d EXCEPT
                        !.schemas = {s \in @ : \A f \in found : [s EXCEPT !.last = clock] # f}
                                    \cup found,
                        !.listings = @ \cup (IF listed = {} THEN {} ELSE {page})]
<1>1. RecordToolSchemas(d, c) = e
  BY DEF RecordToolSchemas
<1>2. \A f \in found : /\ DOMAIN f = SchemaFields /\ f.last = clock
                       /\ f.source = TOOLS_LIST => f.endpoint = c.endpoint
  BY SchemasFound DEF SchemaFields
<1> HIDE DEF found
<1>3. PagesOK({s \in d.schemas : \A f \in found : [s EXCEPT !.last = clock] # f} \cup found,
              d.listings \cup (IF listed = {} THEN {} ELSE {page}), clock)
  BY <1>2, PagesWith
<1>4. Frame(d, e, {"schemas", "listings"})
  BY DEF Frame, Tables
<1>5. /\ e.schemas = {s \in d.schemas : \A f \in found : [s EXCEPT !.last = clock] # f} \cup found
      /\ e.listings = d.listings \cup (IF listed = {} THEN {} ELSE {page})
  BY DEF Tables
<1> QED BY <1>1, <1>3, <1>4, <1>5
-----------------------------------------------------------------------------
(* The calls recorded                                                      *)

CountOf(rows)          == FoldSet(LAMBDA row, n : row.count + n, 0, rows)
RowsOf(table, ref)     == {row \in table : row.ref = ref}
ReadOf(read, ref)      == {r \in read : r.ref = ref}
OrdinaryOf(table, ref) == {row \in RowsOf(table, ref) : row.tool \notin SpecialTools}

(* row is where a call that was read is counted.                           *)
Holds(row, r) ==
    /\ row.ref = r.ref /\ row.class = r.call.class /\ r.call.undeclared \subseteq row.undeclared
    /\ \/ row.tool = r.call.tool /\ row.endpoint = r.call.endpoint
       \/ row.tool = OVERFLOW_TOOL

(* CallsAccounted, of every capture that has rows or calls; a row is known *)
(* by its key.                                                             *)
CallsOK(table, read) ==
    /\ IsFiniteSet(table) /\ IsFiniteSet(read)
    /\ \A row \in table : row.count \in Nat
    /\ \A row, other \in table : CallKey(row) = CallKey(other) => row = other
    /\ \A ref \in {row.ref : row \in table} \cup {r.ref : r \in read} :
          /\ CountOf(RowsOf(table, ref)) = Cardinality(ReadOf(read, ref))
          /\ Cardinality(OrdinaryOf(table, ref)) <= MAX_ROWS + ROW_SLACK
    /\ \A r \in read : \E row \in table : Holds(row, r)

(* Two rows of calls have one key when they are of one capture, class,     *)
(* tool, server and destination.                                           *)
LEMMA KeyParts ==
    ASSUME NEW row, NEW other
    PROVE  CallKey(row) = CallKey(other)
              <=> /\ row.ref = other.ref /\ row.class = other.class /\ row.tool = other.tool
                  /\ row.endpoint = other.endpoint /\ row.dest = other.dest
  BY DEF CallKey

(* The counts of the rows of a table add up, row by row.                   *)
LEMMA CountIs ==
    ASSUME NEW table, IsFiniteSet(table), \A row \in table : row.count \in Nat
    PROVE  /\ CountOf({}) = 0
           /\ \A rows \in SUBSET table : /\ CountOf(rows) \in Nat
                                         /\ \A row \in rows :
                                               CountOf(rows) = row.count + CountOf(rows \ {row})
<1> DEFINE weight == [row \in table |-> row.count]
<1>1. \A rows : CountOf(rows) = Counting!Total({}, rows)
  BY DEF CountOf, CountStep, Counting!Total, Counting!OfSet, FoldSet, Counting!FoldSet,
         MapThenFoldSet, Counting!MapThenFoldSet
<1>2. Counting!Additive({}, weight, table)
  BY DEF Counting!Additive, CountStep
<1>3. Counting!IsFiniteSet(table)
  BY DEF IsFiniteSet, Counting!IsFiniteSet
<1>4. \A row \in table : weight[row] = row.count
  OBVIOUS
<1> HIDE DEF weight
<1>5. /\ Counting!Total({}, {}) = 0
      /\ \A rows \in SUBSET table :
            /\ Counting!Total({}, rows) \in Nat
            /\ \A row \in rows : Counting!Total({}, rows)
                                   = weight[row] + Counting!Total({}, rows \ {row})
  BY <1>2, <1>3, Counting!SumTake
<1> QED BY <1>1, <1>4, <1>5, Zenon

(* The count of the row a call joins, old being the one with its key.      *)
CountWith(old) == FoldSet(LAMBDA r, n : r.count + n, 1, old)

(* A row merged with one call counts one more.                             *)
LEMMA JoinedCount ==
    ASSUME NEW o
    PROVE  CountWith({}) = 1 /\ CountWith({o}) = o.count + 1
<1>1. ASSUME NEW rows, IsFiniteSet(rows)
      PROVE  /\ rows = {} => CountWith(rows) = 1
             /\ rows = {o} => CountWith(rows) = o.count + 1
  <2>1. CountWith(rows) = Counting!OfSet({}, 1, rows)
    BY DEF CountWith, CountStep, Counting!OfSet, FoldSet, Counting!FoldSet,
           MapThenFoldSet, Counting!MapThenFoldSet
  <2>2. Counting!IsFiniteSet(rows)
    BY <1>1 DEF IsFiniteSet, Counting!IsFiniteSet
  <2>3. PICK v : v = Counting!OfSet({}, 1, rows)
    OBVIOUS
  <2>4. PICK g : Counting!OfSet({}, 1, rows) = g[rows] /\ Counting!Through(g, {}, 1, rows)
    BY <2>2, <2>3, Counting!SetFold
  <2>5. g[{}] = 1
    BY <2>4 DEF Counting!Through
  <2>6. ASSUME rows = {o} PROVE g[rows] = o.count + 1
    <3>1. PICK x \in rows : g[rows] = CountStep({}, x, g[rows \ {x}])
      BY <2>4, <2>6 DEF Counting!Through
    <3>2. x = o /\ rows \ {x} = {}
      BY <2>6
    <3> QED BY <2>5, <3>1, <3>2 DEF CountStep
  <2> QED BY <2>1, <2>4, <2>5, <2>6
<1>2. IsFiniteSet({}) /\ IsFiniteSet({o})
  BY FS_EmptySet, FS_Singleton
<1> QED BY <1>1, <1>2

(* A row for a call, in the table after: a new one, within the bound or for*)
(* all that is past it, or one in place of the row with its key.           *)
RowFor(row, ref, call) ==
    /\ row.ref = ref /\ row.class = call.class /\ call.undeclared \subseteq row.undeclared
    /\ \/ row.tool = call.tool /\ row.endpoint = call.endpoint
       \/ row.tool = OVERFLOW_TOOL

NewRow(table, after, row) ==
    /\ after = table \cup {row} /\ row.count = 1
    /\ \A o \in table : CallKey(o) # CallKey(row)
    /\ \/ row.tool \in SpecialTools
       \/ Cardinality(RowsOf(table, row.ref)) < MAX_ROWS + ROW_SLACK

InPlace(table, after, row, o) ==
    /\ after = (table \ {o}) \cup {row} /\ row.count = o.count + 1
    /\ CallKey(o) = CallKey(row) /\ o.undeclared \subseteq row.undeclared

(* A call makes a row of its own, or is counted in the row with its key.   *)
LEMMA UpsertIs ==
    ASSUME NEW table, NEW ref, NEW call,
           \A row, other \in table : CallKey(row) = CallKey(other) => row = other
    PROVE  \E row : /\ RowFor(row, ref, call)
                    /\ \/ NewRow(table, UpsertCall(table, ref, call), row)
                       \/ \E o \in table : InPlace(table, UpsertCall(table, ref, call), row, o)
<1> DEFINE new     == [ref |-> ref, class |-> call.class, tool |-> call.tool,
                       endpoint |-> call.endpoint, dest |-> call.dest,
                       undeclared |-> call.undeclared, count |-> 1]
           Same(row) == {r \in table : CallKey(r) = CallKey(row)}
           base    == IF Same(new) # {} THEN new ELSE Joined(table, new)
           old     == Same(base)
           row     == [base EXCEPT !.count = CountWith(old),
                                   !.undeclared = @ \cup UNION {r.undeclared : r \in old}]
           Fields  == {"ref", "class", "tool", "endpoint", "dest", "undeclared", "count"}
<1>1. UpsertCall(table, ref, call) = (table \ old) \cup {row}
  BY DEF UpsertCall, CountWith
<1>2. /\ DOMAIN base = Fields /\ base.ref = ref /\ base.class = call.class
      /\ base.undeclared = call.undeclared
      /\ \/ base.tool = call.tool /\ base.endpoint = call.endpoint
         \/ base.tool = OVERFLOW_TOOL
  BY DEF Joined
<1>3. old = {} => \/ base.tool \in SpecialTools
                  \/ Cardinality(RowsOf(table, ref)) < MAX_ROWS + ROW_SLACK
  <2> SUFFICES ASSUME old = {}
               PROVE  \/ base.tool \in SpecialTools
                      \/ Cardinality(RowsOf(table, ref)) < MAX_ROWS + ROW_SLACK
    OBVIOUS
  <2> DEFINE rows == Cardinality({r \in table : r.ref = new.ref})
             tool == IF rows >= MAX_ROWS THEN [new EXCEPT !.dest = NoDest] ELSE new
  <2>1. base = Joined(table, new)
    OBVIOUS
  <2>2. tool.tool = new.tool /\ new.ref = ref
    OBVIOUS
  <2>3. \/ base = tool /\ \/ CallKey(tool) \in {CallKey(r) : r \in table}
                           \/ rows < MAX_ROWS + ROW_SLACK
                           \/ new.tool \in SpecialTools
        \/ base = [new EXCEPT !.tool = OVERFLOW_TOOL, !.endpoint = NoEndpoint, !.dest = NoDest]
    BY <2>1 DEF Joined
  <2>4. rows = Cardinality(RowsOf(table, ref))
    BY <2>2 DEF RowsOf
  <2>5. CASE base.tool = OVERFLOW_TOOL
    BY <2>5 DEF SpecialTools
  <2>6. CASE base = tool /\ CallKey(tool) \in {CallKey(r) : r \in table}
    BY <2>6
  <2>7. CASE base = tool /\ rows < MAX_ROWS + ROW_SLACK
    <3> HIDE DEF rows
    <3> QED BY <2>4, <2>7
  <2>8. CASE base = tool /\ new.tool \in SpecialTools
    <3> HIDE DEF tool, new
    <3> QED BY <2>2, <2>8
  <2>9. [new EXCEPT !.tool = OVERFLOW_TOOL, !.endpoint = NoEndpoint, !.dest = NoDest].tool
           = OVERFLOW_TOOL
    OBVIOUS
  <2> HIDE DEF base, tool, rows, new
  <2> QED BY <2>3, <2>5, <2>6, <2>7, <2>8, <2>9
<1>4. /\ row.ref = base.ref /\ row.class = base.class /\ row.tool = base.tool
      /\ row.endpoint = base.endpoint /\ row.dest = base.dest
      /\ row.count = CountWith(old)
      /\ row.undeclared = base.undeclared \cup UNION {r.undeclared : r \in old}
  <2> HIDE DEF base, old
  <2> QED BY <1>2
<1>5. CallKey(row) = CallKey(base)
  <2> HIDE DEF row, base
  <2> QED BY <1>4, KeyParts
<1>6. old = {r \in table : CallKey(r) = CallKey(row)}
  <2> HIDE DEF row, base
  <2> QED BY <1>5
<1> HIDE DEF row, base, old, new
<1>7. RowFor(row, ref, call)
  <2>1. call.undeclared \subseteq row.undeclared
    BY <1>2, <1>4, Zenon
  <2>2. /\ row.ref = ref /\ row.class = call.class
        /\ (row.tool = call.tool /\ row.endpoint = call.endpoint) \/ row.tool = OVERFLOW_TOOL
    BY <1>2, <1>4
  <2> QED BY <2>1, <2>2 DEF RowFor
<1>8. CASE old = {}
  <2>1. UpsertCall(table, ref, call) = table \cup {row} /\ row.count = 1
    BY <1>1, <1>4, <1>8, JoinedCount
  <2>2. \A o \in table : CallKey(o) # CallKey(row)
    BY <1>6, <1>8
  <2>3. NewRow(table, UpsertCall(table, ref, call), row)
    BY <1>2, <1>3, <1>4, <1>8, <2>1, <2>2 DEF NewRow
  <2> QED BY <1>7, <2>3
<1>9. CASE old # {}
  <2>1. PICK o \in table : CallKey(o) = CallKey(row) /\ old = {o}
    BY <1>6, <1>9
  <2>2. row.count = o.count + 1 /\ o.undeclared \subseteq row.undeclared
    BY <1>4, <2>1, JoinedCount
  <2>3. UpsertCall(table, ref, call) = (table \ {o}) \cup {row}
    BY <1>1, <2>1
  <2>4. InPlace(table, UpsertCall(table, ref, call), row, o)
    BY <2>1, <2>2, <2>3 DEF InPlace
  <2> QED BY <1>7, <2>1, <2>4
<1> QED BY <1>8, <1>9

(* A capture neither the rows nor the calls know has none of either.       *)
LEMMA AnyRef ==
    ASSUME NEW table, NEW read, CallsOK(table, read), NEW ref
    PROVE  /\ CountOf(RowsOf(table, ref)) = Cardinality(ReadOf(read, ref))
           /\ Cardinality(OrdinaryOf(table, ref)) <= MAX_ROWS + ROW_SLACK
<1>1. CASE ref \in {row.ref : row \in table} \cup {r.ref : r \in read}
  BY <1>1 DEF CallsOK
<1>2. CASE ref \notin {row.ref : row \in table} \cup {r.ref : r \in read}
  <2>1. RowsOf(table, ref) = {} /\ ReadOf(read, ref) = {} /\ OrdinaryOf(table, ref) = {}
    BY <1>2 DEF RowsOf, ReadOf, OrdinaryOf
  <2>2. CountOf({}) = 0
    BY CountIs DEF CallsOK
  <2>3. Cardinality({}) = 0
    BY FS_EmptySet
  <2>4. MAX_ROWS \in Nat /\ ROW_SLACK \in Nat
    BY CaptureBoundsAssumption
  <2> QED BY <2>1, <2>2, <2>3, <2>4
<1> QED BY <1>1, <1>2

(* One more call and its row: the parts of CallsOK one by one.             *)
LEMMA NewRowCounts ==
    ASSUME NEW table, NEW read, CallsOK(table, read), NEW row, NEW after,
           NewRow(table, after, row)
    PROVE  /\ IsFiniteSet(after) /\ \A t \in after : t.count \in Nat
           /\ \A t, u \in after : CallKey(t) = CallKey(u) => t = u
           /\ CountOf(RowsOf(after, row.ref)) = CountOf(RowsOf(table, row.ref)) + 1
           /\ Cardinality(OrdinaryOf(after, row.ref)) <= MAX_ROWS + ROW_SLACK
<1> DEFINE rows     == RowsOf(table, row.ref)
           ordinary == OrdinaryOf(table, row.ref)
<1>1. /\ after = table \cup {row} /\ row.count = 1 /\ row \notin table
      /\ \A o \in table : CallKey(o) # CallKey(row)
      /\ row.tool \in SpecialTools \/ Cardinality(rows) < MAX_ROWS + ROW_SLACK
  BY DEF NewRow
<1>2. IsFiniteSet(table) /\ IsFiniteSet(after)
  BY <1>1, FS_AddElement DEF CallsOK
<1>3. \A t \in after : t.count \in Nat
  BY <1>1 DEF CallsOK
<1>4. \A t, u \in after : CallKey(t) = CallKey(u) => t = u
  BY <1>1 DEF CallsOK
<1>5. /\ RowsOf(after, row.ref) = rows \cup {row} /\ row \notin rows
      /\ RowsOf(after, row.ref) \in SUBSET after /\ rows \in SUBSET table
  BY <1>1 DEF RowsOf
<1>6. CountOf(RowsOf(after, row.ref)) = CountOf(rows) + 1
  <2>1. RowsOf(after, row.ref) \ {row} = rows /\ row \in RowsOf(after, row.ref)
    BY <1>5
  <2>2. CountOf(RowsOf(after, row.ref)) = row.count + CountOf(RowsOf(after, row.ref) \ {row})
    BY <1>2, <1>3, <1>5, <2>1, CountIs
  <2>3. CountOf(rows) \in Nat
    BY <1>2, <1>5, CountIs DEF CallsOK
  <2> HIDE DEF rows
  <2>4. CountOf(RowsOf(after, row.ref)) = 1 + CountOf(rows)
    BY <1>1, <2>1, <2>2
  <2> QED BY <2>3, <2>4
<1>7. Cardinality(OrdinaryOf(after, row.ref)) <= MAX_ROWS + ROW_SLACK
  <2>1. Cardinality(ordinary) <= MAX_ROWS + ROW_SLACK
    BY AnyRef
  <2>2. CASE row.tool \in SpecialTools
    <3>1. OrdinaryOf(after, row.ref) = ordinary
      BY <1>1, <2>2 DEF OrdinaryOf, RowsOf
    <3> QED BY <2>1, <3>1
  <2>3. CASE Cardinality(rows) < MAX_ROWS + ROW_SLACK
    <3>1. OrdinaryOf(after, row.ref) \subseteq rows \cup {row}
      BY <1>5 DEF OrdinaryOf
    <3>2. IsFiniteSet(rows) /\ Cardinality(rows) \in Nat
      BY <1>2, <1>5, FS_Subset, FS_CardinalityType
    <3>3. IsFiniteSet(rows \cup {row}) /\ Cardinality(rows \cup {row}) = Cardinality(rows) + 1
      BY <1>5, <3>2, FS_AddElement
    <3>4. /\ IsFiniteSet(OrdinaryOf(after, row.ref))
          /\ Cardinality(OrdinaryOf(after, row.ref)) <= Cardinality(rows \cup {row})
      BY <3>1, <3>3, FS_Subset
    <3>5. Cardinality(OrdinaryOf(after, row.ref)) \in Nat /\ MAX_ROWS \in Nat /\ ROW_SLACK \in Nat
      BY <3>4, FS_CardinalityType, CaptureBoundsAssumption
    <3> QED BY <2>3, <3>2, <3>3, <3>4, <3>5
  <2> QED BY <1>1, <2>2, <2>3
<1> QED BY <1>2, <1>3, <1>4, <1>6, <1>7

(* A call counted in a row that is there adds one to its capture's count   *)
(* and no row.                                                             *)
LEMMA InPlaceCounts ==
    ASSUME NEW table, NEW read, CallsOK(table, read), NEW row, NEW after,
           NEW o \in table, InPlace(table, after, row, o)
    PROVE  /\ IsFiniteSet(after) /\ \A t \in after : t.count \in Nat
           /\ \A t, u \in after : CallKey(t) = CallKey(u) => t = u
           /\ CountOf(RowsOf(after, row.ref)) = CountOf(RowsOf(table, row.ref)) + 1
           /\ Cardinality(OrdinaryOf(after, row.ref)) <= MAX_ROWS + ROW_SLACK
<1> DEFINE rows     == RowsOf(table, row.ref)
           ordinary == OrdinaryOf(table, row.ref)
           rest     == rows \ {o}
<1>1. /\ after = (table \ {o}) \cup {row} /\ row.count = o.count + 1 /\ CallKey(o) = CallKey(row)
      /\ o.ref = row.ref /\ o.tool = row.tool
  BY KeyParts DEF InPlace
<1>2. IsFiniteSet(table) /\ IsFiniteSet(after)
  <2>1. IsFiniteSet(table) /\ IsFiniteSet(table \ {o})
    BY FS_RemoveElement DEF CallsOK
  <2> QED BY <1>1, <2>1, FS_AddElement
<1>3. /\ \A t \in table : t.count \in Nat
      /\ \A t, u \in table : CallKey(t) = CallKey(u) => t = u
  BY DEF CallsOK
<1>4. \A t \in after : t.count \in Nat
  BY <1>1, <1>3
<1>5. row \notin table
  <2>1. row.count # o.count
    BY <1>1, <1>3
  <2> QED BY <1>1, <1>3, <2>1
<1>6. \A t, u \in after : CallKey(t) = CallKey(u) => t = u
  <2>1. \A t \in table \ {o} : CallKey(t) # CallKey(row)
    BY <1>1, <1>3
  <2> QED BY <1>1, <1>3, <2>1
<1>7. CountOf(RowsOf(after, row.ref)) = CountOf(rows) + 1
  <2>1. /\ RowsOf(after, row.ref) \ {row} = rest /\ row \in RowsOf(after, row.ref)
        /\ RowsOf(after, row.ref) \in SUBSET after /\ rows \in SUBSET table /\ o \in rows
        /\ rest \in SUBSET table
    BY <1>1, <1>5 DEF RowsOf
  <2>2. CountOf(RowsOf(after, row.ref)) = row.count + CountOf(RowsOf(after, row.ref) \ {row})
    BY <1>2, <1>4, <2>1, CountIs
  <2>3. CountOf(rows) = o.count + CountOf(rows \ {o}) /\ CountOf(rest) \in Nat
    BY <1>2, <1>3, <2>1, CountIs
  <2>4. o.count \in Nat /\ row.count = o.count + 1
    BY <1>1, <1>3
  <2>5. CountOf(RowsOf(after, row.ref)) = row.count + CountOf(rest)
    BY <2>1, <2>2
  <2>6. CountOf(rows) = o.count + CountOf(rest)
    BY <2>3
  <2> HIDE DEF rows, rest
  <2> QED BY <2>3, <2>4, <2>5, <2>6
<1>8. Cardinality(OrdinaryOf(after, row.ref)) <= MAX_ROWS + ROW_SLACK
  <2>1. Cardinality(ordinary) <= MAX_ROWS + ROW_SLACK
    BY AnyRef
  <2>2. CASE row.tool \in SpecialTools
    <3>1. OrdinaryOf(after, row.ref) = ordinary
      BY <1>1, <2>2 DEF OrdinaryOf, RowsOf
    <3> QED BY <2>1, <3>1
  <2>3. CASE row.tool \notin SpecialTools
    <3>1. /\ OrdinaryOf(after, row.ref) = (ordinary \ {o}) \cup {row} /\ o \in ordinary
          /\ row \notin ordinary \ {o} /\ ordinary \in SUBSET table
      BY <1>1, <1>5, <2>3 DEF OrdinaryOf, RowsOf
    <3>2. IsFiniteSet(ordinary) /\ Cardinality(ordinary) \in Nat
      BY <1>2, <3>1, FS_Subset, FS_CardinalityType
    <3>3. IsFiniteSet(ordinary \ {o}) /\ Cardinality(ordinary \ {o}) = Cardinality(ordinary) - 1
      BY <3>1, <3>2, FS_RemoveElement
    <3>4. Cardinality(OrdinaryOf(after, row.ref)) = Cardinality(ordinary \ {o}) + 1
      BY <3>1, <3>3, FS_AddElement
    <3>5. Cardinality(OrdinaryOf(after, row.ref)) = Cardinality(ordinary)
      BY <3>2, <3>3, <3>4
    <3> QED BY <2>1, <3>5
  <2> QED BY <2>2, <2>3
<1> QED BY <1>2, <1>4, <1>6, <1>7, <1>8

(* What a new row or one in place of another does to the accounts, its own *)
(* capture's being right.                                                  *)
LEMMA UpsertOK ==
    ASSUME NEW table, NEW read, CallsOK(table, read), NEW r, r \notin read
    PROVE  CallsOK(UpsertCall(table, r.ref, r.call), read \cup {r})
<1> DEFINE ref   == r.ref
           after == UpsertCall(table, r.ref, r.call)
           more  == read \cup {r}
<1>1. PICK row : /\ RowFor(row, ref, r.call)
                 /\ NewRow(table, after, row) \/ \E o \in table : InPlace(table, after, row, o)
  BY UpsertIs DEF CallsOK
<1>2. row.ref = ref /\ Holds(row, r)
  BY <1>1 DEF RowFor, Holds
<1>3. /\ row \in after
      /\ \A t \in table : \/ t \in after
                          \/ CallKey(t) = CallKey(row) /\ t.undeclared \subseteq row.undeclared
      /\ \A t \in after : t \in table \/ t = row
      /\ \A t \in table : t \in after \/ t.ref = ref
  BY <1>1, <1>2, KeyParts DEF NewRow, InPlace
<1>4. /\ IsFiniteSet(after) /\ \A t \in after : t.count \in Nat
      /\ \A t, u \in after : CallKey(t) = CallKey(u) => t = u
      /\ CountOf(RowsOf(after, row.ref)) = CountOf(RowsOf(table, row.ref)) + 1
      /\ Cardinality(OrdinaryOf(after, row.ref)) <= MAX_ROWS + ROW_SLACK
  <2>1. CASE NewRow(table, after, row)
    BY <2>1, NewRowCounts
  <2>2. ASSUME NEW o \in table, InPlace(table, after, row, o)
        PROVE  /\ IsFiniteSet(after) /\ \A t \in after : t.count \in Nat
               /\ \A t, u \in after : CallKey(t) = CallKey(u) => t = u
               /\ CountOf(RowsOf(after, row.ref)) = CountOf(RowsOf(table, row.ref)) + 1
               /\ Cardinality(OrdinaryOf(after, row.ref)) <= MAX_ROWS + ROW_SLACK
    BY <2>2, InPlaceCounts
  <2> QED BY <1>1, <2>1, <2>2
<1> HIDE DEF after
<1>5. IsFiniteSet(read) /\ IsFiniteSet(more)
  BY FS_AddElement DEF CallsOK
<1>6. CountOf(RowsOf(after, ref)) = Cardinality(ReadOf(more, ref))
  <2>1. ReadOf(more, ref) = ReadOf(read, ref) \cup {r} /\ r \notin ReadOf(read, ref)
    BY DEF ReadOf
  <2>2. IsFiniteSet(ReadOf(read, ref))
    BY <1>5, FS_Subset DEF ReadOf
  <2>3. Cardinality(ReadOf(more, ref)) = Cardinality(ReadOf(read, ref)) + 1
    BY <2>1, <2>2, FS_AddElement
  <2>4. CountOf(RowsOf(table, ref)) = Cardinality(ReadOf(read, ref))
    BY AnyRef
  <2> QED BY <1>2, <1>4, <2>3, <2>4
<1>7. ASSUME NEW other, other # ref
      PROVE  /\ CountOf(RowsOf(after, other)) = Cardinality(ReadOf(more, other))
             /\ Cardinality(OrdinaryOf(after, other)) <= MAX_ROWS + ROW_SLACK
  <2>1. RowsOf(after, other) = RowsOf(table, other)
    BY <1>2, <1>3, <1>7 DEF RowsOf
  <2>2. ReadOf(more, other) = ReadOf(read, other)
    BY <1>7 DEF ReadOf
  <2>3. OrdinaryOf(after, other) = OrdinaryOf(table, other)
    BY <2>1 DEF OrdinaryOf
  <2> QED BY <2>1, <2>2, <2>3, AnyRef
<1>8. \A k \in more : \E t \in after : Holds(t, k)
  <2> SUFFICES ASSUME NEW k \in read PROVE \E t \in after : Holds(t, k)
    BY <1>2, <1>3
  <2>1. PICK t \in table : Holds(t, k)
    BY DEF CallsOK
  <2>2. CASE t \in after
    BY <2>1, <2>2
  <2>3. CASE CallKey(t) = CallKey(row) /\ t.undeclared \subseteq row.undeclared
    <3>1. t.ref = row.ref /\ t.class = row.class /\ t.tool = row.tool /\ t.endpoint = row.endpoint
      BY <2>3, KeyParts
    <3>2. Holds(row, k)
      BY <2>1, <2>3, <3>1 DEF Holds
    <3> QED BY <1>3, <3>2
  <2> QED BY <1>3, <2>2, <2>3
<1> HIDE DEF ref, more
<1>9. \A other : /\ CountOf(RowsOf(after, other)) = Cardinality(ReadOf(more, other))
                 /\ Cardinality(OrdinaryOf(after, other)) <= MAX_ROWS + ROW_SLACK
  BY <1>2, <1>4, <1>6, <1>7
<1>10. CallsOK(after, more)
  BY <1>4, <1>5, <1>8, <1>9 DEF CallsOK
<1> QED BY <1>10 DEF after, more

(* A capture's calls, none of which was read before.                       *)
LEMMA RecordCalls ==
    ASSUME NEW d, DOMAIN d = Tables, CallsOK(d.calls, d.read),
           NEW c, NEW calls, NEW N \in Nat, DOMAIN calls = 1..N, \A r \in d.read : r.id # c.id
    PROVE  LET e == RecordToolCalls(d, c, calls)
           IN /\ Frame(d, e, {"calls", "read"}) /\ CallsOK(e.calls, e.read)
              /\ \A r \in e.read : r \in d.read \/ r.id = c.id
<1> DEFINE ref == CaptureRef(c)
           new(n) == [ref |-> ref, id |-> c.id, n |-> n, call |-> calls[n]]
           Read(n) == d.read \cup {new(m) : m \in 1..n}
           last == Upserting!OfSeq(ref, d.calls, calls)
           e == [d EXCEPT !.calls = last, !.read = @ \cup {new(n) : n \in DOMAIN calls}]
<1>1. RecordToolCalls(d, c, calls) = e
  BY DEF RecordToolCalls, UpsertStep, Upserting!OfSeq, FoldLeft, Upserting!FoldLeft,
         MapThenFoldSet, Upserting!MapThenFoldSet, Max, Upserting!Max
<1>2. Upserting!Folded(ref, d.calls, calls, N)
  BY Upserting!SeqFold
<1>3. PICK f : /\ last = f[N] /\ f[0] = d.calls
               /\ \A n \in 1..N : f[n] = UpsertStep(ref, calls[n], f[n - 1])
  BY <1>2 DEF Upserting!Folded
<1> HIDE DEF last
<1>4. \A n \in 1..N : new(n).ref = ref /\ new(n).call = calls[n] /\ new(n).id = c.id /\ new(n).n = n
  OBVIOUS
<1>5. PICK reads : \A n \in 0..N : reads[n] = Read(n)
  <2> HIDE DEF Read
  <2>1. \A n \in 0..N : [m \in 0..N |-> Read(m)][n] = Read(n)
    OBVIOUS
  <2> QED BY <2>1
<1>6. reads[0] = d.read
  <2>1. 0 \in 0..N /\ 1..0 = {}
    OBVIOUS
  <2>2. Read(0) = d.read
    BY <2>1
  <2> HIDE DEF Read
  <2> QED BY <1>5, <2>1, <2>2
<1>7. ASSUME NEW n \in 1..N
      PROVE  reads[n] = reads[n - 1] \cup {new(n)} /\ new(n) \notin reads[n - 1]
  <2>1. 1..n = 1..(n - 1) \cup {n} /\ \A m \in 1..(n - 1) : m \in 1..N /\ m # n
    OBVIOUS
  <2>2. reads[n] = Read(n) /\ reads[n - 1] = Read(n - 1)
    BY <1>5
  <2> HIDE DEF new
  <2> QED BY <1>4, <2>1, <2>2
<1> DEFINE S == {n \in 0..N : CallsOK(f[n], reads[n])}
<1>8. 0 \in S
  BY <1>3, <1>6
<1>9. ASSUME NEW n \in 1..N, n - 1 \in S PROVE n \in S
  <2>1. PICK r : r = new(n)
    OBVIOUS
  <2>2. reads[n] = reads[n - 1] \cup {r} /\ r \notin reads[n - 1]
    BY <1>7, <2>1
  <2>3. f[n] = UpsertCall(f[n - 1], r.ref, r.call)
    BY <1>3, <1>4, <2>1 DEF UpsertStep
  <2>4. CallsOK(f[n - 1], reads[n - 1])
    BY <1>9
  <2> HIDE DEF new
  <2>5. PICK before, read : before = f[n - 1] /\ read = reads[n - 1]
    OBVIOUS
  <2>6. CallsOK(before, read) /\ r \notin read
    BY <2>2, <2>4, <2>5
  <2>7. CallsOK(UpsertCall(before, r.ref, r.call), read \cup {r})
    BY ONLY <2>6, UpsertOK
  <2>8. f[n] = UpsertCall(before, r.ref, r.call) /\ reads[n] = read \cup {r}
    BY <2>2, <2>3, <2>5
  <2>9. CallsOK(f[n], reads[n])
    BY ONLY <2>7, <2>8
  <2> QED BY <2>9
<1> HIDE DEF S
<1>10. N \in S
  BY <1>8, <1>9, Upserting!StepsTo
<1>11. e.calls = f[N] /\ e.read = Read(N) /\ Frame(d, e, {"calls", "read"})
  BY <1>3 DEF Frame, Tables
<1>12. CallsOK(e.calls, e.read)
  <2> HIDE DEF e, Read
  <2> QED BY <1>5, <1>10, <1>11 DEF S
<1>13. \A r \in e.read : r \in d.read \/ r.id = c.id
  <2> HIDE DEF e, new
  <2> QED BY <1>4, <1>11
<1> QED BY <1>1, <1>11, <1>12, <1>13
-----------------------------------------------------------------------------
(* A capture checked                                                       *)

(* Lists one after the other are a list, and so is the start of one.       *)
LEMMA ListsJoin ==
    ASSUME NEW s, IsList(s), NEW t, IsList(t)
    PROVE  IsList(s \o t)
<1> DEFINE all == ToSet(s) \cup ToSet(t)
<1>1. s \in Seq(ToSet(s)) /\ t \in Seq(ToSet(t))
  BY DEF IsList
<1>2. s \in Seq(all) /\ t \in Seq(all)
  <2> DEFINE S == ToSet(s)
             T == ToSet(t)
  <2>1. s \in Seq(S) /\ t \in Seq(T) /\ S \subseteq all /\ T \subseteq all
    BY <1>1
  <2> HIDE DEF S, T, all
  <2> QED BY <2>1
<1>3. s \o t \in Seq(all)
  BY <1>2
<1> HIDE DEF all
<1> QED BY <1>3, SeqIsList

(* The first calls of a list are a list.                                   *)
LEMMA StartIsList ==
    ASSUME NEW s, IsList(s), NEW most \in Nat
    PROVE  IsList(FirstOf(s, most))
<1>1. CASE ~ Len(s) > most
  BY <1>1 DEF FirstOf
<1>2. CASE Len(s) > most
  <2>1. Len(s) \in Nat
    BY DEF IsList
  <2>2. 1 \in 1..(Len(s) + 1) /\ most \in (1 - 1)..Len(s)
    BY <1>2, <2>1
  <2>3. IsList(SubSeq(s, 1, most))
    BY <2>2, PartOfList
  <2> QED BY <1>2, <2>3 DEF FirstOf
<1> QED BY <1>1, <1>2

(* A function on a list's places is a list.                                *)
LEMMA MappedIsList ==
    ASSUME NEW s, IsList(s), NEW f, f = [n \in DOMAIN s |-> f[n]]
    PROVE  IsList(f)
<1>1. Len(s) \in Nat /\ DOMAIN s = 1..Len(s)
  BY DEF IsList
<1> DEFINE all == {f[n] : n \in 1..Len(s)}
<1>2. f \in Seq(all)
  BY <1>1
<1> HIDE DEF all
<1> QED BY <1>2, SeqIsList

(* The places of a list run from one to its length.                        *)
LEMMA ListPlaces ==
    ASSUME NEW s, IsList(s)
    PROVE  \E N \in Nat : DOMAIN s = 1..N
  BY DEF IsList

(* What is recorded of a capture's calls is a list, and so is what the rule*)
(* reads of one.                                                           *)
LEMMA CallsAreLists ==
    ASSUME NEW d, NEW c, IsList(c.wire), IsList(c.reply)
    PROVE  IsList(RecordedCalls(d, c))
<1> DEFINE found == ExtractCalls(d.schemas, c)
           un    == IF found.unreadable /\ c.endpoint \in KnownMcpEndpoints(d.schemas)
                    THEN Special(UNREADABLE_TOOL, c.endpoint) ELSE <<>>
           over  == IF found.truncated THEN Special(OVERFLOW_TOOL, NoEndpoint) ELSE <<>>
<1>1. RecordedCalls(d, c) \in {found.calls \o un \o over, <<>>}
  BY DEF RecordedCalls
<1>2. IsList(<<>>) /\ \A tool, endpoint : IsList(Special(tool, endpoint))
  <2>1. \A x : <<x>> \in Seq({x})
    OBVIOUS
  <2>2. \A x : IsList(<<x>>)
    BY <2>1, SeqIsList
  <2>3. <<>> \in Seq({})
    OBVIOUS
  <2>4. IsList(<<>>)
    BY <2>3, SeqIsList
  <2> QED BY <2>2, <2>4 DEF Special
<1>3. \A endpoints : IsList(Observed(c, endpoints))
  <2> SUFFICES ASSUME NEW endpoints PROVE IsList(Observed(c, endpoints))
    OBVIOUS
  <2> DEFINE f == [n \in DOMAIN c.wire |->
                      Call(OBSERVED, c.wire[n], c.endpoint, endpoints[c.wire[n].tool])]
  <2>1. f = [n \in DOMAIN c.wire |-> f[n]]
    OBVIOUS
  <2>2. Observed(c, endpoints) \in {f, <<>>}
    BY DEF Observed
  <2> HIDE DEF f
  <2> QED BY <1>2, <2>1, <2>2, MappedIsList
<1>4. \A fallback, trusted : IsList(Requested(c, fallback, trusted))
  <2> SUFFICES ASSUME NEW fallback, NEW trusted PROVE IsList(Requested(c, fallback, trusted))
    OBVIOUS
  <2> DEFINE f == [n \in DOMAIN c.reply |->
                      Call(REQUESTED, c.reply[n], NoEndpoint,
                           IF IsModelRequest(c) /\ c.host \in trusted
                           THEN GivenSchema(c, c.reply[n].tool)
                           ELSE fallback[c.reply[n].tool])]
  <2>1. f = [n \in DOMAIN c.reply |-> f[n]]
    OBVIOUS
  <2>2. Requested(c, fallback, trusted) \in {f, <<>>}
    BY DEF Requested
  <2> HIDE DEF f
  <2> QED BY <1>2, <2>1, <2>2, MappedIsList
<1>5. IsList(found.calls)
  <2>1. PICK endpoints, fallback, trusted :
           found = ExtractToolCalls(c, endpoints, fallback, trusted)
    BY DEF ExtractCalls
  <2> HIDE DEF found
  <2> DEFINE all == Observed(c, endpoints) \o Requested(c, fallback, trusted)
  <2>2. found.calls = FirstOf(all, MAX_CALLS)
    BY <2>1 DEF ExtractToolCalls
  <2>3. IsList(all)
    BY <1>3, <1>4, ListsJoin
  <2> HIDE DEF all
  <2>4. MAX_CALLS \in Nat
    BY TrafficBoundsAssumption
  <2> QED BY <2>2, <2>3, <2>4, StartIsList
<1>6. IsList(un) /\ IsList(over)
  BY <1>2
<1> HIDE DEF found, un, over
<1>7. IsList(found.calls \o un \o over)
  BY <1>5, <1>6, ListsJoin
<1> QED BY <1>1, <1>2, <1>7

(* The rule reads the recorded calls, each at its own place.               *)
LEMMA RuleCallsPlaces ==
    ASSUME NEW schemas, NEW ref, NEW calls
    PROVE  DOMAIN CallsForRule(schemas, ref, calls) = DOMAIN calls
  BY DEF CallsForRule

(* What follows a stored request, whichever of its steps fails: every call *)
(* found in it is a row or counted in one, and the violations, the queue   *)
(* and the verdicts stay as they should be.                                *)
LEMMA CheckedKeeps ==
    ASSUME clock \in Nat, NEW d, SideOK(d, JudgedIds(d.judged)), MarksOK(d),
           CallsOK(d.calls, d.read), NEW c, IsList(c.wire), IsList(c.reply),
           \A r \in d.read : r.id # c.id, NEW fault
    PROVE  LET e == Checked(d, c, fault)
           IN /\ e.stored = d.stored /\ CallsOK(e.calls, e.read)
              /\ \A r \in e.read : r \in d.read \/ r.id = c.id
              /\ SideOK(e, JudgedIds(e.judged)) /\ MarksOK(e)
              /\ e.judged = d.judged \/ \E j : j.copy = c /\ e.judged = d.judged \cup {j}
<1> DEFINE judge  == \E a \in On : RuleOf(a) # {}
           listed == IF fault = "schemas" \/ ~MayCarryTools(c) THEN d ELSE RecordToolSchemas(d, c)
           calls  == IF fault = "calls" THEN <<>> ELSE RecordedCalls(listed, c)
           unread == judge /\ \/ fault = "calls" /\ MayCarryCalls(listed.schemas, c)
                              \/ fault = "classify" /\ calls # <<>>
           kept   == RecordToolCalls(listed, c, calls)
           mark   == MarkedIf(unread, kept)
           read   == IF judge /\ ~unread
                     THEN CallsForRule(listed.schemas, CaptureRef(c), calls) ELSE <<>>
           e      == GuardrailOnRequest(mark, c, fault, read)
<1>1. Checked(d, c, fault) = e
  BY DEF Checked
<1>2. DOMAIN d = Tables /\ PagesOK(d.schemas, d.listings, clock)
  BY DEF SideOK
<1>3. Frame(d, listed, {"schemas", "listings"}) /\ PagesOK(listed.schemas, listed.listings, clock)
  <2>1. CASE fault = "schemas" \/ ~MayCarryTools(c)
    BY <1>2, <2>1 DEF Frame
  <2>2. CASE ~(fault = "schemas" \/ ~MayCarryTools(c))
    BY <1>2, <2>2, RecordSchemas
  <2> QED BY <2>1, <2>2
<1> HIDE DEF listed
<1>4. PICK N \in Nat : DOMAIN calls = 1..N
  <2>1. CASE fault = "calls"
    <3>1. DOMAIN <<>> = 1..0
      OBVIOUS
    <3> QED BY <2>1, <3>1
  <2>2. CASE fault # "calls"
    BY <2>2, CallsAreLists, ListPlaces
  <2> QED BY <2>1, <2>2
<1> HIDE DEF calls
<1>5. PICK M \in Nat : DOMAIN read = 1..M
  <2>1. CASE judge /\ ~unread
    BY <1>4, <2>1, RuleCallsPlaces
  <2>2. CASE ~ (judge /\ ~unread)
    <3>1. DOMAIN <<>> = 1..0
      OBVIOUS
    <3> QED BY <2>2, <3>1
  <2> QED BY <2>1, <2>2
<1> HIDE DEF read, unread
<1>6. DOMAIN listed = Tables /\ listed.calls = d.calls /\ listed.read = d.read
  BY <1>3 DEF Frame, Tables
<1>7. /\ Frame(listed, kept, {"calls", "read"}) /\ CallsOK(kept.calls, kept.read)
      /\ \A r \in kept.read : r \in d.read \/ r.id = c.id
  <2>1. CallsOK(listed.calls, listed.read) /\ \A r \in listed.read : r.id # c.id
    BY <1>6
  <2> QED BY <1>4, <1>6, <2>1, RecordCalls
<1> HIDE DEF kept
<1>8. DOMAIN kept = Tables
  BY <1>7 DEF Frame
<1>9. Frame(kept, mark, {"failed", "lost"}) /\ mark.failed \in {kept.failed, {clock}}
  BY <1>8, MarkChanges
<1> HIDE DEF mark
<1>10. /\ DOMAIN mark = Tables /\ mark.stored = d.stored /\ mark.calls = kept.calls
       /\ mark.read = kept.read /\ mark.schemas = listed.schemas
       /\ mark.listings = listed.listings /\ mark.verdicts = d.verdicts
       /\ mark.pending = d.pending /\ mark.rows = d.rows /\ mark.judged = d.judged
       /\ mark.unattributed = d.unattributed /\ mark.failed \in {d.failed, {clock}}
  BY <1>3, <1>7, <1>9 DEF Frame, Tables
<1>11. SideOK(mark, JudgedIds(mark.judged)) /\ MarksOK(mark)
  BY <1>3, <1>10 DEF SideOK, MarksOK
<1>12. /\ Frame(mark, e, JudgeTables) /\ SideOK(e, JudgedIds(e.judged)) /\ MarksOK(e)
       /\ e.judged = mark.judged \/ \E j : j.copy = c /\ e.judged = mark.judged \cup {j}
  BY <1>5, <1>11, GuardrailKeeps
<1> HIDE DEF e
<1>13. e.stored = d.stored /\ e.calls = kept.calls /\ e.read = kept.read
  BY <1>10, <1>12 DEF Frame, Tables, JudgeTables
<1> QED BY <1>1, <1>7, <1>10, <1>12, <1>13

(* The tables as they should be, of the copies delivered by now.           *)
TablesOK(d, now, agents, copies, delivered) ==
    /\ DOMAIN d = Tables
    /\ StoredOK(d.stored, copies, delivered)
    /\ JudgedOK(d.judged, delivered) /\ ReadOK(d.read, delivered)
    /\ CallsOK(d.calls, d.read)
    /\ PagesOK(d.schemas, d.listings, now) /\ VerdictsOK(d.verdicts)
    /\ QueueOK(d.pending, now, agents, JudgedIds(d.judged))
    /\ RowsOK(d.rows, JudgedIds(d.judged))
    /\ MarksOK(d)

(* What is delivered once c has come, the first of its id with the token.  *)
With(delivered, c, authenticated) ==
    delivered \cup (IF authenticated /\ \A x \in delivered : x.id # c.id THEN {c} ELSE {})

(* A row of a batch leaves the tables right, and takes none of what is     *)
(* stored away but what had come without the token.                        *)
LEMMA IngestedKeeps ==
    ASSUME clock \in Nat, NEW d, NEW copies, NEW delivered,
           TablesOK(d, clock, W.agents, copies, delivered),
           NEW c \in copies, IsList(c.wire), IsList(c.reply),
           NEW how, how.authenticated \in BOOLEAN
    PROVE  LET e == Ingested(how, c, d)
           IN /\ TablesOK(e, clock, W.agents, copies, With(delivered, c, how.authenticated))
              /\ \A s \in d.stored : \/ s \in e.stored
                                     \/ how.authenticated /\ ~s.authenticated /\ s.copy.id = c.id
<1> DEFINE old    == {s \in d.stored : s.copy.id = c.id}
           new    == [copy |-> c, authenticated |-> how.authenticated]
           stored == [d EXCEPT !.stored = (@ \ old) \cup {new}]
           grown  == With(delivered, c, how.authenticated)
           e      == Ingested(how, c, d)
<1>1. /\ DOMAIN d = Tables /\ d.stored \subseteq [copy : copies, authenticated : BOOLEAN]
      /\ \A s, t \in d.stored : s.copy.id = t.copy.id => s = t
      /\ {s.copy : s \in {t \in d.stored : t.authenticated}} = delivered
  BY DEF TablesOK, StoredOK
<1>2. \A s \in d.stored : s.authenticated \in BOOLEAN /\ s.copy \in copies
  BY <1>1
<1>3. \A x \in delivered : \E s \in d.stored : s.authenticated /\ s.copy = x
  BY <1>1
<1>4. CASE \E s \in old : s.authenticated \/ ~how.authenticated
  <2>1. e = d
    BY <1>4 DEF Ingested
  <2>2. grown = delivered
    BY <1>1, <1>2, <1>4 DEF With
  <2> QED BY <2>1, <2>2
<1>5. CASE ~ \E s \in old : s.authenticated \/ ~how.authenticated
  <2>1. \A s \in old : ~s.authenticated /\ how.authenticated
    BY <1>5
  <2>2. \A x \in delivered : x.id # c.id
    BY <1>3, <2>1
  <2>3. grown = IF how.authenticated THEN delivered \cup {c} ELSE delivered
    BY <2>2 DEF With
  <2>4. new.copy = c /\ new.authenticated = how.authenticated
        /\ new \in [copy : copies, authenticated : BOOLEAN]
    OBVIOUS
  <2>5. Frame(d, stored, {"stored"}) /\ stored.stored = (d.stored \ old) \cup {new}
    BY <1>1 DEF Frame, Tables
  <2> HIDE DEF new
  <2>6. StoredOK(stored.stored, copies, grown)
    <3> DEFINE after == stored.stored
    <3>1. after \subseteq [copy : copies, authenticated : BOOLEAN]
      BY <1>1, <2>4, <2>5
    <3>2. \A s, t \in after : s.copy.id = t.copy.id => s = t
      BY <1>1, <2>4, <2>5
    <3>3. {s.copy : s \in {t \in after : t.authenticated}} = grown
      <4>1. ASSUME NEW s \in after, s.authenticated PROVE s.copy \in grown
        BY <1>1, <2>3, <2>4, <2>5, <4>1
      <4>2. ASSUME NEW x \in grown PROVE \E s \in after : s.authenticated /\ s.copy = x
        <5>1. CASE x \in delivered
          BY <1>3, <2>2, <2>5, <5>1
        <5>2. CASE x = c /\ how.authenticated
          BY <2>4, <2>5, <5>2
        <5> QED BY <2>3, <4>2, <5>1, <5>2
      <4> HIDE DEF after, grown
      <4> QED BY <4>1, <4>2
    <3> HIDE DEF after, grown
    <3> QED BY <3>1, <3>2, <3>3 DEF StoredOK, after
  <2>7. \A s \in d.stored : \/ s \in stored.stored
                            \/ how.authenticated /\ ~s.authenticated /\ s.copy.id = c.id
    BY <2>1, <2>5
  <2> HIDE DEF stored
  <2>8. /\ DOMAIN stored = Tables /\ stored.judged = d.judged /\ stored.read = d.read
        /\ stored.calls = d.calls /\ stored.schemas = d.schemas
        /\ stored.listings = d.listings /\ stored.verdicts = d.verdicts
        /\ stored.pending = d.pending /\ stored.rows = d.rows
        /\ stored.failed = d.failed /\ stored.unattributed = d.unattributed
    BY <2>5 DEF Frame, Tables
  <2>9. /\ SideOK(stored, JudgedIds(stored.judged)) /\ MarksOK(stored)
        /\ CallsOK(stored.calls, stored.read)
    BY <2>8 DEF TablesOK, SideOK, MarksOK
  <2>10. CASE ~how.authenticated
    <3>1. e = stored
      BY <1>5, <2>10 DEF Ingested, stored, new
    <3>2. grown = delivered
      BY <2>3, <2>10
    <3>3. TablesOK(stored, clock, W.agents, copies, grown)
      BY <2>6, <2>8, <2>9, <3>2 DEF TablesOK, SideOK
    <3> QED BY <2>7, <3>1, <3>3
  <2>11. CASE how.authenticated
    <3>1. e = Checked(stored, c, how.fault)
      BY <1>5, <2>11 DEF Ingested, stored, new
    <3>2. \A r \in stored.read : r.id # c.id
      BY <2>2, <2>8 DEF TablesOK, ReadOK
    <3>3. /\ e.stored = stored.stored /\ CallsOK(e.calls, e.read)
          /\ \A r \in e.read : r \in stored.read \/ r.id = c.id
          /\ SideOK(e, JudgedIds(e.judged)) /\ MarksOK(e)
          /\ e.judged = stored.judged \/ \E j : j.copy = c /\ e.judged = stored.judged \cup {j}
      BY <2>9, <3>1, <3>2, CheckedKeeps
    <3>4. grown = delivered \cup {c}
      BY <2>3, <2>11
    <3> HIDE DEF e, grown
    <3>5. JudgedOK(e.judged, grown)
      <4>1. JudgedOK(d.judged, delivered)
        BY DEF TablesOK
      <4> QED BY <2>2, <2>8, <3>3, <3>4, <4>1 DEF JudgedOK
    <3>6. ReadOK(e.read, grown)
      <4>1. ReadOK(d.read, delivered)
        BY DEF TablesOK
      <4>2. ASSUME NEW r \in e.read PROVE \E x \in grown : r.id = x.id
        <5>1. CASE r \in d.read
          BY <3>4, <4>1, <5>1 DEF ReadOK
        <5>2. CASE r.id = c.id
          BY <3>4, <5>2
        <5> QED BY <2>8, <3>3, <5>1, <5>2
      <4> QED BY <4>2 DEF ReadOK
    <3>7. TablesOK(e, clock, W.agents, copies, grown)
      BY <2>6, <3>3, <3>5, <3>6 DEF TablesOK, SideOK
    <3> QED BY <2>7, <3>3, <3>7 DEF e, grown
  <2> QED BY <2>10, <2>11
<1> QED BY <1>4, <1>5

-----------------------------------------------------------------------------
(* What the rows tell                                                      *)

(* A violation that says a call can't be read says so under the name such a*)
(* call is given at its server.                                            *)
NamesItsServer(v) == v.action = "unreadable" => v.tool = <<"mcp@", v.endpoint>>

RowsNamed(rows) == \A row \in rows : NamesItsServer(row.v)

(* One of the agent's rows tells of a tool's action, and of an undeclared  *)
(* upload that it was one.                                                 *)
Tells(rows, agent, tool, action, undeclared) ==
    \E row \in rows : /\ row.agent = agent /\ row.v.tool = tool /\ row.v.action = action
                      /\ undeclared => row.v.undeclared

(* Of a request, nothing yet but that its calls were not offered.          *)
OnlyNotOffered(rows, agent, id) ==
    \A row \in rows : row.agent = agent /\ row.v.id = id => row.v.action = "not_offered"

(* What the rows told they still tell, whatever else was recorded.         *)
StillTold(before, after) ==
    \A agent, tool, action, undeclared :
        Tells(before, agent, tool, action, undeclared) => Tells(after, agent, tool, action, undeclared)

StillUnjudged(before, after) ==
    \A agent, id : OnlyNotOffered(before, agent, id) => OnlyNotOffered(after, agent, id)

(* Rows of one item are of one tool and action.                            *)
LEMMA ItemIs ==
    ASSUME NEW v, NEW w, NamesItsServer(v), NamesItsServer(w), SameItem(v, w)
    PROVE  v.tool = w.tool /\ v.action = w.action
<1>1. /\ DataActionItem(v).action = v.action /\ DataActionItem(w).action = w.action
      /\ v.action # "unreadable" => DataActionItem(v).tool = v.tool
      /\ w.action # "unreadable" => DataActionItem(w).tool = w.tool
      /\ v.action = "unreadable" => DataActionItem(v).endpoint = v.endpoint
      /\ w.action = "unreadable" => DataActionItem(w).endpoint = w.endpoint
  BY DEF DataActionItem
<1>2. v.action = w.action
  BY <1>1 DEF SameItem
<1>3. CASE v.action = "unreadable"
  BY <1>1, <1>2, <1>3 DEF SameItem, NamesItsServer
<1>4. CASE v.action # "unreadable"
  BY <1>1, <1>2, <1>4 DEF SameItem
<1> QED BY <1>2, <1>3, <1>4

(* A row and a hit of its item become a row that tells as much as either.  *)
LEMMA MergedTells ==
    ASSUME NEW r, NEW v, DOMAIN v = HitFields, NEW a
    PROVE  LET row == [agent |-> a, v |-> MergedDetail(r.v, v)]
           IN /\ row.agent = a /\ row.v.tool = v.tool /\ row.v.action = v.action
              /\ row.v.id = v.id /\ row.v.endpoint = v.endpoint
              /\ row.v.undeclared = (v.undeclared \/ r.v.undeclared)
  BY DEF MergedDetail, HitFields

(* The rows once violations are recorded: those of no violation's item, and*)
(* for each violation its own or, of an item that had one, the row it met. *)
LEMMA RowsRecorded ==
    ASSUME NEW d, DOMAIN d = Tables, NEW a, NEW violations, NEW row
    PROVE  row \in RecordViolations(d, a, violations).rows <=>
              LET Old(v) == {r \in d.rows : r.agent = a /\ SameItem(r.v, v)}
              IN \/ row \in d.rows /\ \A v \in violations : row \notin Old(v)
                 \/ \E v \in violations :
                       \/ Old(v) = {} /\ row = [agent |-> a, v |-> v]
                       \/ \E r \in Old(v) :
                             row = IF r.v.id = v.id THEN r
                                   ELSE [agent |-> a, v |-> MergedDetail(r.v, v)]
<1> DEFINE Old(v) == {r \in d.rows : r.agent = a /\ SameItem(r.v, v)}
           Of(v)  == IF Old(v) = {} THEN {[agent |-> a, v |-> v]}
                     ELSE {IF r.v.id = v.id THEN r
                           ELSE [agent |-> a, v |-> MergedDetail(r.v, v)] : r \in Old(v)}
<1>1. RecordViolations(d, a, violations).rows =
         (d.rows \ UNION {Old(v) : v \in violations}) \cup UNION {Of(v) : v \in violations}
  BY DEF RecordViolations, Tables, SameItem
<1>2. \A v : row \in Of(v) <=>
                \/ Old(v) = {} /\ row = [agent |-> a, v |-> v]
                \/ \E r \in Old(v) : row = IF r.v.id = v.id THEN r
                                           ELSE [agent |-> a, v |-> MergedDetail(r.v, v)]
  OBVIOUS
<1>3. \A v : row \in Old(v) => row \in d.rows
  OBVIOUS
<1> HIDE DEF Old, Of
<1>4. row \in RecordViolations(d, a, violations).rows <=>
         \/ row \in d.rows /\ \A v \in violations : row \notin Old(v)
         \/ \E v \in violations : row \in Of(v)
  BY <1>1
<1>5. row \in RecordViolations(d, a, violations).rows <=>
         \/ row \in d.rows /\ \A v \in violations : row \notin Old(v)
         \/ \E v \in violations :
               \/ Old(v) = {} /\ row = [agent |-> a, v |-> v]
               \/ \E r \in Old(v) : row = IF r.v.id = v.id THEN r
                                          ELSE [agent |-> a, v |-> MergedDetail(r.v, v)]
  BY <1>2, <1>4
<1> QED BY <1>5 DEF Old

(* What violations leave in the rows: those before still tell what they    *)
(* told, and the new ones tell of each violation of a request that had no  *)
(* row of its item.                                                        *)
LEMMA RecordTells ==
    ASSUME NEW d, DOMAIN d = Tables, RowsNamed(d.rows), NEW a, NEW violations,
           \A v \in violations : DOMAIN v = HitFields /\ NamesItsServer(v)
    PROVE  LET e == RecordViolations(d, a, violations)
           IN /\ RowsNamed(e.rows) /\ StillTold(d.rows, e.rows)
              /\ \A v \in violations :
                    (\A r \in d.rows : r.agent = a /\ r.v.id = v.id => ~SameItem(r.v, v))
                       => Tells(e.rows, a, v.tool, v.action, v.undeclared)
              /\ (\A v \in violations : v.action = "not_offered")
                    => StillUnjudged(d.rows, e.rows)
<1> DEFINE Old(v) == {r \in d.rows : r.agent = a /\ SameItem(r.v, v)}
           after  == RecordViolations(d, a, violations).rows
           New(v) == [agent |-> a, v |-> v]
           Merged(r, v) == [agent |-> a, v |-> MergedDetail(r.v, v)]
<1>1. \A row : row \in after <=>
         \/ row \in d.rows /\ \A v \in violations : row \notin Old(v)
         \/ \E v \in violations :
               \/ Old(v) = {} /\ row = New(v)
               \/ \E r \in Old(v) : row = IF r.v.id = v.id THEN r ELSE Merged(r, v)
  BY RowsRecorded
<1>2. \A v \in violations : \A r :
         /\ Merged(r, v).agent = a /\ Merged(r, v).v.tool = v.tool
         /\ Merged(r, v).v.action = v.action /\ Merged(r, v).v.id = v.id
         /\ Merged(r, v).v.endpoint = v.endpoint
         /\ Merged(r, v).v.undeclared = (v.undeclared \/ r.v.undeclared)
  BY MergedTells
<1>3. \A v : New(v).agent = a /\ New(v).v = v
  OBVIOUS
<1>4. \A v, r : r \in Old(v) <=> r \in d.rows /\ r.agent = a /\ SameItem(r.v, v)
  OBVIOUS
<1>5. ASSUME NEW v \in violations, NEW r \in Old(v) PROVE r.v.tool = v.tool /\ r.v.action = v.action
  <2> HIDE DEF Old
  <2> QED BY <1>4, <1>5, ItemIs DEF RowsNamed
<1> HIDE DEF after, New, Merged, Old
<1>6. RowsNamed(after)
  <2> SUFFICES ASSUME NEW row \in after PROVE NamesItsServer(row.v)
    BY DEF RowsNamed
  <2>1. CASE row \in d.rows
    BY <2>1 DEF RowsNamed
  <2>2. ASSUME NEW v \in violations, row = New(v) PROVE NamesItsServer(row.v)
    BY <1>3, <2>2
  <2>3. ASSUME NEW v \in violations, NEW r, row = Merged(r, v) PROVE NamesItsServer(row.v)
    <3>1. NamesItsServer(v)
      OBVIOUS
    <3> QED BY <1>2, <2>3, <3>1 DEF NamesItsServer
  <2> QED BY <1>1, <1>4, <2>1, <2>2, <2>3
<1>7. StillTold(d.rows, after)
  <2> SUFFICES ASSUME NEW agent, NEW tool, NEW action, NEW undeclared,
                      Tells(d.rows, agent, tool, action, undeclared)
               PROVE  Tells(after, agent, tool, action, undeclared)
    BY DEF StillTold
  <2>1. PICK row \in d.rows : /\ row.agent = agent /\ row.v.tool = tool /\ row.v.action = action
                              /\ undeclared => row.v.undeclared
    BY DEF Tells
  <2>2. CASE \A v \in violations : row \notin Old(v)
    BY <1>1, <2>1, <2>2 DEF Tells
  <2>3. ASSUME NEW v \in violations, row \in Old(v)
        PROVE  Tells(after, agent, tool, action, undeclared)
    <3>1. CASE row.v.id = v.id
      <4>1. row \in after
        BY <1>1, <2>3, <3>1
      <4> QED BY <2>1, <4>1 DEF Tells
    <3>2. CASE row.v.id # v.id
      <4>1. Merged(row, v) \in after
        BY <1>1, <2>3, <3>2
      <4>2. row.agent = a
        BY <1>4, <2>3
      <4>3. row.v.tool = v.tool /\ row.v.action = v.action
        BY <1>5, <2>3
      <4>4. /\ Merged(row, v).agent = agent /\ Merged(row, v).v.tool = tool
            /\ Merged(row, v).v.action = action
        BY <1>2, <2>1, <4>2, <4>3
      <4>5. undeclared => Merged(row, v).v.undeclared
        BY <1>2, <2>1
      <4> QED BY <4>1, <4>4, <4>5 DEF Tells
    <3> QED BY <3>1, <3>2
  <2> QED BY <2>2, <2>3
<1>8. ASSUME NEW v \in violations,
             \A r \in d.rows : r.agent = a /\ r.v.id = v.id => ~SameItem(r.v, v)
      PROVE  Tells(after, a, v.tool, v.action, v.undeclared)
  <2>1. CASE Old(v) = {}
    <3>1. New(v) \in after
      BY <1>1, <2>1
    <3> QED BY <1>3, <3>1 DEF Tells
  <2>2. ASSUME NEW r \in Old(v) PROVE Tells(after, a, v.tool, v.action, v.undeclared)
    <3>1. r.v.id # v.id
      BY <1>4, <1>8, <2>2
    <3>2. Merged(r, v) \in after
      BY <1>1, <2>2, <3>1
    <3> QED BY <1>2, <3>2 DEF Tells
  <2> QED BY <2>1, <2>2
<1>9. ASSUME \A v \in violations : v.action = "not_offered"
      PROVE  StillUnjudged(d.rows, after)
  <2> SUFFICES ASSUME NEW agent, NEW id, OnlyNotOffered(d.rows, agent, id), NEW row \in after,
                      row.agent = agent, row.v.id = id
               PROVE  row.v.action = "not_offered"
    BY DEF StillUnjudged, OnlyNotOffered
  <2>1. CASE row \in d.rows
    BY <2>1 DEF OnlyNotOffered
  <2>2. ASSUME NEW v \in violations, row = New(v) PROVE row.v.action = "not_offered"
    BY <1>3, <1>9, <2>2
  <2>3. ASSUME NEW v \in violations, NEW r, row = Merged(r, v) PROVE row.v.action = "not_offered"
    BY <1>2, <1>9, <2>3
  <2> QED BY <1>1, <1>4, <2>1, <2>2, <2>3
<1> QED BY <1>6, <1>7, <1>8, <1>9 DEF after

(* What follows rows already recorded: those before still tell what they   *)
(* told, and nothing but calls not offered is told of a request unjudged.  *)
Onward(before, after) ==
    RowsNamed(before) => /\ RowsNamed(after) /\ StillTold(before, after)
                         /\ StillUnjudged(before, after)

(* Two steps one after the other keep what each keeps.                     *)
LEMMA OnwardThrough ==
    ASSUME NEW r, NEW s, NEW t, Onward(r, s), Onward(s, t)
    PROVE  Onward(r, t)
  BY DEF Onward, StillTold, StillUnjudged

(* What leaves the rows alone keeps what they tell.                        *)
LEMMA OnwardSame == ASSUME NEW r PROVE Onward(r, r)
  BY DEF Onward, StillTold, StillUnjudged

(* A call that was not offered takes no other word back.                   *)
LEMMA JudgeNotOfferedOnward ==
    ASSUME NEW d, DOMAIN d = Tables, NEW p
    PROVE  LET e == JudgeNotOffered(d, p)
           IN Frame(d, e, {"rows", "verdicts"}) /\ Onward(d.rows, e.rows)
<1> DEFINE hit == [tool |-> p.tool, action |-> "not_offered", endpoint |-> p.endpoint,
                   class |-> OBSERVED, id |-> p.id, undeclared |-> FALSE]
           no  == Offered(d.schemas, p.endpoint, p.wire, p.called) = "no"
           e   == IF no THEN RecordViolations(d, p.agent, {hit}) ELSE d
           f   == Verdict(e, p, no)
<1>1. JudgeNotOffered(d, p) \in {d, f}
  BY DEF JudgeNotOffered
<1>2. DOMAIN hit = HitFields /\ NamesItsServer(hit) /\ hit.action = "not_offered"
  BY DEF HitFields, NamesItsServer
<1> HIDE DEF hit, no
<1>3. Frame(d, e, {"rows"}) /\ Onward(d.rows, e.rows)
  <2>1. CASE ~no
    BY <2>1, OnwardSame DEF Frame
  <2>2. CASE no
    <3> DEFINE g == RecordViolations(d, p.agent, {hit})
    <3>1. Frame(d, g, {"rows"})
      BY RecordChanges
    <3>2. ASSUME RowsNamed(d.rows)
          PROVE  RowsNamed(g.rows) /\ StillTold(d.rows, g.rows) /\ StillUnjudged(d.rows, g.rows)
      BY <1>2, <3>2, RecordTells
    <3> HIDE DEF g
    <3>3. Onward(d.rows, g.rows)
      BY <3>2 DEF Onward
    <3> QED BY <2>2, <3>1, <3>3 DEF g
  <2> QED BY <2>1, <2>2
<1> HIDE DEF e
<1>4. DOMAIN e = Tables
  BY <1>3 DEF Frame
<1>5. Frame(e, f, {"verdicts"})
  BY <1>4, VerdictChanges
<1> HIDE DEF f
<1>6. f.rows = e.rows
  BY <1>5 DEF Frame, Tables
<1>7. Frame(d, f, {"rows", "verdicts"}) /\ Frame(d, d, {"rows", "verdicts"})
  BY <1>3, <1>5 DEF Frame
<1> QED BY <1>1, <1>3, <1>6, <1>7, OnwardSame

(* A call queued, cleared or judged at once.                               *)
LEMMA QueueCallOnward ==
    ASSUME NEW d, DOMAIN d = Tables, NEW by, NEW call
    PROVE  LET e == QueueCall(by, call, d)
           IN Frame(d, e, {"rows", "verdicts", "pending"}) /\ Onward(d.rows, e.rows)
<1> DEFINE p == [agent |-> by.agent, id |-> by.id, tool |-> call.tool, wire |-> call.wire,
                 endpoint |-> call.endpoint, called |-> clock, due |-> clock + Delay]
           e == QueueCall(by, call, d)
           v == Verdict(d, p, FALSE)
           q == [d EXCEPT !.pending = Append(@, p)]
<1>1. e \in {d, v, JudgeNotOffered(d, p), q}
  BY DEF QueueCall
<1> HIDE DEF p, e
<1>2. Frame(d, v, {"rows", "verdicts", "pending"}) /\ v.rows = d.rows
  <2>1. Frame(d, v, {"verdicts"})
    BY VerdictChanges
  <2> HIDE DEF v
  <2> QED BY <2>1 DEF Frame, Tables
<1>3. Frame(d, q, {"rows", "verdicts", "pending"}) /\ q.rows = d.rows
  BY DEF Frame, Tables
<1>4. Frame(d, d, {"rows", "verdicts", "pending"})
  BY DEF Frame
<1> HIDE DEF v, q
<1>5. CASE e = JudgeNotOffered(d, p)
  <2>1. Frame(d, e, {"rows", "verdicts"}) /\ Onward(d.rows, e.rows)
    BY <1>5, JudgeNotOfferedOnward
  <2> QED BY <2>1 DEF Frame, e
<1> QED BY <1>1, <1>2, <1>3, <1>4, <1>5, OnwardSame DEF e

(* So do all of a request's calls, in turn.                                *)
LEMMA QueueNotOfferedOnward ==
    ASSUME NEW d, DOMAIN d = Tables, NEW by, NEW calls, NEW N \in Nat, DOMAIN calls = 1..N
    PROVE  LET e == QueueNotOffered(by, calls, d)
           IN Frame(d, e, {"rows", "verdicts", "pending"}) /\ Onward(d.rows, e.rows)
<1> DEFINE changed == {"rows", "verdicts", "pending"}
           Good(e) == Frame(d, e, changed) /\ Onward(d.rows, e.rows)
<1>1. QueueNotOffered(by, calls, d) = Queueing!OfSeq(by, d, calls)
  BY DEF QueueNotOffered, Queueing!OfSeq, FoldLeft, Queueing!FoldLeft,
         MapThenFoldSet, Queueing!MapThenFoldSet, Max, Queueing!Max
<1>2. PICK f : /\ Queueing!OfSeq(by, d, calls) = f[N] /\ f[0] = d
               /\ \A n \in 1..N : f[n] = QueueCall(by, calls[n], f[n - 1])
  <2>1. Queueing!Folded(by, d, calls, N)
    BY Queueing!SeqFold
  <2> QED BY <2>1 DEF Queueing!Folded
<1> DEFINE S == {n \in 0..N : Good(f[n])}
<1>3. 0 \in S
  BY <1>2, OnwardSame DEF Frame
<1>4. ASSUME NEW n \in 1..N, n - 1 \in S PROVE n \in S
  <2>1. PICK g : g = f[n - 1]
    OBVIOUS
  <2>2. Good(g) /\ f[n] = QueueCall(by, calls[n], g) /\ n \in 0..N
    BY <1>2, <1>4, <2>1
  <2>3. DOMAIN g = Tables
    BY <2>2 DEF Frame
  <2>4. Frame(g, f[n], changed) /\ Onward(g.rows, f[n].rows)
    BY <2>2, <2>3, QueueCallOnward
  <2>5. Frame(d, f[n], changed)
    BY <2>2, <2>4, FrameThrough
  <2>6. Good(f[n])
    BY <2>2, <2>4, <2>5, OnwardThrough
  <2> QED BY <2>2, <2>6
<1> HIDE DEF S
<1>5. N \in S
  BY <1>3, <1>4, Queueing!StepsTo
<1> QED BY <1>1, <1>2, <1>5 DEF S

(* And so do the calls that are due.                                       *)
LEMMA JudgingOnward ==
    ASSUME NEW d, DOMAIN d = Tables, NEW due, NEW N \in Nat, DOMAIN due = 1..N
    PROVE  LET e == Judging!OfSeq({}, d, due)
           IN Frame(d, e, {"rows", "verdicts"}) /\ Onward(d.rows, e.rows)
<1> DEFINE changed == {"rows", "verdicts"}
           Good(e) == Frame(d, e, changed) /\ Onward(d.rows, e.rows)
<1>2. PICK f : /\ Judging!OfSeq({}, d, due) = f[N] /\ f[0] = d
               /\ \A n \in 1..N : f[n] = JudgeStep({}, due[n], f[n - 1])
  <2>1. Judging!Folded({}, d, due, N)
    BY Judging!SeqFold
  <2> QED BY <2>1 DEF Judging!Folded
<1> DEFINE S == {n \in 0..N : Good(f[n])}
<1>3. 0 \in S
  BY <1>2, OnwardSame DEF Frame
<1>4. ASSUME NEW n \in 1..N, n - 1 \in S PROVE n \in S
  <2>1. PICK g : g = f[n - 1]
    OBVIOUS
  <2>2. Good(g) /\ f[n] = JudgeNotOffered(g, due[n]) /\ n \in 0..N
    BY <1>2, <1>4, <2>1 DEF JudgeStep
  <2>3. DOMAIN g = Tables
    BY <2>2 DEF Frame
  <2>4. Frame(g, f[n], changed) /\ Onward(g.rows, f[n].rows)
    BY <2>2, <2>3, JudgeNotOfferedOnward
  <2>5. Frame(d, f[n], changed)
    BY <2>2, <2>4, FrameThrough
  <2>6. Good(f[n])
    BY <2>2, <2>4, <2>5, OnwardThrough
  <2> QED BY <2>2, <2>6
<1> HIDE DEF S
<1>5. N \in S
  BY <1>3, <1>4, Judging!StepsTo
<1> QED BY <1>2, <1>5 DEF S
-----------------------------------------------------------------------------
(* What is easily missed of a request                                      *)

(* A call the rule can't read is under the name such calls have, and what  *)
(* its schemas say of another is of the closed set of actions.             *)
CallsNamed(calls) ==
    \A n \in DOMAIN calls : /\ calls[n].unreadable => calls[n].tool = <<"mcp@", calls[n].endpoint>>
                            /\ "unreadable" \notin calls[n].classified

(* Calls past the bound, and a POST nobody could read, are among the calls.*)
CallsMarked(calls, c, schemas) ==
    /\ MayCarryCalls(schemas, c) /\ CallsMade(c) > MAX_CALLS =>
          \E n \in DOMAIN calls : calls[n].unreadable /\ calls[n].endpoint = NoEndpoint
    /\ McpPostUnreadable(c) /\ c.endpoint \in KnownMcpEndpoints(schemas) =>
          \E n \in DOMAIN calls : calls[n].unreadable /\ calls[n].endpoint = c.endpoint

SchemasOK(schemas) == \A s \in schemas : KindsOnly(s.schema)

(* What RailDash says of a call it can't read is none of a tool's actions. *)
LEMMA NotAKind == "unreadable" \notin DATA_ACTION_KINDS
  BY DEF DATA_ACTION_KINDS

(* A tool's actions are of the closed set, from whatever schemas they come.*)
LEMMA ClassifyIsOfKinds ==
    ASSUME NEW tool, NEW schemas, \A s \in schemas : KindsOnly(s)
    PROVE  Classify(tool, schemas).actions \subseteq DATA_ACTION_KINDS
<1> DEFINE ruled == {[by |-> s, actions |-> RuleActions(tool, s)] : s \in schemas}
           together == IF \E r \in ruled : r.actions # {} THEN UNION {r.actions : r \in ruled}
                       ELSE IF \E r \in ruled : r.by.readOnly THEN {"read"}
                       ELSE UNION {s.answer : s \in schemas}
<1>1. Classify(tool, schemas).actions = together
  BY DEF Classify
<1>2. \A s \in schemas : /\ s.says \subseteq DATA_ACTION_KINDS /\ s.answer \subseteq DATA_ACTION_KINDS
                         /\ UNION s.modes \subseteq DATA_ACTION_KINDS
  BY DEF KindsOnly
<1>3. ToolVerbs(tool) \subseteq DATA_ACTION_KINDS
  BY VerbsAssumption DEF ToolVerbs, ToolPart
<1>4. {"upload", "delete", "read"} \subseteq DATA_ACTION_KINDS
  BY DEF DATA_ACTION_KINDS
<1>5. \A s \in schemas : RuleActions(tool, s) \subseteq DATA_ACTION_KINDS
  BY <1>2, <1>3, <1>4 DEF RuleActions
<1>6. \A r \in ruled : r.actions \subseteq DATA_ACTION_KINDS
  BY <1>5
<1> HIDE DEF ruled
<1> QED BY <1>1, <1>2, <1>4, <1>6

(* The schemas that count for a call are recorded ones.                    *)
LEMMA ShownAreKnown ==
    ASSUME NEW schemas, NEW refs, NEW call
    PROVE  ShownSchemas(schemas, refs, call) \subseteq {s.schema : s \in schemas}
  BY DEF ShownSchemas, TrustedSchemas, Listings

(* The calls the rule reads are named as they should be.                   *)
LEMMA ReadCallsAreNamed ==
    ASSUME NEW schemas, SchemasOK(schemas), NEW ref, NEW calls
    PROVE  CallsNamed(CallsForRule(schemas, ref, calls))
<1> SUFFICES ASSUME NEW n \in DOMAIN calls
             PROVE  LET read == CallsForRule(schemas, ref, calls)[n]
                    IN /\ read.unreadable => read.tool = <<"mcp@", read.endpoint>>
                       /\ "unreadable" \notin read.classified
  BY RuleCallsPlaces DEF CallsNamed
<1> DEFINE read == CallsForRule(schemas, ref, calls)[n]
           shown == ShownSchemas(schemas, {ref}, calls[n])
<1>3. /\ read.endpoint = calls[n].endpoint
      /\ calls[n].tool \in SpecialTools =>
            /\ read.tool = <<"mcp@", calls[n].endpoint>> /\ read.unreadable = TRUE
            /\ read.classified = {}
      /\ calls[n].tool \notin SpecialTools =>
            read.unreadable = FALSE /\ read.classified = Classify(ShownTool(calls[n]), shown).actions
  BY DEF CallsForRule
<1>1. CASE calls[n].tool \in SpecialTools
  <2>1. /\ read.endpoint = calls[n].endpoint /\ read.tool = <<"mcp@", calls[n].endpoint>>
        /\ read.classified = {}
    BY <1>1, <1>3
  <2> HIDE DEF read
  <2> QED BY <2>1 DEF read
<1>2. CASE calls[n].tool \notin SpecialTools
  <2>1. read.unreadable = FALSE /\ read.classified = Classify(ShownTool(calls[n]), shown).actions
    BY <1>2, <1>3
  <2>2. \A s \in shown : KindsOnly(s)
    BY ShownAreKnown DEF SchemasOK
  <2> HIDE DEF read, shown
  <2>3. read.classified \subseteq DATA_ACTION_KINDS
    BY <2>1, <2>2, ClassifyIsOfKinds
  <2> QED BY <2>1, <2>3, NotAKind DEF read
<1> QED BY <1>1, <1>2

Has(seq, x) == \E n \in DOMAIN seq : seq[n] = x

(* Two lists joined have what either has.                                  *)
LEMMA JoinedHas ==
    ASSUME NEW s, IsList(s), NEW t, IsList(t)
    PROVE  /\ \A x : Has(s, x) \/ Has(t, x) => Has(s \o t, x)
           /\ Len(s \o t) = Len(s) + Len(t)
<1> DEFINE all == ToSet(s) \cup ToSet(t)
<1>1. s \in Seq(ToSet(s)) /\ t \in Seq(ToSet(t))
  BY DEF IsList
<1>2. s \in Seq(all) /\ t \in Seq(all)
  <2> DEFINE S == ToSet(s)
             T == ToSet(t)
  <2>1. s \in Seq(S) /\ t \in Seq(T) /\ S \subseteq all /\ T \subseteq all
    BY <1>1
  <2> HIDE DEF S, T, all
  <2> QED BY <2>1
<1> HIDE DEF all
<1>3. /\ Len(s) \in Nat /\ Len(t) \in Nat /\ DOMAIN s = 1..Len(s) /\ DOMAIN t = 1..Len(t)
      /\ Len(s \o t) = Len(s) + Len(t) /\ DOMAIN (s \o t) = 1..(Len(s) + Len(t))
      /\ \A i \in 1..(Len(s) + Len(t)) :
            (s \o t)[i] = IF i <= Len(s) THEN s[i] ELSE t[i - Len(s)]
  BY <1>2
<1>4. ASSUME NEW i \in DOMAIN t PROVE \E n \in DOMAIN (s \o t) : (s \o t)[n] = t[i]
  <2>1. /\ Len(s) + i \in 1..(Len(s) + Len(t)) /\ ~ (Len(s) + i <= Len(s))
        /\ Len(s) + i - Len(s) = i
    BY <1>3
  <2> QED BY <1>3, <2>1
<1>5. ASSUME NEW i \in DOMAIN s PROVE \E n \in DOMAIN (s \o t) : (s \o t)[n] = s[i]
  <2>1. i \in 1..(Len(s) + Len(t)) /\ i <= Len(s)
    BY <1>3
  <2> QED BY <1>3, <2>1
<1> QED BY <1>3, <1>4, <1>5 DEF Has

(* The messages read of one exchange are as many as it made calls.         *)
LEMMA CallsReadAreMade ==
    ASSUME NEW c, IsList(c.wire), IsList(c.reply), NEW endpoints, NEW fallback, NEW trusted
    PROVE  LET o == Observed(c, endpoints)
               r == Requested(c, fallback, trusted)
           IN IsList(o) /\ IsList(r) /\ Len(o) + Len(r) = CallsMade(c)
<1>1. IsList(<<>>) /\ Len(<<>>) = 0
  <2>1. <<>> \in Seq({})
    OBVIOUS
  <2> QED BY <2>1, SeqIsList
<1>2. \A f, s : IsList(s) /\ f = [n \in DOMAIN s |-> f[n]] => IsList(f) /\ Len(f) = Len(s)
  <2> SUFFICES ASSUME NEW f, NEW s, IsList(s), f = [n \in DOMAIN s |-> f[n]]
               PROVE  IsList(f) /\ Len(f) = Len(s)
    OBVIOUS
  <2>1. IsList(f)
    BY MappedIsList
  <2>2. DOMAIN f = DOMAIN s
    OBVIOUS
  <2>3. Len(s) \in Nat /\ DOMAIN s = 1..Len(s) /\ Len(f) \in Nat /\ DOMAIN f = 1..Len(f)
    BY <2>1 DEF IsList
  <2>4. 1..Len(f) = 1..Len(s)
    BY <2>2, <2>3
  <2>5. \A m \in Nat, k \in Nat : 1..m = 1..k => m = k
    <3> SUFFICES ASSUME NEW m \in Nat, NEW k \in Nat, 1..m = 1..k PROVE m = k
      OBVIOUS
    <3>1. m # 0 => m \in 1..k
      OBVIOUS
    <3>2. k # 0 => k \in 1..m
      OBVIOUS
    <3> QED BY <3>1, <3>2
  <2> QED BY <2>1, <2>3, <2>4, <2>5
<1>3. LET o == Observed(c, endpoints)
      IN IsList(o) /\ Len(o) = IF IsJsonRpc(c) THEN Len(c.wire) ELSE 0
  <2> DEFINE f == [n \in DOMAIN c.wire |->
                      Call(OBSERVED, c.wire[n], c.endpoint, endpoints[c.wire[n].tool])]
  <2>1. f = [n \in DOMAIN c.wire |-> f[n]]
    OBVIOUS
  <2>2. Observed(c, endpoints) = IF IsJsonRpc(c) THEN f ELSE <<>>
    BY DEF Observed
  <2> HIDE DEF f
  <2>3. IsList(f) /\ Len(f) = Len(c.wire)
    BY <1>2, <2>1
  <2> QED BY <1>1, <2>2, <2>3
<1>4. LET r == Requested(c, fallback, trusted)
          says == IsModelRequest(c) \/ (c.body = "lost" /\ c.likeModel)
      IN IsList(r) /\ Len(r) = IF says THEN Len(c.reply) ELSE 0
  <2> DEFINE f == [n \in DOMAIN c.reply |->
                      Call(REQUESTED, c.reply[n], NoEndpoint,
                           IF IsModelRequest(c) /\ c.host \in trusted
                           THEN GivenSchema(c, c.reply[n].tool)
                           ELSE fallback[c.reply[n].tool])]
             says == IsModelRequest(c) \/ (c.body = "lost" /\ c.likeModel)
  <2>1. f = [n \in DOMAIN c.reply |-> f[n]]
    OBVIOUS
  <2>2. Requested(c, fallback, trusted) = IF says THEN f ELSE <<>>
    BY DEF Requested
  <2> HIDE DEF f
  <2>3. IsList(f) /\ Len(f) = Len(c.reply)
    BY <1>2, <2>1
  <2> HIDE DEF says
  <2>4. /\ IsList(Requested(c, fallback, trusted))
        /\ Len(Requested(c, fallback, trusted)) = IF says THEN Len(c.reply) ELSE 0
    BY <1>1, <2>2, <2>3
  <2> QED BY <2>4 DEF says
<1> QED BY <1>3, <1>4 DEF CallsMade

(* What can't be told of a capture's calls is recorded in its place.       *)
LEMMA MarksAreRecorded ==
    ASSUME NEW d, NEW c, IsList(c.wire), IsList(c.reply), MayCarryCalls(d.schemas, c)
    PROVE  LET calls == RecordedCalls(d, c)
           IN /\ CallsMade(c) > MAX_CALLS =>
                    \E n \in DOMAIN calls :
                       calls[n].tool \in SpecialTools /\ calls[n].endpoint = NoEndpoint
              /\ McpPostUnreadable(c) /\ c.endpoint \in KnownMcpEndpoints(d.schemas) =>
                    \E n \in DOMAIN calls :
                       calls[n].tool \in SpecialTools /\ calls[n].endpoint = c.endpoint
<1> DEFINE found == ExtractCalls(d.schemas, c)
           un    == IF found.unreadable /\ c.endpoint \in KnownMcpEndpoints(d.schemas)
                    THEN Special(UNREADABLE_TOOL, c.endpoint) ELSE <<>>
           over  == IF found.truncated THEN Special(OVERFLOW_TOOL, NoEndpoint) ELSE <<>>
           both  == found.calls \o un
           Marked(calls, endpoint) == \E n \in DOMAIN calls :
              calls[n].tool \in SpecialTools /\ calls[n].endpoint = endpoint
           Marks(x, endpoint) == x.tool \in SpecialTools /\ x.endpoint = endpoint
<1>1. RecordedCalls(d, c) = both \o over
  BY DEF RecordedCalls
<1>2. IsList(<<>>) /\ \A tool, endpoint : IsList(Special(tool, endpoint))
  <2>1. \A x : <<x>> \in Seq({x})
    OBVIOUS
  <2>2. \A x : IsList(<<x>>)
    BY <2>1, SeqIsList
  <2>3. <<>> \in Seq({})
    OBVIOUS
  <2>4. IsList(<<>>)
    BY <2>3, SeqIsList
  <2> QED BY <2>2, <2>4 DEF Special
<1>3. ASSUME NEW tool \in SpecialTools, NEW endpoint PROVE Marked(Special(tool, endpoint), endpoint)
  <2> DEFINE s == Special(tool, endpoint)
  <2>1. DOMAIN s = 1..1 /\ s[1].tool = tool /\ s[1].endpoint = endpoint /\ 1 \in 1..1
    BY DEF Special
  <2> HIDE DEF s
  <2> QED BY <2>1 DEF s
<1>4. PICK endpoints, fallback, trusted : found = ExtractToolCalls(c, endpoints, fallback, trusted)
  BY DEF ExtractCalls
<1> DEFINE o == Observed(c, endpoints)
           r == Requested(c, fallback, trusted)
<1>5. IsList(o) /\ IsList(r) /\ Len(o) + Len(r) = CallsMade(c)
  BY CallsReadAreMade
<1>6. /\ found.truncated = (Len(o \o r) > MAX_CALLS) /\ found.calls = FirstOf(o \o r, MAX_CALLS)
      /\ found.unreadable = McpPostUnreadable(c)
  BY <1>4 DEF ExtractToolCalls
<1> HIDE DEF o, r, found
<1>7. found.truncated = (CallsMade(c) > MAX_CALLS) /\ IsList(found.calls)
  <2>1. Len(o \o r) = CallsMade(c) /\ IsList(o \o r)
    BY <1>5, JoinedHas, ListsJoin
  <2>2. MAX_CALLS \in Nat
    BY TrafficBoundsAssumption
  <2> QED BY <1>6, <2>1, <2>2, StartIsList
<1>8. IsList(un) /\ IsList(over)
  BY <1>2
<1>9. IsList(both)
  BY <1>7, <1>8, ListsJoin
<1>10. UNREADABLE_TOOL \in SpecialTools /\ OVERFLOW_TOOL \in SpecialTools
  BY DEF SpecialTools
<1>11. CallsMade(c) > MAX_CALLS => Marked(over, NoEndpoint)
  BY <1>3, <1>7, <1>10
<1>12. McpPostUnreadable(c) /\ c.endpoint \in KnownMcpEndpoints(d.schemas) => Marked(un, c.endpoint)
  BY <1>3, <1>6, <1>10
<1> HIDE DEF un, over
<1>13. \A calls, endpoint : Marked(calls, endpoint) <=> \E x : Has(calls, x) /\ Marks(x, endpoint)
  BY DEF Has
<1>14. /\ \A x : Has(un, x) => Has(both, x)
       /\ \A x : Has(both, x) \/ Has(over, x) => Has(both \o over, x)
  <2> HIDE DEF Marked, Marks
  <2>1. \A x : Has(un, x) => Has(found.calls \o un, x)
    BY <1>7, <1>8, JoinedHas
  <2>2. \A x : Has(both, x) \/ Has(over, x) => Has(both \o over, x)
    <3> HIDE DEF both
    <3> QED BY <1>8, <1>9, JoinedHas
  <2> QED BY <2>1, <2>2
<1> HIDE DEF both, Marks
<1>15. \A endpoint : /\ Marked(un, endpoint) => Marked(both \o over, endpoint)
                     /\ Marked(over, endpoint) => Marked(both \o over, endpoint)
  <2> HIDE DEF Marked
  <2> QED BY <1>13, <1>14
<1>16. CallsMade(c) > MAX_CALLS => Marked(both \o over, NoEndpoint)
  BY <1>11, <1>15
<1>17. McpPostUnreadable(c) /\ c.endpoint \in KnownMcpEndpoints(d.schemas) =>
          Marked(both \o over, c.endpoint)
  BY <1>12, <1>15
<1> QED BY <1>1, <1>16, <1>17

(* So the calls the rule reads of a capture say what was not read of it.   *)
LEMMA ReadCallsAreMarked ==
    ASSUME NEW d, NEW c, IsList(c.wire), IsList(c.reply), NEW ref
    PROVE  CallsMarked(CallsForRule(d.schemas, ref, RecordedCalls(d, c)), c, d.schemas)
<1> DEFINE calls == RecordedCalls(d, c)
           read  == CallsForRule(d.schemas, ref, calls)
<1>1. DOMAIN read = DOMAIN calls
  BY RuleCallsPlaces
<1>2. \A n \in DOMAIN calls : /\ read[n].endpoint = calls[n].endpoint
                              /\ calls[n].tool \in SpecialTools => read[n].unreadable
  <2> SUFFICES ASSUME NEW n \in DOMAIN calls
               PROVE  /\ read[n].endpoint = calls[n].endpoint
                      /\ calls[n].tool \in SpecialTools => read[n].unreadable
    OBVIOUS
  <2> HIDE DEF calls
  <2> QED BY DEF CallsForRule
<1>3. /\ MayCarryCalls(d.schemas, c) /\ CallsMade(c) > MAX_CALLS =>
            \E n \in DOMAIN calls : calls[n].tool \in SpecialTools /\ calls[n].endpoint = NoEndpoint
      /\ McpPostUnreadable(c) /\ c.endpoint \in KnownMcpEndpoints(d.schemas) =>
            \E n \in DOMAIN calls : calls[n].tool \in SpecialTools /\ calls[n].endpoint = c.endpoint
  <2>1. McpPostUnreadable(c) /\ c.endpoint \in KnownMcpEndpoints(d.schemas) =>
           MayCarryCalls(d.schemas, c)
    BY DEF McpPostUnreadable, MayCarryCalls, CallsRead
  <2> QED BY <2>1, MarksAreRecorded
<1> HIDE DEF calls, read
<1>4. CallsMarked(read, c, d.schemas)
  BY <1>1, <1>2, <1>3 DEF CallsMarked
<1> QED BY <1>4 DEF read, calls

(* A lost check is marked, at its own time or at that of a later one.      *)
LostOK(failed, lost, now) ==
    \A t \in lost : t \in Int /\ t <= now /\ \E u \in failed : u \in Int /\ t <= u

(* What a judged request did that is easily missed is told by the agent's  *)
(* rows, but for what the version it was judged by allows.                 *)
AllTold(j, rows) ==
    \A old \in UNION {g.contract : g \in j.under}, h \in HiddenActions(j) :
       DataActionAllowed(old, h.tool, h.action)
          \/ Tells(rows, j.agent, h.tool, h.action, h.action = "upload")

HiddenOK(d, now) ==
    /\ RowsNamed(d.rows) /\ SchemasOK(d.schemas) /\ LostOK(d.failed, d.lost, now)
    /\ \A j \in d.judged : j.at \notin d.lost => AllTold(j, d.rows)

RuleKinds(rule) == \A tool \in DOMAIN rule.overrides : "unreadable" \notin rule.overrides[tool]

RulesOK(rules) == \A rule \in rules : RuleKinds(rule)

(* A step that records more rows and may lose a check keeps what is told.  *)
LEMMA HiddenOnward ==
    ASSUME NEW d, NEW e, HiddenOK(d, clock), Onward(d.rows, e.rows), e.schemas = d.schemas,
           e.judged = d.judged, d.lost \subseteq e.lost, LostOK(e.failed, e.lost, clock)
    PROVE  HiddenOK(e, clock)
<1>1. RowsNamed(e.rows) /\ StillTold(d.rows, e.rows)
  BY DEF HiddenOK, Onward
<1>2. ASSUME NEW j, AllTold(j, d.rows) PROVE AllTold(j, e.rows)
  BY <1>1, <1>2 DEF AllTold, StillTold
<1> QED BY <1>1, <1>2 DEF HiddenOK

(* A failed check is marked when it is lost.                               *)
LEMMA MarkIsOfLost ==
    ASSUME clock \in Nat, NEW d, DOMAIN d = Tables, LostOK(d.failed, d.lost, clock), NEW failed
    PROVE  LET e == MarkedIf(failed, d)
           IN /\ Frame(d, e, {"failed", "lost"}) /\ LostOK(e.failed, e.lost, clock)
              /\ d.lost \subseteq e.lost /\ (failed => clock \in e.lost)
<1> DEFINE e == MarkedIf(failed, d)
<1>1. Frame(d, e, {"failed", "lost"})
  BY MarkChanges
<1>2. CASE ~failed
  BY <1>1, <1>2 DEF MarkedIf
<1>3. CASE failed
  <2>1. e.failed = {clock} /\ e.lost = d.lost \cup {clock}
    BY <1>3 DEF MarkedIf, MarkCheckFailed, Tables
  <2> HIDE DEF e
  <2>2. LostOK(e.failed, e.lost, clock)
    BY <2>1 DEF LostOK
  <2> QED BY <1>1, <2>1, <2>2 DEF e
<1> QED BY <1>2, <1>3

(* So does a run of the queue, whichever of its steps fails.               *)
LEMMA RunHides ==
    ASSUME clock \in Nat, NEW d, DOMAIN d = Tables, IsList(d.pending), HiddenOK(d, clock), NEW fault
    PROVE  HiddenOK(RunNotOffered(d, fault), clock)
<1> DEFINE due   == DueNow(d.pending)
           fails == fault = "one" /\ due # <<>>
           rest  == SubSeq(d.pending, Len(due) + 1, Len(d.pending))
           left  == [d EXCEPT !.pending = rest]
           mark  == MarkedIf(fails, left)
           list  == IF fails THEN Tail(due) ELSE due
           e     == Judging!OfSeq({}, mark, list)
<1>1. LostOK(d.failed, d.lost, clock)
  BY DEF HiddenOK
<1>2. CASE fault = "run"
  <2> DEFINE f == MarkedIf(TRUE, d)
  <2>1. RunNotOffered(d, fault) = f
    BY <1>2 DEF RunNotOffered, MarkedIf
  <2>2. Frame(d, f, {"failed", "lost"}) /\ LostOK(f.failed, f.lost, clock) /\ d.lost \subseteq f.lost
    BY <1>1, MarkIsOfLost
  <2> HIDE DEF f
  <2>3. f.rows = d.rows /\ f.schemas = d.schemas /\ f.judged = d.judged
    BY <2>2 DEF Frame, Tables
  <2> QED BY <2>1, <2>2, <2>3, HiddenOnward, OnwardSame
<1>3. CASE fault # "run"
  <2>1. RunNotOffered(d, fault) = e
    BY <1>3 DEF RunNotOffered, JudgeStep, Judging!OfSeq, FoldLeft, Judging!FoldLeft,
                MapThenFoldSet, Judging!MapThenFoldSet, Max, Judging!Max
  <2>2. IsList(due)
    BY DueIsFirst
  <2> HIDE DEF due, rest
  <2>3. Frame(d, left, {"pending"})
    BY DEF Frame, Tables
  <2> HIDE DEF left
  <2>4. /\ DOMAIN left = Tables /\ left.failed = d.failed /\ left.lost = d.lost
        /\ left.rows = d.rows /\ left.schemas = d.schemas /\ left.judged = d.judged
    BY <2>3 DEF Frame, Tables
  <2>5. /\ Frame(left, mark, {"failed", "lost"}) /\ LostOK(mark.failed, mark.lost, clock)
        /\ left.lost \subseteq mark.lost
    BY <1>1, <2>4, MarkIsOfLost
  <2> HIDE DEF mark
  <2>6. /\ DOMAIN mark = Tables /\ mark.rows = d.rows /\ mark.schemas = d.schemas
        /\ mark.judged = d.judged
    BY <2>4, <2>5 DEF Frame, Tables
  <2>7. \E N \in Nat : DOMAIN list = 1..N
    <3>1. CASE ~fails
      BY <2>2, <3>1 DEF IsList
    <3>2. CASE fails
      <4>1. due \in Seq(ToSet(due)) /\ due # <<>>
        BY <2>2, <3>2 DEF IsList
      <4>2. Tail(due) \in Seq(ToSet(due))
        BY <4>1
      <4>3. Len(Tail(due)) \in Nat /\ DOMAIN Tail(due) = 1..Len(Tail(due))
        BY <4>2
      <4> QED BY <3>2, <4>3
    <3> QED BY <3>1, <3>2
  <2> HIDE DEF list
  <2>8. Frame(mark, e, {"rows", "verdicts"}) /\ Onward(mark.rows, e.rows)
    BY <2>6, <2>7, JudgingOnward
  <2> HIDE DEF e
  <2>9. /\ e.failed = mark.failed /\ e.lost = mark.lost /\ e.schemas = mark.schemas
        /\ e.judged = mark.judged
    BY <2>8 DEF Frame, Tables
  <2>10. HiddenOK(e, clock)
    BY <2>4, <2>5, <2>6, <2>8, <2>9, HiddenOnward
  <2> QED BY <2>1, <2>10
<1> QED BY <1>2, <1>3

(* A violation names its call's tool, and what no call did is no violation.*)
LEMMA HitsAreNamed ==
    ASSUME NEW rule, RuleKinds(rule), NEW calls, CallsNamed(calls), NEW id,
           NEW v \in EvaluateDataActions(rule, calls, id)
    PROVE  DOMAIN v = HitFields /\ NamesItsServer(v)
<1>1. DOMAIN v = HitFields
  BY HitIsACalls
<1>2. PICK n \in DOMAIN calls : /\ v.action \in CallActions(rule, calls[n])
                                /\ v.tool = calls[n].tool /\ v.endpoint = calls[n].endpoint
  BY HitIsACalls
<1>3. ASSUME "unreadable" \in CallActions(rule, calls[n]) PROVE calls[n].unreadable
  <2>1. "unreadable" \notin calls[n].classified
    BY DEF CallsNamed
  <2>2. "unreadable" \notin {"upload"} /\ "unreadable" \notin {"unclassified"}
    OBVIOUS
  <2> QED BY <1>3, <2>1, <2>2 DEF CallActions, RuleKinds
<1>4. v.action = "unreadable" => v.tool = <<"mcp@", v.endpoint>>
  BY <1>2, <1>3 DEF CallsNamed
<1> QED BY <1>1, <1>4 DEF NamesItsServer

(* The violations a version's rules keep of a request's calls.             *)
HitsOf(rules, calls, id) == UNION {EvaluateDataActions(r, calls, id) : r \in rules}

(* What one of a request's calls did is easily missed, and forbidden.      *)
Missed(rule, calls, n, action) ==
    /\ action \in {"upload", "unreadable"} /\ action \in CallActions(rule, calls[n])
    /\ action = "unreadable" => calls[n].unreadable
    /\ ~DataActionAllowed(rule, calls[n].tool, action)

(* Of one of a request's calls, what it did is told, with that it was      *)
(* undeclared, by the row of the first call that did it.                   *)
MissedTold(rows, a, rule, calls, n, action) ==
    \E m \in 1..n : /\ action \in CallActions(rule, calls[m]) /\ calls[m].tool = calls[n].tool
                    /\ Tells(rows, a, calls[n].tool, action,
                             action = "upload" /\ calls[m].undeclared # {})

(* What a call did that can't be seen without its row is in a row, once the*)
(* request is judged: a call that can't be read, and what it sent          *)
(* undeclared.                                                             *)
LEMMA MissedIsTold ==
    ASSUME NEW q, DOMAIN q = Tables, RowsNamed(q.rows), NEW a, NEW id, OnlyNotOffered(q.rows, a, id),
           NEW calls, CallsNamed(calls), NEW N \in Nat, DOMAIN calls = 1..N,
           NEW rules, RulesOK(rules), NEW rule \in rules,
           NEW n \in 1..N, NEW action, Missed(rule, calls, n, action)
    PROVE  MissedTold(RecordViolations(q, a, HitsOf(rules, calls, id)).rows, a, rule, calls, n, action)
<1> DEFINE hits == HitsOf(rules, calls, id)
           hit  == HitOf(calls, id, n, action)
<1>1. \A v \in hits : DOMAIN v = HitFields /\ NamesItsServer(v)
  BY HitsAreNamed DEF HitsOf, RulesOK
<1>2. PICK v \in EvaluateDataActions(rule, calls, id), m \in 1..n :
         /\ SameItem(v, hit)
         /\ v.action \in CallActions(rule, calls[m])
         /\ v.tool = calls[m].tool /\ v.endpoint = calls[m].endpoint
         /\ v.undeclared = (v.action = "upload" /\ calls[m].undeclared # {})
  <2>1. KeptFirst(rule, calls, id, n, action)
    BY FirstIsKept DEF Missed
  <2> QED BY <2>1 DEF KeptFirst
<1>3. v \in hits /\ v.id = id
  BY HitIsACalls DEF HitsOf
<1>4. hit.tool = calls[n].tool /\ hit.action = action /\ hit.endpoint = calls[n].endpoint
  BY DEF HitOf
<1> HIDE DEF hits, hit
<1>5. NamesItsServer(hit)
  BY <1>4 DEF NamesItsServer, CallsNamed, Missed
<1>6. v.tool = calls[n].tool /\ v.action = action
  BY <1>1, <1>2, <1>3, <1>4, <1>5, ItemIs
<1>7. \A r \in q.rows : r.agent = a /\ r.v.id = v.id => ~SameItem(r.v, v)
  <2> SUFFICES ASSUME NEW r \in q.rows, r.agent = a, r.v.id = v.id, SameItem(r.v, v) PROVE FALSE
    OBVIOUS
  <2>1. r.v.action = "not_offered"
    BY <1>3 DEF OnlyNotOffered
  <2>2. r.v.action = v.action
    <3>1. DataActionItem(r.v).action = r.v.action /\ DataActionItem(v).action = v.action
      BY DEF DataActionItem
    <3> QED BY <3>1 DEF SameItem
  <2> QED BY <1>6, <2>1, <2>2 DEF Missed
<1> DEFINE e == RecordViolations(q, a, hits)
<1>8. Tells(e.rows, a, v.tool, v.action, v.undeclared)
  BY <1>1, <1>3, <1>7, RecordTells
<1> HIDE DEF e
<1>9. /\ action \in CallActions(rule, calls[m]) /\ calls[m].tool = calls[n].tool
      /\ Tells(e.rows, a, calls[n].tool, action, action = "upload" /\ calls[m].undeclared # {})
  BY <1>2, <1>6, <1>8 DEF Tells
<1> QED BY <1>9 DEF e, hits, MissedTold

(* What is easily missed of a request: what one of its calls did, or that  *)
(* something of it could not be read.                                      *)
LEMMA HiddenParts ==
    ASSUME NEW j, NEW h \in HiddenActions(j)
    PROVE  \/ \E n \in DOMAIN j.calls :
                 /\ j.calls[n].undeclared # {} /\ JudgedTool(j.calls[n].tool) /\ ~RowMadeBefore(j, n)
                 /\ h.tool = j.calls[n].tool
                 /\ h.action = IF j.calls[n].unreadable THEN "unreadable" ELSE "upload"
           \/ \E endpoint :
                 /\ \/ /\ endpoint = NoEndpoint /\ CallsRead(j.copy, j.known)
                       /\ CallsMade(j.copy) > MAX_CALLS
                    \/ endpoint = j.copy.endpoint /\ McpPostUnreadable(j.copy) /\ j.known
                 /\ h.tool = <<"mcp@", endpoint>> /\ h.action = "unreadable"
<1> DEFINE sent == {m \in DOMAIN j.calls : /\ j.calls[m].undeclared # {}
                                           /\ JudgedTool(j.calls[m].tool) /\ ~RowMadeBefore(j, m)}
           unread == (IF CallsRead(j.copy, j.known) /\ CallsMade(j.copy) > MAX_CALLS
                      THEN {NoEndpoint} ELSE {})
                     \cup (IF McpPostUnreadable(j.copy) /\ j.known THEN {j.copy.endpoint} ELSE {})
           of(n) == [tool   |-> j.calls[n].tool,
                     action |-> IF j.calls[n].unreadable THEN "unreadable" ELSE "upload"]
           at(endpoint) == [tool |-> <<"mcp@", endpoint>>, action |-> "unreadable"]
<1>1. h \in {of(n) : n \in sent} \cup {at(endpoint) : endpoint \in unread}
  BY DEF HiddenActions
<1>2. CASE h \in {of(n) : n \in sent}
  <2>1. PICK n \in sent : h = of(n)
    BY <1>2
  <2>2. /\ h.tool = j.calls[n].tool
        /\ h.action = IF j.calls[n].unreadable THEN "unreadable" ELSE "upload"
    BY <2>1
  <2> QED BY <2>2
<1>3. CASE h \in {at(endpoint) : endpoint \in unread}
  <2>1. PICK endpoint \in unread : h = at(endpoint)
    BY <1>3
  <2>2. h.tool = <<"mcp@", endpoint>> /\ h.action = "unreadable"
    BY <2>1
  <2>3. \/ /\ endpoint = NoEndpoint /\ CallsRead(j.copy, j.known)
           /\ CallsMade(j.copy) > MAX_CALLS
        \/ endpoint = j.copy.endpoint /\ McpPostUnreadable(j.copy) /\ j.known
    OBVIOUS
  <2> QED BY <2>2, <2>3
<1> QED BY <1>1, <1>2, <1>3

(* The rows told of a request by the rules of the version that judged it.  *)
LEMMA JudgedIsTold ==
    ASSUME NEW q, DOMAIN q = Tables, RowsNamed(q.rows), NEW j, NEW N \in Nat,
           OnlyNotOffered(q.rows, j.agent, j.copy.id), DOMAIN j.calls = 1..N,
           CallsNamed(j.calls), NEW schemas, CallsMarked(j.calls, j.copy, schemas),
           j.known = (j.copy.endpoint \in KnownMcpEndpoints(schemas)),
           NEW rules, rules = UNION {g.contract : g \in j.under},
           RulesOK(rules)
    PROVE  AllTold(j, RecordViolations(q, j.agent, HitsOf(rules, j.calls, j.copy.id)).rows)
<1> DEFINE e == RecordViolations(q, j.agent, HitsOf(rules, j.calls, j.copy.id))
           calls == j.calls
           a     == j.agent
<1>1. ASSUME NEW old \in rules, NEW n \in 1..N, NEW action, Missed(old, calls, n, action)
      PROVE  MissedTold(e.rows, a, old, calls, n, action)
  BY <1>1, MissedIsTold
<1> HIDE DEF e
<1>2. ASSUME NEW old \in rules, NEW n \in 1..N, calls[n].unreadable,
             ~DataActionAllowed(old, calls[n].tool, "unreadable")
      PROVE  Tells(e.rows, a, calls[n].tool, "unreadable", FALSE)
  <2>1. "unreadable" \in CallActions(old, calls[n])
    BY <1>2 DEF CallActions
  <2>2. PICK m \in 1..n : Tells(e.rows, a, calls[n].tool, "unreadable",
                                "unreadable" = "upload" /\ calls[m].undeclared # {})
    <3>1. MissedTold(e.rows, a, old, calls, n, "unreadable")
      BY <1>1, <1>2, <2>1 DEF Missed
    <3> QED BY <3>1 DEF MissedTold
  <2> QED BY <2>2 DEF Tells
<1>3. ASSUME NEW old \in rules, NEW h \in HiddenActions(j),
             ~DataActionAllowed(old, h.tool, h.action)
      PROVE  Tells(e.rows, a, h.tool, h.action, h.action = "upload")
  <2>1. ASSUME NEW n \in 1..N, calls[n].unreadable, h.tool = calls[n].tool, h.action = "unreadable"
        PROVE  Tells(e.rows, a, h.tool, h.action, h.action = "upload")
    <3>1. Tells(e.rows, a, calls[n].tool, "unreadable", FALSE)
      BY <1>2, <1>3, <2>1
    <3> QED BY <2>1, <3>1 DEF Tells
  <2>2. ASSUME NEW n \in 1..N, ~calls[n].unreadable, calls[n].undeclared # {},
               JudgedTool(calls[n].tool), ~RowMadeBefore(j, n),
               h.tool = calls[n].tool, h.action = "upload"
        PROVE  Tells(e.rows, a, h.tool, h.action, h.action = "upload")
    <3>1. "upload" \in CallActions(old, calls[n])
      BY <2>2 DEF CallActions
    <3>2. PICK m \in 1..n :
             /\ "upload" \in CallActions(old, calls[m]) /\ calls[m].tool = calls[n].tool
             /\ Tells(e.rows, a, calls[n].tool, "upload",
                      "upload" = "upload" /\ calls[m].undeclared # {})
      <4>1. MissedTold(e.rows, a, old, calls, n, "upload")
        BY <1>1, <1>3, <2>2, <3>1 DEF Missed
      <4> QED BY <4>1 DEF MissedTold
    <3>3. calls[m].undeclared # {}
      <4>1. CASE m = n
        BY <2>2, <4>1
      <4>2. CASE m # n
        <5>1. m \in 1..(n - 1)
          BY <4>2
        <5> QED BY <2>2, <3>2, <5>1 DEF RowMadeBefore
      <4> QED BY <4>1, <4>2
    <3> QED BY <2>2, <3>2, <3>3 DEF Tells
  <2>3. ASSUME NEW endpoint, NEW n \in 1..N, calls[n].unreadable, calls[n].endpoint = endpoint,
               h.tool = <<"mcp@", endpoint>>, h.action = "unreadable"
        PROVE  Tells(e.rows, a, h.tool, h.action, h.action = "upload")
    <3>1. h.tool = calls[n].tool
      BY <2>3 DEF CallsNamed
    <3> QED BY <2>1, <2>3, <3>1
  <2>4. CASE \E n \in DOMAIN calls :
                 /\ calls[n].undeclared # {} /\ JudgedTool(calls[n].tool) /\ ~RowMadeBefore(j, n)
                 /\ h.tool = calls[n].tool
                 /\ h.action = IF calls[n].unreadable THEN "unreadable" ELSE "upload"
    BY <2>1, <2>2, <2>4
  <2>5. CASE \E endpoint :
                 /\ \/ /\ endpoint = NoEndpoint /\ CallsRead(j.copy, j.known)
                       /\ CallsMade(j.copy) > MAX_CALLS
                    \/ endpoint = j.copy.endpoint /\ McpPostUnreadable(j.copy) /\ j.known
                 /\ h.tool = <<"mcp@", endpoint>> /\ h.action = "unreadable"
    <3>1. PICK endpoint :
                 /\ \/ /\ endpoint = NoEndpoint /\ CallsRead(j.copy, j.known)
                       /\ CallsMade(j.copy) > MAX_CALLS
                    \/ endpoint = j.copy.endpoint /\ McpPostUnreadable(j.copy) /\ j.known
                 /\ h.tool = <<"mcp@", endpoint>> /\ h.action = "unreadable"
      BY <2>5
    <3>2. PICK n \in 1..N : calls[n].unreadable /\ calls[n].endpoint = endpoint
      BY <3>1 DEF CallsMarked, MayCarryCalls
    <3> QED BY <2>3, <3>1, <3>2
  <2> QED BY <2>4, <2>5, HiddenParts
<1>4. AllTold(j, e.rows)
  BY <1>3 DEF AllTold
<1> QED BY <1>4 DEF e

(* A request judged leaves nothing of it untold that its version forbids.  *)
LEMMA JudgeHides ==
    ASSUME clock \in Nat, NEW d, DOMAIN d = Tables, HiddenOK(d, clock), NEW a \in W.agents,
           NEW c, OnlyNotOffered(d.rows, a, c.id), NEW calls, NEW N \in Nat, DOMAIN calls = 1..N,
           CallsNamed(calls),
           RuleOf(a) = {} \/ clock \in d.lost \/ CallsMarked(calls, c, d.schemas),
           RulesOK(RuleOf(a))
    PROVE  HiddenOK(JudgeRequest(d, a, c, calls), clock)
<1> DEFINE by   == [agent |-> a, id |-> c.id]
           q    == IF RuleOf(a) = {} THEN d ELSE QueueNotOffered(by, calls, d)
           hits == HitsOf(RuleOf(a), calls, c.id)
           r    == RecordViolations(q, a, hits)
           j    == [agent |-> a, copy |-> c, at |-> clock, under |-> active[a],
                    calls |-> calls, known |-> c.endpoint \in KnownMcpEndpoints(d.schemas)]
           e    == [r EXCEPT !.unreadable[a] = IF c.readable THEN @ ELSE {clock},
                             !.judged = @ \cup {j}]
<1>1. JudgeRequest(d, a, c, calls) = e
  BY DEF JudgeRequest, HitsOf
<1>2. Frame(d, q, {"rows", "verdicts", "pending"}) /\ Onward(d.rows, q.rows)
  <2>1. CASE RuleOf(a) = {}
    BY <2>1, OnwardSame DEF Frame
  <2>2. CASE RuleOf(a) # {}
    <3> HIDE DEF by
    <3>1. LET f == QueueNotOffered(by, calls, d)
          IN Frame(d, f, {"rows", "verdicts", "pending"}) /\ Onward(d.rows, f.rows)
      BY QueueNotOfferedOnward
    <3> QED BY <2>2, <3>1
  <2> QED BY <2>1, <2>2
<1> HIDE DEF q
<1>3. DOMAIN q = Tables /\ RowsNamed(q.rows) /\ StillTold(d.rows, q.rows)
      /\ OnlyNotOffered(q.rows, a, c.id)
  BY <1>2 DEF HiddenOK, Onward, StillUnjudged, Frame
<1>4. \A v \in hits : DOMAIN v = HitFields /\ NamesItsServer(v)
  BY HitsAreNamed DEF HitsOf, RulesOK
<1> HIDE DEF hits
<1>5. Frame(q, r, {"rows"}) /\ RowsNamed(r.rows) /\ StillTold(q.rows, r.rows)
  BY <1>3, <1>4, RecordChanges, RecordTells
<1>6. /\ j.agent = a /\ j.copy = c /\ j.at = clock /\ j.under = active[a] /\ j.calls = calls
      /\ j.known = (c.endpoint \in KnownMcpEndpoints(d.schemas))
  OBVIOUS
<1> HIDE DEF j
<1>7. CallsMarked(calls, c, d.schemas) => AllTold(j, r.rows)
  <2> SUFFICES ASSUME CallsMarked(calls, c, d.schemas) PROVE AllTold(j, r.rows)
    OBVIOUS
  <2>1. RuleOf(a) = UNION {g.contract : g \in j.under}
    BY <1>6 DEF RuleOf
  <2>2. PICK rules : rules = RuleOf(a)
    OBVIOUS
  <2>3. AllTold(j, RecordViolations(q, j.agent, HitsOf(rules, j.calls, j.copy.id)).rows)
    BY <1>3, <1>6, <2>1, <2>2, JudgedIsTold
  <2> QED BY <1>6, <2>2, <2>3 DEF hits
<1>8. RuleOf(a) = {} => AllTold(j, r.rows)
  BY <1>6 DEF AllTold, RuleOf
<1> HIDE DEF r
<1>9. Frame(r, e, {"unreadable", "judged"}) /\ e.judged = r.judged \cup {j}
  BY <1>5 DEF Frame, Tables
<1> HIDE DEF e
<1>10. /\ e.judged = d.judged \cup {j} /\ e.rows = r.rows /\ e.schemas = d.schemas
       /\ e.failed = d.failed /\ e.lost = d.lost
  BY <1>2, <1>5, <1>9 DEF Frame, Tables
<1>11. StillTold(d.rows, e.rows)
  BY <1>3, <1>5, <1>10 DEF StillTold
<1>12. ASSUME NEW i \in d.judged, i.at \notin d.lost PROVE AllTold(i, e.rows)
  <2>1. AllTold(i, d.rows)
    BY <1>12 DEF HiddenOK
  <2> QED BY <1>11, <2>1 DEF AllTold, StillTold
<1>13. j.at \notin d.lost => AllTold(j, e.rows)
  BY <1>6, <1>7, <1>8, <1>10
<1>14. HiddenOK(e, clock)
  BY <1>5, <1>10, <1>12, <1>13 DEF HiddenOK
<1> QED BY <1>1, <1>14

(* The check of a request is skipped, lost, nobody's, or one agent's.      *)
LEMMA GuardrailIs ==
    ASSUME NEW d, NEW c, NEW fault, NEW calls
    PROVE  LET e == GuardrailOnRequest(d, c, fault, calls)
           IN \/ e \in {d, MarkedIf(TRUE, d), [d EXCEPT !.unattributed = {clock}]}
              \/ \E a \in On : e = JudgeRequest(d, a, c, calls)
<1> DEFINE e      == GuardrailOnRequest(d, c, fault, calls)
           owners == Owners(c, On)
<1>1. CASE On = {}
  BY <1>1 DEF GuardrailOnRequest
<1>2. CASE On # {} /\ fault = "check"
  BY <1>2 DEF GuardrailOnRequest, MarkedIf
<1>3. CASE On # {} /\ fault # "check"
  <2>1. owners \subseteq On
    BY DEF Owners
  <2>2. e = CheckRequest(d, c, calls)
    BY <1>3 DEF GuardrailOnRequest
  <2>3. \/ e \in {d, [d EXCEPT !.unattributed = {clock}]}
        \/ e = JudgeRequest(d, CHOOSE a \in owners : TRUE, c, calls) /\ \E a \in owners : TRUE
    BY <2>2 DEF CheckRequest
  <2> QED BY <2>1, <2>3
<1> QED BY <1>1, <1>2, <1>3

(* The versions in force, and no schema, name an action there is not.      *)
VersionsOK == \A a \in W.agents : RulesOK(RuleOf(a))

(* The check of a request leaves nothing untold.                           *)
LEMMA GuardrailHides ==
    ASSUME clock \in Nat, VersionsOK, NEW d, DOMAIN d = Tables, HiddenOK(d, clock),
           NEW c, \A row \in d.rows : row.v.id # c.id, NEW fault,
           NEW calls, NEW N \in Nat, DOMAIN calls = 1..N, CallsNamed(calls),
           \/ \A a \in On : RuleOf(a) = {}
           \/ clock \in d.lost
           \/ CallsMarked(calls, c, d.schemas)
    PROVE  HiddenOK(GuardrailOnRequest(d, c, fault, calls), clock)
<1> DEFINE e      == GuardrailOnRequest(d, c, fault, calls)
           mark   == MarkedIf(TRUE, d)
           shared == [d EXCEPT !.unattributed = {clock}]
<1>1. e \in {d, mark, shared} \/ \E a \in On : e = JudgeRequest(d, a, c, calls)
  BY GuardrailIs
<1>2. HiddenOK(mark, clock)
  <2>1. LostOK(d.failed, d.lost, clock)
    BY DEF HiddenOK
  <2>2. /\ Frame(d, mark, {"failed", "lost"}) /\ LostOK(mark.failed, mark.lost, clock)
        /\ d.lost \subseteq mark.lost
    BY <2>1, MarkIsOfLost
  <2> HIDE DEF mark
  <2>3. mark.rows = d.rows /\ mark.schemas = d.schemas /\ mark.judged = d.judged
    BY <2>2 DEF Frame, Tables
  <2> QED BY <2>2, <2>3, HiddenOnward, OnwardSame
<1>3. HiddenOK(shared, clock)
  <2>1. /\ shared.rows = d.rows /\ shared.schemas = d.schemas /\ shared.judged = d.judged
        /\ shared.failed = d.failed /\ shared.lost = d.lost
    BY DEF Tables
  <2> HIDE DEF shared
  <2> QED BY <2>1 DEF HiddenOK
<1>4. ASSUME NEW a \in On PROVE HiddenOK(JudgeRequest(d, a, c, calls), clock)
  <2>1. a \in W.agents /\ RulesOK(RuleOf(a))
    BY DEF On, VersionsOK
  <2>2. OnlyNotOffered(d.rows, a, c.id)
    BY DEF OnlyNotOffered
  <2>3. RuleOf(a) = {} \/ clock \in d.lost \/ CallsMarked(calls, c, d.schemas)
    OBVIOUS
  <2> QED BY <2>1, <2>2, <2>3, JudgeHides
<1> QED BY <1>1, <1>2, <1>3, <1>4

(* The schemas read of a copy name actions there are.                      *)
CopyKinds(c) == \A f \in ExtractToolSchemas(c) : KindsOnly(f.schema)

(* Schemas recorded hide nothing, and name actions there are.              *)
LEMMA SchemasHide ==
    ASSUME NEW d, DOMAIN d = Tables, HiddenOK(d, clock), NEW c, CopyKinds(c)
    PROVE  LET e == RecordToolSchemas(d, c)
           IN DOMAIN e = Tables /\ HiddenOK(e, clock) /\ e.rows = d.rows
<1> DEFINE found == {[ref |-> CaptureRef(c), source |-> f.source, endpoint |-> f.endpoint,
                      host |-> f.host, tool |-> f.tool, schema |-> f.schema, last |-> clock] :
                       f \in ExtractToolSchemas(c)}
           old   == {s \in d.schemas : \A f \in found : [s EXCEPT !.last = clock] # f}
           e     == RecordToolSchemas(d, c)
<1>1. /\ e.schemas = old \cup found /\ DOMAIN e = Tables
      /\ e.rows = d.rows /\ e.judged = d.judged /\ e.failed = d.failed /\ e.lost = d.lost
  BY DEF RecordToolSchemas, Tables
<1>2. \A s \in found : KindsOnly(s.schema)
  BY DEF CopyKinds
<1>3. old \subseteq d.schemas
  OBVIOUS
<1> HIDE DEF e, found, old
<1>4. SchemasOK(e.schemas)
  BY <1>1, <1>2, <1>3 DEF HiddenOK, SchemasOK
<1> QED BY <1>1, <1>4 DEF HiddenOK, e

(* What follows a stored request leaves nothing of it untold, unless its   *)
(* check was lost.                                                         *)
LEMMA CheckedHides ==
    ASSUME clock \in Nat, VersionsOK, NEW d, DOMAIN d = Tables, HiddenOK(d, clock),
           NEW c, IsList(c.wire), IsList(c.reply), CopyKinds(c),
           \A row \in d.rows : row.v.id # c.id, NEW fault
    PROVE  HiddenOK(Checked(d, c, fault), clock)
<1> DEFINE judge  == \E a \in On : RuleOf(a) # {}
           listed == IF fault = "schemas" \/ ~MayCarryTools(c) THEN d ELSE RecordToolSchemas(d, c)
           calls  == IF fault = "calls" THEN <<>> ELSE RecordedCalls(listed, c)
           unread == judge /\ \/ fault = "calls" /\ MayCarryCalls(listed.schemas, c)
                              \/ fault = "classify" /\ calls # <<>>
           kept   == RecordToolCalls(listed, c, calls)
           mark   == MarkedIf(unread, kept)
           read   == IF judge /\ ~unread
                     THEN CallsForRule(listed.schemas, CaptureRef(c), calls) ELSE <<>>
           e      == GuardrailOnRequest(mark, c, fault, read)
<1>1. Checked(d, c, fault) = e
  BY DEF Checked
<1>2. DOMAIN listed = Tables /\ HiddenOK(listed, clock) /\ listed.rows = d.rows
  BY SchemasHide
<1> HIDE DEF listed
<1>3. PICK N \in Nat : DOMAIN calls = 1..N
  <2>1. CASE fault = "calls"
    <3>1. DOMAIN <<>> = 1..0
      OBVIOUS
    <3> QED BY <2>1, <3>1
  <2>2. CASE fault # "calls"
    BY <2>2, CallsAreLists, ListPlaces
  <2> QED BY <2>1, <2>2
<1>4. unread \/ ~judge \/ calls = RecordedCalls(listed, c)
  BY DEF RecordedCalls
<1> HIDE DEF calls
<1>5. Frame(listed, kept, {"calls", "read"})
  BY <1>2 DEF RecordToolCalls, Frame, Tables
<1> HIDE DEF kept
<1>6. /\ DOMAIN kept = Tables /\ kept.rows = d.rows /\ kept.schemas = listed.schemas
      /\ kept.judged = listed.judged /\ kept.failed = listed.failed /\ kept.lost = listed.lost
  BY <1>2, <1>5 DEF Frame, Tables
<1>7. LostOK(kept.failed, kept.lost, clock)
  BY <1>2, <1>6 DEF HiddenOK
<1>8. /\ Frame(kept, mark, {"failed", "lost"}) /\ LostOK(mark.failed, mark.lost, clock)
      /\ kept.lost \subseteq mark.lost /\ (unread => clock \in mark.lost)
  BY <1>6, <1>7, MarkIsOfLost
<1> HIDE DEF mark
<1>9. /\ DOMAIN mark = Tables /\ mark.rows = d.rows /\ mark.schemas = listed.schemas
      /\ mark.judged = listed.judged /\ listed.lost \subseteq mark.lost
  BY <1>6, <1>8 DEF Frame, Tables
<1>10. HiddenOK(mark, clock)
  BY <1>2, <1>8, <1>9, HiddenOnward, OnwardSame
<1>11. CASE judge /\ ~unread
  <2>1. /\ read = CallsForRule(listed.schemas, CaptureRef(c), calls)
        /\ calls = RecordedCalls(listed, c)
    BY <1>4, <1>11
  <2> HIDE DEF read, judge, unread
  <2>2. DOMAIN read = 1..N
    BY <1>3, <2>1, RuleCallsPlaces
  <2>3. SchemasOK(listed.schemas)
    BY <1>2 DEF HiddenOK
  <2>4. CallsNamed(read)
    BY <2>1, <2>3, ReadCallsAreNamed
  <2>5. CallsMarked(read, c, mark.schemas)
    <3>1. CallsMarked(CallsForRule(listed.schemas, CaptureRef(c), RecordedCalls(listed, c)),
                      c, listed.schemas)
      BY ReadCallsAreMarked
    <3> QED BY <1>9, <2>1, <3>1
  <2>6. \A row \in mark.rows : row.v.id # c.id
    BY <1>9
  <2>7. HiddenOK(e, clock)
    BY <1>9, <1>10, <2>2, <2>4, <2>5, <2>6, GuardrailHides
  <2> QED BY <1>1, <2>7
<1>12. CASE ~ (judge /\ ~unread)
  <2>1. DOMAIN read = 1..0 /\ read = <<>>
    BY <1>12
  <2>2. (\A a \in On : RuleOf(a) = {}) \/ clock \in mark.lost
    BY <1>8, <1>12
  <2> HIDE DEF read, judge, unread
  <2>3. CallsNamed(read) /\ 0 \in Nat
    BY <2>1 DEF CallsNamed
  <2>4. \A row \in mark.rows : row.v.id # c.id
    BY <1>9
  <2>5. HiddenOK(e, clock)
    BY <1>9, <1>10, <2>1, <2>2, <2>3, <2>4, GuardrailHides
  <2> QED BY <1>1, <2>5
<1> QED BY <1>11, <1>12

(* So does a batch's row, which is judged once at most.                    *)
LEMMA IngestedHides ==
    ASSUME clock \in Nat, VersionsOK, NEW d, NEW copies, NEW delivered,
           TablesOK(d, clock, W.agents, copies, delivered), HiddenOK(d, clock),
           NEW c, IsList(c.wire), IsList(c.reply), CopyKinds(c),
           NEW how, how.authenticated \in BOOLEAN
    PROVE  HiddenOK(Ingested(how, c, d), clock)
<1> DEFINE old    == {s \in d.stored : s.copy.id = c.id}
           stored == [d EXCEPT !.stored =
                        (@ \ old) \cup {[copy |-> c, authenticated |-> how.authenticated]}]
           e      == Ingested(how, c, d)
<1>1. DOMAIN d = Tables
  BY DEF TablesOK
<1>2. CASE \E s \in old : s.authenticated \/ ~how.authenticated
  BY <1>2 DEF Ingested
<1>3. CASE ~ \E s \in old : s.authenticated \/ ~how.authenticated
  <2>1. /\ DOMAIN stored = Tables /\ stored.rows = d.rows /\ stored.schemas = d.schemas
        /\ stored.judged = d.judged /\ stored.failed = d.failed /\ stored.lost = d.lost
    BY <1>1 DEF Tables
  <2>2. e = IF how.authenticated THEN Checked(stored, c, how.fault) ELSE stored
    BY <1>3 DEF Ingested
  <2>3. \A j \in d.judged : j.copy.id # c.id
    <3>1. \A j \in d.judged : \E s \in d.stored : s.authenticated /\ s.copy = j.copy
      BY DEF TablesOK, StoredOK, JudgedOK
    <3> QED BY <1>3, <3>1
  <2>4. \A row \in d.rows : row.v.id # c.id
    <3> SUFFICES ASSUME NEW row \in d.rows PROVE row.v.id # c.id
      OBVIOUS
    <3>1. <<row.agent, row.v.id>> \in JudgedIds(d.judged)
      BY DEF TablesOK, RowsOK
    <3>2. PICK j \in d.judged : <<row.agent, row.v.id>> = <<j.agent, j.copy.id>>
      BY <3>1 DEF JudgedIds
    <3> QED BY <2>3, <3>2
  <2> HIDE DEF stored
  <2>5. HiddenOK(stored, clock)
    BY <2>1 DEF HiddenOK
  <2>6. HiddenOK(Checked(stored, c, how.fault), clock)
    BY <2>1, <2>4, <2>5, CheckedHides
  <2> QED BY <2>2, <2>5, <2>6
<1> QED BY <1>2, <1>3
-----------------------------------------------------------------------------
(* A batch                                                                 *)

(* What is delivered once one more of a batch's copies has come.           *)
LEMMA DeliveredNext ==
    ASSUME NEW batch, batch.authenticated \in BOOLEAN, NEW n \in Nat \ {0}
    PROVE  Delivered(batch, n)
              = With(Delivered(batch, n - 1), batch.copies[n], batch.authenticated)
<1> DEFINE copies == batch.copies
           New(k) == /\ batch.authenticated /\ \A c \in past.delivered : c.id # copies[k].id
                     /\ \A i \in 1..(k - 1) : copies[i].id # copies[k].id
           Come(m) == past.delivered \cup {copies[k] : k \in {j \in 1..m : New(j)}}
<1>1. \A m : Delivered(batch, m) = Come(m)
  BY DEF Delivered
<1>2. 1..n = 1..(n - 1) \cup {n} /\ n \notin 1..(n - 1)
  OBVIOUS
<1>3. Come(n) = Come(n - 1) \cup (IF New(n) THEN {copies[n]} ELSE {})
  <2> HIDE DEF New
  <2> QED BY <1>2
<1>4. New(n) <=> batch.authenticated /\ \A x \in Come(n - 1) : x.id # copies[n].id
  <2>1. ASSUME New(n), NEW x \in Come(n - 1) PROVE x.id # copies[n].id
    BY <2>1
  <2>2. ASSUME batch.authenticated, \A x \in Come(n - 1) : x.id # copies[n].id, ~New(n)
        PROVE  FALSE
    <3>1. \A c \in past.delivered : c.id # copies[n].id
      BY <2>2
    <3> DEFINE T == {i \in 1..(n - 1) : copies[i].id = copies[n].id}
    <3>2. T \in SUBSET Nat /\ T # {}
      BY <2>2, <3>1
    <3>3. PICK i \in T : \A k \in T : i <= k
      BY <3>2, Judging!LeastNat
    <3>4. i \in 1..(n - 1) /\ copies[i].id = copies[n].id
      BY <3>3
    <3>5. \A k \in 1..(i - 1) : copies[k].id # copies[i].id
      <4> SUFFICES ASSUME NEW k \in 1..(i - 1), copies[k].id = copies[i].id PROVE FALSE
        OBVIOUS
      <4>1. k \in 1..(n - 1) /\ ~ i <= k
        BY <3>4
      <4>2. k \in T
        BY <3>4, <4>1
      <4> QED BY <3>3, <4>1, <4>2
    <3>6. New(i)
      BY <2>2, <3>1, <3>4, <3>5
    <3>7. copies[i] \in Come(n - 1)
      <4> HIDE DEF New
      <4> QED BY <3>4, <3>6
    <3> QED BY <2>2, <3>4, <3>7
  <2>3. New(n) => batch.authenticated
    OBVIOUS
  <2> HIDE DEF New, Come
  <2> QED BY <2>1, <2>2, <2>3
<1> HIDE DEF New, Come
<1>5. Come(n) = With(Come(n - 1), copies[n], batch.authenticated)
  BY <1>3, <1>4 DEF With
<1> QED BY <1>1, <1>5

(* The rows of a batch, up to any of them.                                 *)
LEMMA BatchedKeeps ==
    ASSUME clock \in Nat, world \in DOMAIN Worlds, NEW batch \in W.batches,
           TablesOK(db, clock, W.agents, CopiesOf(W), past.delivered),
           NEW N \in 0..Len(batch.copies), NEW fault
    PROVE  LET e == Batched(batch, N, fault)
           IN /\ TablesOK(e, clock, W.agents, CopiesOf(W), Delivered(batch, N))
              /\ \A s \in db.stored : s \in e.stored \/ (batch.authenticated /\ Unauthenticated(batch))
              /\ VersionsOK /\ HiddenOK(db, clock) => HiddenOK(e, clock)
<1> DEFINE how  == [authenticated |-> batch.authenticated, fault |-> fault]
           part == SubSeq(batch.copies, 1, N)
           copies == CopiesOf(W)
           Lost(s) == /\ batch.authenticated /\ ~s.authenticated
                      /\ \E n \in DOMAIN batch.copies : s.copy.id = batch.copies[n].id
           Good(d, n) == /\ TablesOK(d, clock, W.agents, copies, Delivered(batch, n))
                         /\ \A s \in db.stored : s \in d.stored \/ Lost(s)
                         /\ VersionsOK /\ HiddenOK(db, clock) => HiddenOK(d, clock)
<1>1. /\ batch.authenticated \in BOOLEAN /\ IsList(batch.copies)
      /\ \A c \in ToSet(batch.copies) : IsList(c.wire) /\ IsList(c.reply) /\ CopyKinds(c)
  BY CopiesAssumption, KindsAssumption DEF W, CopyKinds
<1>2. Len(batch.copies) \in Nat /\ DOMAIN batch.copies = 1..Len(batch.copies)
  BY <1>1 DEF IsList
<1>3. N \in Nat /\ N <= Len(batch.copies)
  BY <1>2
<1>4. DOMAIN part = 1..N /\ \A n \in 1..N : part[n] = batch.copies[n] /\ n \in DOMAIN batch.copies
  <2>1. 1 \in 1..(Len(batch.copies) + 1) /\ N \in (1 - 1)..Len(batch.copies) /\ N - 1 + 1 = N
    BY <1>2, <1>3
  <2>2. /\ DOMAIN part = 1..(N - 1 + 1)
        /\ \A n \in DOMAIN part : /\ part[n] = batch.copies[1 + n - 1]
                                  /\ 1 + n - 1 \in DOMAIN batch.copies
    BY <1>1, <2>1, PartOfList
  <2> HIDE DEF part
  <2>3. \A n \in 1..N : 1 + n - 1 = n
    BY <1>3
  <2> QED BY <2>1, <2>2, <2>3
<1>5. Batched(batch, N, fault) = Ingesting!OfSeq(how, db, part)
  BY DEF Batched, IngestStep, Ingesting!OfSeq, FoldLeft, Ingesting!FoldLeft,
         MapThenFoldSet, Ingesting!MapThenFoldSet, Max, Ingesting!Max
<1> HIDE DEF part
<1>6. PICK f : /\ Ingesting!OfSeq(how, db, part) = f[N] /\ f[0] = db
               /\ \A n \in 1..N : f[n] = IngestStep(how, part[n], f[n - 1])
  <2>1. Ingesting!Folded(how, db, part, N)
    <3> HIDE DEF how
    <3> QED BY <1>3, <1>4, Ingesting!SeqFold
  <2> QED BY <2>1 DEF Ingesting!Folded
<1>7. Delivered(batch, 0) = past.delivered
  <2>1. 1..0 = {}
    OBVIOUS
  <2> QED BY <2>1 DEF Delivered
<1>8. \A n \in 1..N : Delivered(batch, n)
                         = With(Delivered(batch, n - 1), batch.copies[n], batch.authenticated)
  <2> SUFFICES ASSUME NEW n \in 1..N
               PROVE  Delivered(batch, n)
                         = With(Delivered(batch, n - 1), batch.copies[n], batch.authenticated)
    OBVIOUS
  <2>1. n \in Nat \ {0}
    BY <1>3
  <2> QED BY <1>1, <2>1, DeliveredNext
<1>9. how.authenticated = batch.authenticated
  OBVIOUS
<1> DEFINE S == {n \in 0..N : Good(f[n], n)}
<1>10. 0 \in S
  BY <1>3, <1>6, <1>7
<1>11. ASSUME NEW n \in 1..N, n - 1 \in S PROVE n \in S
  <2> DEFINE c == batch.copies[n]
  <2>1. Good(f[n - 1], n - 1) /\ n \in 0..N
    BY <1>11
  <2>2. f[n] = Ingested(how, c, f[n - 1]) /\ n \in DOMAIN batch.copies
    BY <1>4, <1>6 DEF IngestStep
  <2>3. c \in ToSet(batch.copies) /\ IsList(c.wire) /\ IsList(c.reply) /\ CopyKinds(c)
    BY <1>1, <2>2 DEF ToSet
  <2>4. c \in copies
    BY <2>3 DEF CopiesOf
  <2> HIDE DEF c, how, copies
  <2>5. /\ TablesOK(f[n], clock, W.agents, copies,
                   With(Delivered(batch, n - 1), c, how.authenticated))
        /\ \A s \in f[n - 1].stored :
              s \in f[n].stored \/ (how.authenticated /\ ~s.authenticated /\ s.copy.id = c.id)
    BY <1>1, <1>9, <2>1, <2>2, <2>3, <2>4, IngestedKeeps
  <2>6. TablesOK(f[n], clock, W.agents, copies, Delivered(batch, n))
    BY <1>8, <1>9, <2>5 DEF c
  <2>7. \A s \in db.stored : s \in f[n].stored \/ Lost(s)
    BY <1>9, <2>1, <2>2, <2>5 DEF c
  <2>8. VersionsOK /\ HiddenOK(db, clock) => HiddenOK(f[n], clock)
    <3> SUFFICES ASSUME VersionsOK, HiddenOK(db, clock) PROVE HiddenOK(f[n], clock)
      OBVIOUS
    <3>1. PICK g : g = f[n - 1]
      OBVIOUS
    <3>2. TablesOK(g, clock, W.agents, copies, Delivered(batch, n - 1)) /\ HiddenOK(g, clock)
      BY <2>1, <3>1
    <3>3. HiddenOK(Ingested(how, c, g), clock)
      BY <1>1, <1>9, <2>3, <3>2, IngestedHides
    <3> QED BY <2>2, <3>1, <3>3
  <2> QED BY <2>1, <2>6, <2>7, <2>8
<1> HIDE DEF S
<1>12. N \in S
  BY <1>3, <1>10, <1>11, Ingesting!StepsTo
<1>13. Good(f[N], N)
  BY <1>12 DEF S
<1>14. \A s \in db.stored : Lost(s) => batch.authenticated /\ Unauthenticated(batch)
  BY DEF Unauthenticated
<1> QED BY <1>5, <1>6, <1>13, <1>14
-----------------------------------------------------------------------------
(* The inductive invariant                                                 *)

AtMostOne(s) == \E x : s \subseteq {x}

CaptureInv ==
    /\ world \in DOMAIN Worlds /\ clock \in Nat
    /\ TablesOK(db, clock, W.agents, CopiesOf(W), past.delivered)
    /\ DOMAIN active = W.agents /\ \A a \in W.agents : AtMostOne(active[a])
    /\ AtMostOne(heartbeat) /\ AtMostOne(refused)
    /\ AtMostOne(session.first) /\ AtMostOne(session.last)
    /\ open \in BOOLEAN /\ DOMAIN past = {"delivered", "broken"} /\ past.broken \in BOOLEAN
    /\ ~past.broken => session.first \subseteq Times(db.stored)

(* A run of the queue leaves the tables right.                             *)
LEMMA RunTables ==
    ASSUME clock \in Nat, NEW d, NEW copies, NEW delivered, NEW fault,
           TablesOK(d, clock, W.agents, copies, delivered)
    PROVE  /\ TablesOK(RunNotOffered(d, fault), clock, W.agents, copies, delivered)
           /\ RunNotOffered(d, fault).stored = d.stored
<1> DEFINE e == RunNotOffered(d, fault)
<1>1. SideOK(d, JudgedIds(d.judged)) /\ MarksOK(d)
  BY DEF TablesOK, SideOK
<1>2. /\ Frame(d, e, {"rows", "verdicts", "pending", "failed", "lost"})
      /\ SideOK(e, JudgedIds(d.judged)) /\ MarksOK(e)
  BY <1>1, RunKeeps
<1> HIDE DEF e
<1>3. /\ e.stored = d.stored /\ e.judged = d.judged /\ e.read = d.read /\ e.calls = d.calls
      /\ e.schemas = d.schemas /\ e.listings = d.listings /\ DOMAIN e = Tables
  BY <1>2 DEF Frame, Tables
<1>4. TablesOK(e, clock, W.agents, copies, delivered)
  BY <1>2, <1>3 DEF TablesOK, SideOK
<1> QED BY <1>3, <1>4 DEF e

(* Time takes nothing away.                                                *)
LEMMA LaterTables ==
    ASSUME NEW now \in Nat, NEW later \in Nat, now <= later, NEW d, NEW agents, NEW copies,
           NEW delivered, TablesOK(d, now, agents, copies, delivered)
    PROVE  TablesOK(d, later, agents, copies, delivered)
<1>1. 0..now \subseteq 0..later
  OBVIOUS
<1>2. PagesOK(d.schemas, d.listings, later)
  BY <1>1 DEF TablesOK, PagesOK
<1>3. QueueOK(d.pending, later, agents, JudgedIds(d.judged))
  BY DEF TablesOK, QueueOK
<1> QED BY <1>2, <1>3 DEF TablesOK

(* A session has at most one first and one last time.                      *)
LEMMA OneTime ==
    ASSUME NEW ts \in SUBSET Int
    PROVE  AtMostOne(Earliest(ts)) /\ AtMostOne(Latest(ts))
<1>1. \A t, u \in Earliest(ts) : t = u
  BY DEF Earliest
<1>2. \A t, u \in Latest(ts) : t = u
  BY DEF Latest
<1>3. ASSUME NEW s, \A t, u \in s : t = u PROVE AtMostOne(s)
  <2>1. CASE s = {}
    BY <2>1 DEF AtMostOne
  <2>2. CASE s # {}
    <3>1. PICK x \in s : TRUE
      BY <2>2
    <3>2. s \subseteq {x}
      BY <1>3, <3>1
    <3> QED BY <3>2 DEF AtMostOne
  <2> QED BY <2>1, <2>2
<1> QED BY <1>1, <1>2, <1>3

(* The session's times after a batch whose rows are after's.               *)
LEMMA SeenOK ==
    ASSUME NEW batch, NEW after, NEW copies, \A c \in copies : c.at \in Int,
           after.stored \subseteq [copy : copies, authenticated : BOOLEAN],
           AtMostOne(session.first), AtMostOne(session.last),
           \A s \in db.stored : s \in after.stored \/ (batch.authenticated /\ Unauthenticated(batch)),
           NEW seen, seen = SeenTimes(session, batch, after)
    PROVE  /\ AtMostOne(seen.first) /\ AtMostOne(seen.last)
           /\ session.first \subseteq Times(db.stored) => seen.first \subseteq Times(after.stored)
<1> DEFINE ts == Times(after.stored)
<1>1. ts \in SUBSET Int
  BY DEF Times
<1>2. AtMostOne(Earliest(ts)) /\ AtMostOne(Latest(ts)) /\ Earliest(ts) \subseteq ts
  <2> HIDE DEF ts
  <2> QED BY <1>1, OneTime DEF Earliest
<1>3. CASE after.stored = db.stored
  BY <1>3 DEF SeenTimes
<1>4. CASE after.stored # db.stored
  <2> DEFINE replaced == batch.authenticated /\ Unauthenticated(batch)
  <2>1. /\ seen.first = IF session.first = {} \/ replaced THEN Earliest(ts) ELSE session.first
        /\ seen.last = Latest(ts)
    BY <1>4 DEF SeenTimes
  <2>2. ~replaced => Times(db.stored) \subseteq ts
    BY DEF Times
  <2> HIDE DEF ts, replaced
  <2> QED BY <1>2, <2>1, <2>2 DEF ts
<1> QED BY <1>3, <1>4
-----------------------------------------------------------------------------
(* The steps                                                               *)

(* The worlds' batches, as the steps read them.                            *)
LEMMA BatchIs ==
    ASSUME world \in DOMAIN Worlds, NEW batch \in W.batches
    PROVE  /\ Len(batch.copies) \in Nat /\ batch.fails => Len(batch.copies) > 0
           /\ \A c \in CopiesOf(W) : c.at \in Int
<1>1. IsList(batch.copies) /\ (batch.fails => batch.copies # <<>>)
  BY CopiesAssumption DEF W
<1>2. Len(batch.copies) \in Nat /\ batch.copies \in Seq(ToSet(batch.copies))
  BY <1>1 DEF IsList
<1>3. batch.copies # <<>> => Len(batch.copies) > 0
  BY <1>2
<1>4. \A c \in CopiesOf(W) : c.at \in Int
  BY CopiesAssumption DEF CopiesOf, W
<1> QED BY <1>1, <1>2, <1>3, <1>4

(* What a batch leaves: the tables, and the session's times.               *)
LEMMA ReceiveOK ==
    ASSUME CaptureInv, NEW batch \in W.batches, NEW fault, Receive(batch, fault)
    PROVE  CaptureInv'
<1> DEFINE N     == Len(batch.copies)
           after == Batched(batch, N, fault)
<1>1. /\ clock \in Nat /\ world \in DOMAIN Worlds
      /\ TablesOK(db, clock, W.agents, CopiesOf(W), past.delivered)
  BY DEF CaptureInv
<1>2. N \in 0..N /\ \A c \in CopiesOf(W) : c.at \in Int
  BY <1>1, BatchIs
<1>3. /\ TablesOK(after, clock, W.agents, CopiesOf(W), Delivered(batch, N))
      /\ \A s \in db.stored : s \in after.stored \/ (batch.authenticated /\ Unauthenticated(batch))
  BY <1>1, <1>2, BatchedKeeps
<1>4. /\ UNCHANGED <<world, clock, active, heartbeat, refused>> /\ open' = FALSE
      /\ past' = [past EXCEPT !.delivered = Delivered(batch, N)]
      /\ db' = IF batch.authenticated THEN RunNotOffered(after, fault) ELSE after
      /\ session' = SeenTimes(session, batch, after)
  BY DEF Receive, Post, Keep
<1> HIDE DEF after, N
<1>5. TablesOK(db', clock, W.agents, CopiesOf(W), Delivered(batch, N)) /\ db'.stored = after.stored
  BY <1>1, <1>3, <1>4, RunTables
<1>6. /\ AtMostOne(session'.first) /\ AtMostOne(session'.last)
      /\ session.first \subseteq Times(db.stored) => session'.first \subseteq Times(after.stored)
  <2>1. after.stored \subseteq [copy : CopiesOf(W), authenticated : BOOLEAN]
    BY <1>3 DEF TablesOK, StoredOK
  <2>2. AtMostOne(session.first) /\ AtMostOne(session.last)
    BY DEF CaptureInv
  <2> QED BY <1>2, <1>3, <1>4, <2>1, <2>2, SeenOK
<1>7. /\ past'.delivered = Delivered(batch, N) /\ past'.broken = past.broken
      /\ DOMAIN past' = {"delivered", "broken"}
  BY <1>4 DEF CaptureInv
<1>8. W' = W
  BY <1>4 DEF W
<1> QED BY <1>4, <1>5, <1>6, <1>7, <1>8 DEF CaptureInv

(* A batch whose last capture's savepoint fails leaves the captures before *)
(* it, checked, and says the batch is broken.                              *)
LEMMA ReceiveFailsOK ==
    ASSUME CaptureInv, NEW batch \in W.batches, ReceiveFails(batch)
    PROVE  CaptureInv'
<1> DEFINE N     == Len(batch.copies) - 1
           after == Batched(batch, N, "none")
<1>1. /\ clock \in Nat /\ world \in DOMAIN Worlds
      /\ TablesOK(db, clock, W.agents, CopiesOf(W), past.delivered)
  BY DEF CaptureInv
<1>2. /\ UNCHANGED <<world, clock, active, heartbeat, refused, session>> /\ open' = TRUE
      /\ past' = [delivered |-> Delivered(batch, N), broken |-> TRUE]
      /\ db' = after /\ batch.fails
  BY DEF ReceiveFails, Post
<1>3. N \in 0..Len(batch.copies)
  BY <1>1, <1>2, BatchIs
<1>4. TablesOK(after, clock, W.agents, CopiesOf(W), Delivered(batch, N))
  BY <1>1, <1>3, BatchedKeeps
<1> HIDE DEF after, N
<1>5. /\ past'.delivered = Delivered(batch, N) /\ past'.broken = TRUE
      /\ DOMAIN past' = {"delivered", "broken"}
  BY <1>2
<1>6. W' = W
  BY <1>2 DEF W
<1> QED BY <1>2, <1>4, <1>5, <1>6 DEF CaptureInv

(* A set of one moment, or of none, holds at most one.                     *)
LEMMA OneIsOne == ASSUME NEW x PROVE AtMostOne({x}) /\ AtMostOne({})
  BY DEF AtMostOne

(* A heartbeat judges the calls that are due.                              *)
LEMMA HeartbeatOK ==
    ASSUME CaptureInv, NEW fault, Heartbeat(fault)
    PROVE  CaptureInv'
<1>1. clock \in Nat /\ TablesOK(db, clock, W.agents, CopiesOf(W), past.delivered)
  BY DEF CaptureInv
<1>2. /\ UNCHANGED <<world, clock, session, open, active, refused, past>>
      /\ heartbeat' = {clock} /\ db' = RunNotOffered(db, fault)
  BY DEF Heartbeat
<1>3. /\ TablesOK(db', clock, W.agents, CopiesOf(W), past.delivered)
      /\ db'.stored = db.stored
  BY <1>1, <1>2, RunTables
<1>4. W' = W
  BY <1>2 DEF W
<1> QED BY <1>2, <1>3, <1>4, OneIsOne DEF CaptureInv

(* A version activated or turned off changes which contract judges, and no *)
(* table.                                                                  *)
LEMMA ActiveOK ==
    ASSUME CaptureInv, NEW a \in W.agents, NEW g, AtMostOne(g),
           active' = [active EXCEPT ![a] = g],
           UNCHANGED <<world, clock, db, session, open, heartbeat, refused, past>>
    PROVE  CaptureInv'
<1>1. W' = W
  BY DEF W
<1>2. DOMAIN active' = W.agents /\ \A b \in W.agents : AtMostOne(active'[b])
  BY DEF CaptureInv
<1> QED BY <1>1, <1>2 DEF CaptureInv

(* An empty store holds nothing that could be wrong.                       *)
LEMMA CaptureInit == Init => CaptureInv
<1> SUFFICES ASSUME Init PROVE CaptureInv
  OBVIOUS
<1>1. /\ world \in DOMAIN Worlds /\ clock = 0 /\ open = FALSE /\ heartbeat = {} /\ refused = {}
      /\ active = [a \in W.agents |-> {}] /\ session = [first |-> {}, last |-> {}]
      /\ past = [delivered |-> {}, broken |-> FALSE]
  BY DEF Init
<1>2. /\ DOMAIN db = Tables /\ db.pending = <<>>
      /\ \A t \in Tables \ {"pending", "unreadable"} : db[t] = {}
  BY DEF Init, Tables
<1>3. /\ db.stored = {} /\ db.judged = {} /\ db.read = {} /\ db.calls = {} /\ db.schemas = {}
      /\ db.listings = {} /\ db.verdicts = {} /\ db.rows = {} /\ db.failed = {}
      /\ db.unattributed = {}
  BY <1>2 DEF Tables
<1>4. QueueOK(db.pending, clock, W.agents, JudgedIds(db.judged))
  <2>1. <<>> \in Seq({}) /\ DOMAIN <<>> = {}
    OBVIOUS
  <2>2. IsList(db.pending)
    BY <1>2, <2>1, SeqIsList
  <2>3. \A a : Cardinality(Queued(db.pending, a)) = 0
    BY <1>2, <2>1, FS_EmptySet DEF Queued
  <2>4. MAX_PENDING \in Nat
    BY CaptureBoundsAssumption
  <2> QED BY <1>2, <2>1, <2>2, <2>3, <2>4 DEF QueueOK
<1>5. CallsOK(db.calls, db.read)
  BY <1>3, FS_EmptySet DEF CallsOK
<1>6. /\ StoredOK(db.stored, CopiesOf(W), past.delivered) /\ JudgedOK(db.judged, past.delivered)
      /\ ReadOK(db.read, past.delivered) /\ PagesOK(db.schemas, db.listings, clock)
      /\ VerdictsOK(db.verdicts) /\ RowsOK(db.rows, JudgedIds(db.judged)) /\ MarksOK(db)
  BY <1>1, <1>3 DEF StoredOK, JudgedOK, ReadOK, PagesOK, VerdictsOK, RowsOK, MarksOK
<1>7. TablesOK(db, clock, W.agents, CopiesOf(W), past.delivered)
  BY <1>2, <1>4, <1>5, <1>6 DEF TablesOK
<1> QED BY <1>1, <1>7, OneIsOne DEF CaptureInv

(* Every step of the server and of the policy page keeps the tables as they*)
(* should be.                                                              *)
LEMMA CaptureStep == CaptureInv /\ [Next]_vars => CaptureInv'
<1> SUFFICES ASSUME CaptureInv, [Next]_vars PROVE CaptureInv'
  OBVIOUS
<1>1. CASE Tick
  <2>1. PICK t \in W.times : t > clock /\ clock' = t
    BY <1>1 DEF Tick
  <2>2. UNCHANGED <<world, db, session, open, active, heartbeat, refused, past>>
    BY <1>1 DEF Tick
  <2>3. clock \in Nat /\ world \in DOMAIN Worlds
        /\ TablesOK(db, clock, W.agents, CopiesOf(W), past.delivered)
    BY DEF CaptureInv
  <2>4. t \in Nat
    BY <2>3, CaptureWorldAssumption DEF W
  <2>5. TablesOK(db, t, W.agents, CopiesOf(W), past.delivered)
    BY <2>1, <2>3, <2>4, LaterTables
  <2>6. W' = W
    BY <2>2 DEF W
  <2> QED BY <2>1, <2>2, <2>4, <2>5, <2>6 DEF CaptureInv
<1>2. CASE Refuse
  <2>1. /\ UNCHANGED <<world, clock, db, session, open, active, heartbeat, past>>
        /\ refused' = {clock}
    BY <1>2 DEF Refuse
  <2>2. W' = W
    BY <2>1 DEF W
  <2> QED BY <2>1, <2>2, OneIsOne DEF CaptureInv
<1>3. ASSUME NEW batch \in W.batches, ReceiveFails(batch) PROVE CaptureInv'
  BY <1>3, ReceiveFailsOK
<1>4. ASSUME NEW batch \in W.batches, NEW fault, Receive(batch, fault) PROVE CaptureInv'
  BY <1>4, ReceiveOK
<1>5. ASSUME NEW fault, Heartbeat(fault) PROVE CaptureInv'
  BY <1>5, HeartbeatOK
<1>6. ASSUME NEW a \in W.agents, NEW contract, Activate(a, contract) PROVE CaptureInv'
  <2>1. /\ active' = [active EXCEPT ![a] = {[contract |-> contract, at |-> clock]}]
        /\ UNCHANGED <<world, clock, db, session, open, heartbeat, refused, past>>
    BY <1>6 DEF Activate
  <2> QED BY <2>1, OneIsOne, ActiveOK
<1>7. ASSUME NEW a \in W.agents, TurnOff(a) PROVE CaptureInv'
  <2>1. /\ active' = [active EXCEPT ![a] = {}]
        /\ UNCHANGED <<world, clock, db, session, open, heartbeat, refused, past>>
    BY <1>7 DEF TurnOff
  <2> QED BY <2>1, OneIsOne, ActiveOK
<1>8. CASE UNCHANGED vars
  <2>1. W' = W
    BY <1>8 DEF vars, W
  <2> QED BY <1>8, <2>1 DEF CaptureInv, vars
<1> QED BY <1>1, <1>2, <1>3, <1>4, <1>5, <1>6, <1>7, <1>8 DEF Next, SetContract, AddDataActions
-----------------------------------------------------------------------------
(* The inductive invariant holds in every world: table by table, what is   *)
(* stored, judged, read, listed, queued and counted (store.py's            *)
(* _ingest_request and what it calls under the one lock).                  *)
THEOREM CaptureInvariant == Spec => []CaptureInv
<1> QED BY CaptureInit, CaptureStep, PTL DEF Spec

(* The tables keep their types, an agent's queue its bound, and a row is of*)
(* a request judged for its agent (_queue_not_offered_locked).             *)
THEOREM TypesCaptured == Spec => []TypeOK
<1>1. ASSUME NEW s, AtMostOne(s) PROVE Cardinality(s) <= 1
  <2>1. PICK x : s \subseteq {x}
    BY <1>1 DEF AtMostOne
  <2>2. IsFiniteSet({x}) /\ Cardinality({x}) = 1
    BY FS_Singleton
  <2> QED BY <2>1, <2>2, FS_Subset
<1>2. CaptureInv => TypeOK
  <2> SUFFICES ASSUME CaptureInv PROVE TypeOK
    OBVIOUS
  <2>1. /\ DOMAIN db = Tables /\ MarksOK(db) /\ RowsOK(db.rows, JudgedIds(db.judged))
        /\ QueueOK(db.pending, clock, W.agents, JudgedIds(db.judged))
    BY DEF CaptureInv, TablesOK
  <2>2. \A a \in W.agents : /\ Cardinality(active[a]) <= 1
                           /\ Cardinality(Queued(db.pending, a)) <= MAX_PENDING
    BY <1>1, <2>1 DEF CaptureInv, QueueOK
  <2>3. \A p \in ToSet(db.pending) : p.due = p.called + Delay
    BY <2>1 DEF QueueOK, ToSet
  <2>4. \A row \in db.rows : \E j \in db.judged : j.agent = row.agent /\ j.copy.id = row.v.id
    BY <2>1 DEF RowsOK, JudgedIds
  <2>5. \A t \in {heartbeat, refused, db.failed, db.unattributed, session.first, session.last} :
           Cardinality(t) <= 1
    <3>1. AtMostOne(db.failed) /\ AtMostOne(db.unattributed)
      BY <2>1 DEF MarksOK, AtMostOne
    <3> QED BY <1>1, <3>1 DEF CaptureInv
  <2> QED BY <2>1, <2>2, <2>3, <2>4, <2>5 DEF TypeOK, CaptureInv
<1> QED BY <1>2, CaptureInvariant, PTL

(* What was posted without the token leaves nothing once the collector's   *)
(* own copy is in (add_interactions' replacement of a local row).          *)
THEOREM ForgeryIsUndone == Spec => []ForgeryLeavesNothing
<1>1. CaptureInv => ForgeryLeavesNothing
  BY DEF CaptureInv, TablesOK, StoredOK, JudgedOK, ForgeryLeavesNothing
<1> QED BY <1>1, CaptureInvariant, PTL

(* A call is flagged as not offered exactly when no listing that counts had*)
(* its tool, whatever came between call and verdict (_offered_locked).     *)
THEOREM NotOfferedIsRight == Spec => []NotOfferedRight
<1>1. CaptureInv => NotOfferedRight
  BY DEF CaptureInv, TablesOK, VerdictsOK, NotListed, NotOfferedRight
<1> QED BY <1>1, CaptureInvariant, PTL

(* The calls of a capture are all counted, each with what it sent          *)
(* undeclared, in rows that stay bounded (_upsert_call).                   *)
THEOREM CallsAreAccounted == Spec => []CallsAccounted
<1>1. CaptureInv => CallsAccounted
  <2> SUFFICES ASSUME CaptureInv PROVE CallsAccounted
    OBVIOUS
  <2> DEFINE rows(ref) == {row \in db.calls : row.ref = ref}
             read(ref) == {r \in db.read : r.ref = ref}
  <2>1. CallsOK(db.calls, db.read)
    BY DEF CaptureInv, TablesOK
  <2>2. ASSUME NEW ref \in {r.ref : r \in db.read}
        PROVE  /\ FoldSet(LAMBDA row, n : row.count + n, 0, rows(ref)) = Cardinality(read(ref))
               /\ Cardinality({row \in rows(ref) : row.tool \notin SpecialTools})
                     <= MAX_ROWS + ROW_SLACK
    BY <2>1 DEF CallsOK, CountOf, RowsOf, ReadOf, OrdinaryOf
  <2>3. ASSUME NEW ref \in {r.ref : r \in db.read}, NEW r \in read(ref)
        PROVE  \E row \in rows(ref) :
                  /\ row.class = r.call.class /\ r.call.undeclared \subseteq row.undeclared
                  /\ \/ row.tool = r.call.tool /\ row.endpoint = r.call.endpoint
                     \/ row.tool = OVERFLOW_TOOL
    BY <2>1, <2>3 DEF CallsOK, Holds
  <2> QED BY <2>2, <2>3 DEF CallsAccounted
<1> QED BY <1>1, CaptureInvariant, PTL
-----------------------------------------------------------------------------
(* The proposed rule                                                       *)

(* What the calls read of a window did of one tool, and the tools of which *)
(* they only did reads nobody but the tool's server vouches for.           *)
ActionsDone(calls, tool) == UNION {ActionsOf(k) : k \in {j \in calls : j.tool = tool}}

WeakTools(calls) ==
    {k.tool : k \in {j \in calls : j.weakRead /\ ActionsDone(calls, j.tool) = {"read"}}}

CallsIn(requests) == CalledTools(UNION {ToSet(WindowCalls(c)) : c \in requests})

(* A proposal of the calls read: their tools, but for the weak, are allowed*)
(* what they did; of the others, those that only read.                     *)
Proposes(p, calls) ==
    /\ p.rule.overrides = <<>>
    /\ \A t : (\E k \in calls : k.tool = t) /\ t \notin WeakTools(calls) =>
          \E e \in p.rule.allowed : e.tool = t /\ e.actions = ActionsDone(calls, t)
    /\ \A e \in p.rule.allowed :
          \/ /\ \E k \in calls : k.tool = e.tool
             /\ e.tool \notin WeakTools(calls) /\ e.actions = ActionsDone(calls, e.tool)
          \/ \A k \in calls : k.tool # e.tool
    /\ WeakTools(calls) \subseteq p.blocked
    /\ \A e \in p.rule.allowed : e.tool \notin p.blocked

(* _data_actions_proposal_locked is such a proposal.                       *)
LEMMA ProposalIs ==
    ASSUME NEW requests
    PROVE  Proposes(DataActionsProposal(requests), CallsIn(requests))
<1> DEFINE refs  == {CaptureRef(c) : c \in requests}
           calls == CallsIn(requests)
           weak  == WeakTools(calls)
           declared == {k \in {[tool |-> ShownTool(j), call |-> j] : j \in DeclaredCalls(refs)} :
                          JudgedTool(k.tool) /\ \A j \in calls : j.tool # k.tool}
           Judged(tool) ==
              [tool |-> tool,
               found |-> Classify(tool, UNION {ShownSchemas(db.schemas, refs, k.call) :
                                                 k \in {j \in declared : j.tool = tool}})]
           judged == {Judged(t) : t \in {k.tool : k \in declared}}
           OnlyRead(found) == found.actions = {"read"} /\ ~found.weakRead
           Called(t) == [tool |-> t, actions |-> ActionsDone(calls, t)]
           Listed(j) == [tool |-> j.tool, actions |-> {"read"}]
           tools == {k.tool : k \in calls}
           good == {i \in judged : OnlyRead(i.found)}
           bad  == {i \in judged : ~OnlyRead(i.found)}
           rule == [allowed |-> {Called(t) : t \in tools \ weak} \cup {Listed(j) : j \in good},
                    overrides |-> <<>>, flag |-> TRUE]
           p == [rule |-> rule, blocked |-> weak \cup {j.tool : j \in bad}]
<1>1. DataActionsProposal(requests) = p
  BY DEF DataActionsProposal, ActionsDone, WeakTools, CallsIn
<1>2. \A j \in judged : /\ \E t \in {k.tool : k \in declared} : j = Judged(t)
                        /\ \A k \in calls : k.tool # j.tool
  <2> SUFFICES ASSUME NEW t \in {k.tool : k \in declared}
               PROVE  \A k \in calls : k.tool # Judged(t).tool
    OBVIOUS
  <2>1. Judged(t).tool = t
    OBVIOUS
  <2>2. \A k \in declared : \A j \in calls : j.tool # k.tool
    OBVIOUS
  <2> HIDE DEF declared, calls, Judged
  <2> QED BY <2>1, <2>2
<1>3. \A t : Judged(t).tool = t
  OBVIOUS
<1> HIDE DEF declared, Judged, calls
<1>4. \A i, j \in judged : i.tool = j.tool => i = j
  BY <1>3
<1>5. \A t : Called(t).tool = t /\ Called(t).actions = ActionsDone(calls, t)
  OBVIOUS
<1>6. \A j : Listed(j).tool = j.tool /\ Listed(j).actions = {"read"}
  OBVIOUS
<1>7. \A j \in judged : \A k \in calls : k.tool # j.tool
  BY <1>2
<1>8. \A t \in weak : \E k \in calls : k.tool = t
  BY DEF WeakTools
<1> HIDE DEF judged, Called, Listed, weak, OnlyRead
<1>9. /\ p.rule.overrides = <<>> /\ p.blocked = weak \cup {j.tool : j \in bad}
      /\ p.rule.allowed = {Called(t) : t \in tools \ weak} \cup {Listed(j) : j \in good}
  OBVIOUS
<1> HIDE DEF p, rule
<1>10. ASSUME NEW t, \E k \in calls : k.tool = t, t \notin weak
       PROVE  \E e \in p.rule.allowed : e.tool = t /\ e.actions = ActionsDone(calls, t)
  <2>1. Called(t) \in p.rule.allowed
    BY <1>9, <1>10
  <2> QED BY <1>5, <2>1
<1>11. ASSUME NEW e \in p.rule.allowed
       PROVE  /\ \/ /\ \E k \in calls : k.tool = e.tool
                    /\ e.tool \notin weak /\ e.actions = ActionsDone(calls, e.tool)
                 \/ \A k \in calls : k.tool # e.tool
              /\ e.tool \notin p.blocked
  <2>1. CASE e \in {Called(t) : t \in tools \ weak}
    <3>1. PICK t \in tools \ weak : e = Called(t)
      BY <2>1
    <3>2. e.tool = t /\ e.actions = ActionsDone(calls, t) /\ \E k \in calls : k.tool = t
      BY <1>5, <3>1
    <3>3. t \notin {j.tool : j \in bad}
      BY <1>7, <3>2
    <3> QED BY <1>9, <3>1, <3>2, <3>3
  <2>2. CASE e \in {Listed(j) : j \in good}
    <3>1. PICK i \in good : e = Listed(i)
      BY <2>2
    <3>2. e.tool = i.tool /\ i \in judged /\ \A k \in calls : k.tool # i.tool
      BY <1>6, <1>7, <3>1
    <3>3. i.tool \notin weak
      BY <1>8, <3>2
    <3>4. i.tool \notin {j.tool : j \in bad}
      BY <1>4, <3>1
    <3> QED BY <1>9, <3>2, <3>3, <3>4
  <2> QED BY <1>9, <2>1, <2>2
<1>12. Proposes(p, calls)
  <2>1. weak \subseteq p.blocked
    BY <1>9
  <2> QED BY <1>9, <1>10, <1>11, <2>1 DEF Proposes, weak
<1> QED BY <1>1, <1>12 DEF calls

(* Such a proposal flags only weak reads of what it was made of, and allows*)
(* none of those.                                                          *)
LEMMA ProposalCovers ==
    ASSUME NEW p, NEW calls, Proposes(p, calls), NEW read, NEW id,
           CalledTools(ToSet(read)) \subseteq calls
    PROVE  /\ \A h \in EvaluateDataActions(p.rule, read, id) :
                 h.action = "unreadable" \/ (h.tool \in p.blocked /\ h.action = "read")
           /\ \A call \in CalledTools(ToSet(read)), e \in p.rule.allowed :
                 call.weakRead /\ e.tool = call.tool => e.actions # {"read"}
<1>1. \A k \in calls : ActionsOf(k) \subseteq ActionsDone(calls, k.tool)
  BY DEF ActionsDone
<1>2. \A t \in WeakTools(calls) : ActionsDone(calls, t) = {"read"}
  BY DEF WeakTools
<1>3. \A k \in calls : k.weakRead /\ ActionsDone(calls, k.tool) = {"read"}
                           => k.tool \in WeakTools(calls)
  BY DEF WeakTools
<1>4. ASSUME NEW h \in EvaluateDataActions(p.rule, read, id), h.action # "unreadable"
      PROVE  h.tool \in p.blocked /\ h.action = "read"
  <2>1. PICK n \in DOMAIN read :
           /\ h.action \in CallActions(p.rule, read[n]) /\ h.tool = read[n].tool
           /\ ~DataActionAllowed(p.rule, h.tool, h.action)
    BY HitIsACalls
  <2>2. DOMAIN p.rule.overrides = {}
    BY DEF Proposes
  <2>3. ~read[n].unreadable /\ JudgedTool(read[n].tool)
    BY <1>4, <2>1 DEF CallActions
  <2>4. h.action \in ActionsOf(read[n])
    BY <2>1, <2>2, <2>3 DEF CallActions, ActionsOf
  <2>5. read[n] \in calls
    BY <2>3 DEF CalledTools, ToSet
  <2>6. h.action \in ActionsDone(calls, h.tool)
    BY <1>1, <2>1, <2>4, <2>5
  <2>7. \A e \in p.rule.allowed : h.action \in e.actions => e.tool # h.tool
    BY <2>1 DEF DataActionAllowed, ToolGlobMatches
  <2>8. h.tool \in WeakTools(calls)
    BY <2>1, <2>5, <2>6, <2>7 DEF Proposes
  <2> QED BY <1>2, <2>6, <2>8 DEF Proposes
<1>5. ASSUME NEW call \in CalledTools(ToSet(read)), NEW e \in p.rule.allowed,
             call.weakRead, e.tool = call.tool, e.actions = {"read"}
      PROVE  FALSE
  <2>1. call \in calls
    OBVIOUS
  <2>2. e.tool \notin WeakTools(calls) /\ e.actions = ActionsDone(calls, e.tool)
    BY <1>5, <2>1 DEF Proposes
  <2> QED BY <1>3, <1>5, <2>1, <2>2
<1> QED BY <1>4, <1>5

-----------------------------------------------------------------------------
(* Nothing hidden is held                                                  *)

(* What holds of the tables, with what the rows tell of each judged request*)
(* under the versions in force, whose rules name only actions there are.   *)
HiddenInv ==
    /\ CaptureInv /\ HiddenOK(db, clock)
    /\ \A a \in W.agents : \A g \in active[a] : g.at \in Int /\ RulesOK(g.contract)

(* A version's rules are the ones its guardrail has.                       *)
LEMMA VersionsInForce == HiddenInv => VersionsOK
  BY DEF HiddenInv, VersionsOK, RulesOK, RuleOf

(* With nothing judged nothing is hidden.                                  *)
LEMMA HiddenInit == Init => HiddenInv
<1> SUFFICES ASSUME Init PROVE HiddenInv
  OBVIOUS
<1>1. active = [a \in W.agents |-> {}]
  BY DEF Init
<1>2. db.rows = {} /\ db.schemas = {} /\ db.lost = {} /\ db.judged = {}
  BY DEF Init, Tables
<1>3. HiddenOK(db, clock)
  BY <1>2 DEF HiddenOK, RowsNamed, SchemasOK, LostOK
<1> QED BY <1>1, <1>3, CaptureInit DEF HiddenInv

(* A version's rule is one of the world's, or the one proposed, which      *)
(* overrides nothing.                                                      *)
LEMMA ActivatedKinds ==
    ASSUME world \in DOMAIN Worlds
    PROVE  /\ \A contract \in W.contracts : RulesOK(contract)
           /\ \A requests : RulesOK({DataActionsProposal(requests).rule})
<1>1. \A contract \in W.contracts : RulesOK(contract)
  BY KindsAssumption, NotAKind DEF W, RulesOK, RuleKinds
<1>2. \A requests : DataActionsProposal(requests).rule.overrides = <<>>
  BY DEF DataActionsProposal
<1>3. DOMAIN <<>> = {}
  OBVIOUS
<1> QED BY <1>1, <1>2, <1>3 DEF RulesOK, RuleKinds

(* No step hides what a request did.                                       *)
LEMMA HiddenStep == HiddenInv /\ [Next]_vars => HiddenInv'
<1> SUFFICES ASSUME HiddenInv, [Next]_vars PROVE HiddenInv'
  OBVIOUS
<1>1. /\ CaptureInv /\ CaptureInv' /\ VersionsOK /\ HiddenOK(db, clock)
      /\ clock \in Nat /\ world \in DOMAIN Worlds /\ DOMAIN active = W.agents
      /\ TablesOK(db, clock, W.agents, CopiesOf(W), past.delivered)
  BY CaptureStep, VersionsInForce DEF HiddenInv, CaptureInv
<1>2. \A a \in W.agents : \A g \in active[a] : g.at \in Int /\ RulesOK(g.contract)
  BY DEF HiddenInv
<1>3. ASSUME UNCHANGED <<world, active>>, HiddenOK(db', clock') PROVE HiddenInv'
  <2>1. W' = W
    BY <1>3 DEF W
  <2> QED BY <1>1, <1>2, <1>3, <2>1 DEF HiddenInv
<1>4. ASSUME NEW d, NEW fault, DOMAIN d = Tables, IsList(d.pending), HiddenOK(d, clock)
      PROVE  HiddenOK(RunNotOffered(d, fault), clock)
  BY <1>1, <1>4, RunHides
<1>5. CASE Tick
  <2>1. clock' > clock /\ clock' \in Nat
    BY <1>1, <1>5, CaptureWorldAssumption DEF Tick, W
  <2>2. LostOK(db.failed, db.lost, clock')
    BY <1>1, <2>1 DEF HiddenOK, LostOK
  <2>3. HiddenOK(db, clock')
    BY <1>1, <2>2 DEF HiddenOK
  <2> QED BY <1>3, <1>5, <2>3 DEF Tick
<1>6. CASE Refuse
  BY <1>1, <1>3, <1>6 DEF Refuse
<1>7. ASSUME NEW batch \in W.batches, ReceiveFails(batch) PROVE HiddenInv'
  <2> DEFINE N     == Len(batch.copies) - 1
             after == Batched(batch, N, "none")
  <2>1. UNCHANGED <<world, clock, active>> /\ db' = after /\ batch.fails
    BY <1>7 DEF ReceiveFails, Post
  <2>2. N \in 0..Len(batch.copies)
    BY <1>1, <2>1, BatchIs
  <2>3. HiddenOK(after, clock)
    BY <1>1, <2>2, BatchedKeeps
  <2> QED BY <1>3, <2>1, <2>3
<1>8. ASSUME NEW batch \in W.batches, NEW fault, Receive(batch, fault) PROVE HiddenInv'
  <2> DEFINE N     == Len(batch.copies)
             after == Batched(batch, N, fault)
  <2>1. /\ UNCHANGED <<world, clock, active>>
        /\ db' = IF batch.authenticated THEN RunNotOffered(after, fault) ELSE after
    BY <1>8 DEF Receive, Post, Keep
  <2>2. N \in 0..N
    BY <1>1, BatchIs
  <2>3. HiddenOK(after, clock) /\ TablesOK(after, clock, W.agents, CopiesOf(W), Delivered(batch, N))
    BY <1>1, <2>2, BatchedKeeps
  <2> HIDE DEF after, N
  <2>4. DOMAIN after = Tables /\ IsList(after.pending)
    BY <2>3 DEF TablesOK, QueueOK
  <2>5. HiddenOK(db', clock)
    BY <1>4, <2>1, <2>3, <2>4
  <2> QED BY <1>3, <2>1, <2>5
<1>9. ASSUME NEW fault, Heartbeat(fault) PROVE HiddenInv'
  <2>1. UNCHANGED <<world, clock, active>> /\ db' = RunNotOffered(db, fault)
    BY <1>9 DEF Heartbeat
  <2>2. DOMAIN db = Tables /\ IsList(db.pending)
    BY <1>1 DEF TablesOK, QueueOK
  <2>3. HiddenOK(db', clock)
    BY <1>1, <1>4, <2>1, <2>2
  <2> QED BY <1>3, <2>1, <2>3
<1>10. ASSUME NEW a \in W.agents, NEW v, active' = [active EXCEPT ![a] = v],
              \A g \in v : g.at \in Int /\ RulesOK(g.contract), UNCHANGED <<world, clock, db>>
       PROVE  HiddenInv'
  <2>1. W' = W
    BY <1>10 DEF W
  <2>2. \A b \in W.agents : \A g \in active'[b] : g.at \in Int /\ RulesOK(g.contract)
    BY <1>1, <1>2, <1>10
  <2> QED BY <1>1, <1>10, <2>1, <2>2 DEF HiddenInv
<1>11. ASSUME NEW a \in W.agents, NEW contract, RulesOK(contract), Activate(a, contract)
       PROVE  HiddenInv'
  <2> DEFINE g == [contract |-> contract, at |-> clock]
  <2>1. active' = [active EXCEPT ![a] = {g}] /\ UNCHANGED <<world, clock, db>>
    BY <1>11 DEF Activate
  <2>2. g.at = clock /\ g.contract = contract
    OBVIOUS
  <2> HIDE DEF g
  <2>3. \A x \in {g} : x.at \in Int /\ RulesOK(x.contract)
    BY <1>1, <1>11, <2>2
  <2> QED BY <1>10, <2>1, <2>3
<1>12. ASSUME NEW a \in W.agents, SetContract(a) PROVE HiddenInv'
  BY <1>1, <1>11, <1>12, ActivatedKinds DEF SetContract
<1>13. ASSUME NEW a \in W.agents, AddDataActions(a) PROVE HiddenInv'
  BY <1>1, <1>11, <1>13, ActivatedKinds DEF AddDataActions
<1>14. ASSUME NEW a \in W.agents, TurnOff(a) PROVE HiddenInv'
  <2>1. active' = [active EXCEPT ![a] = {}] /\ UNCHANGED <<world, clock, db>>
    BY <1>14 DEF TurnOff
  <2> QED BY <1>10, <2>1
<1>15. CASE UNCHANGED vars
  BY <1>1, <1>3, <1>15 DEF vars
<1> QED BY <1>5, <1>6, <1>7, <1>8, <1>9, <1>12, <1>13, <1>14, <1>15 DEF Next

(* No request's calls past a bound, unreadable POST or undeclared arguments*)
(* are hidden behind a data_actions shown held, and no lost check is       *)
(* (_judge_request_locked, _state_locked, data_action_row_allowed).        *)
THEOREM NothingHiddenIsHeld == Spec => []NothingHiddenHeld
<1>1. HiddenInv => NothingHiddenHeld
  <2> SUFFICES ASSUME HiddenInv, NEW a \in On, NEW rule \in RuleOf(a), DataActionsHeld(a, rule)
               PROVE  /\ \A t \in db.lost : t < ActivatedAt(a)
                      /\ \A j \in {k \in db.judged : k.agent = a /\ k.at \notin db.lost} :
                            \A old \in UNION {g.contract : g \in j.under}, h \in HiddenActions(j) :
                               \/ DataActionAllowed(rule, h.tool, h.action)
                               \/ DataActionAllowed(old, h.tool, h.action)
    BY DEF NothingHiddenHeld
  <2>1. HiddenOK(db, clock) /\ a \in W.agents /\ active[a] # {}
    BY DEF HiddenInv, On
  <2>2. ActivatedAt(a) \in Int
    BY <2>1 DEF ActivatedAt, HiddenInv
  <2>3. ASSUME NEW t \in db.lost PROVE t < ActivatedAt(a)
    <3>1. PICK u \in db.failed : t \in Int /\ u \in Int /\ t <= u
      BY <2>1 DEF HiddenOK, LostOK
    <3>2. u < ActivatedAt(a)
      BY DEF DataActionsHeld
    <3> QED BY <2>2, <3>1, <3>2
  <2>4. ASSUME NEW j \in db.judged, j.agent = a, j.at \notin db.lost,
               NEW old \in UNION {g.contract : g \in j.under}, NEW h \in HiddenActions(j),
               ~DataActionAllowed(old, h.tool, h.action)
        PROVE  DataActionAllowed(rule, h.tool, h.action)
    <3>1. AllTold(j, db.rows)
      BY <2>1, <2>4 DEF HiddenOK
    <3>2. Tells(db.rows, a, h.tool, h.action, h.action = "upload")
      BY <2>4, <3>1 DEF AllTold
    <3>3. PICK row \in db.rows : /\ row.agent = a /\ row.v.tool = h.tool /\ row.v.action = h.action
                                 /\ (h.action = "upload") => row.v.undeclared
      BY <3>2 DEF Tells
    <3>4. DataActionRowAllowed(rule, row.v)
      BY <3>3 DEF DataActionsHeld
    <3>5. h.action \in {"upload", "unreadable"}
      BY HiddenParts
    <3>6. "unreadable" # "unclassified" /\ "upload" # "unclassified"
      OBVIOUS
    <3> QED BY <3>3, <3>4, <3>5, <3>6, NotAKind DEF DataActionRowAllowed
  <2> QED BY <2>3, <2>4
<1> QED BY <1>1, HiddenInit, HiddenStep, PTL DEF Spec

(* The proposed rule covers the calls it was made of: what its evaluation  *)
(* of them flags is blocked by name, or could not be read                  *)
(* (_data_actions_proposal_locked, evaluate_data_actions).                 *)
THEOREM ProposalCovered == Spec => []ProposalCoversWindow
<1>1. ProposalCoversWindow
  <2> SUFFICES ASSUME NEW requests, NEW p, p = DataActionsProposal(requests),
                      NEW c \in requests, NEW read, read = WindowCalls(c)
               PROVE  /\ \A h \in EvaluateDataActions(p.rule, read, c.id) :
                            h.action = "unreadable" \/ (h.tool \in p.blocked /\ h.action = "read")
                      /\ \A call \in CalledTools(ToSet(read)), e \in p.rule.allowed :
                            call.weakRead /\ e.tool = call.tool => e.actions # {"read"}
                      /\ \A e \in p.rule.allowed : e.tool \notin p.blocked
    <3>1. ASSUME NEW requests
          PROVE  \A e \in DataActionsProposal(requests).rule.allowed :
                    e.tool \notin DataActionsProposal(requests).blocked
      BY ProposalIs DEF Proposes
    <3>2. ASSUME NEW requests, NEW k \in {[id |-> c.id, calls |-> WindowCalls(c)] : c \in requests}
          PROVE  \E c \in requests : k.id = c.id /\ k.calls = WindowCalls(c)
      BY <3>2
    <3> QED BY <3>1, <3>2 DEF ProposalCoversWindow
  <2>1. Proposes(p, CallsIn(requests))
    BY ProposalIs
  <2>2. CalledTools(ToSet(read)) \subseteq CallsIn(requests)
    BY DEF CalledTools, CallsIn
  <2> HIDE DEF Proposes
  <2>3. \A e \in p.rule.allowed : e.tool \notin p.blocked
    BY <2>1 DEF Proposes
  <2> QED BY <2>1, <2>2, <2>3, ProposalCovers
<1> QED BY <1>1, PTL
=============================================================================
