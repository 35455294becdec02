-------------------------- MODULE ContractLifeProofs --------------------------
(***************************************************************************)
(* Theorems about ContractLife for every world it may begin from, any      *)
(* number of requests, versions and turns: a dismissed offer is not made   *)
(* again, a body with a hard signal leaves a row that only listing its     *)
(* host clears, Allow all and a narrowing do what their pages show, and an *)
(* exported policy opens and closes what the version does.                 *)
(***************************************************************************)
EXTENDS ContractLife, FiniteSetTheorems, TLAPS

(* What every version has.                                                 *)
RuleNames == {"uploads", "parametersOnly", "caps", "overrides", "budgets", "agentBudget",
              "deniedTools", "callHosts", "servers", "seenHosts", "seenServers", "files",
              "ports", "require"}

(* Versions are a sequence of contracts, and one in force is one of them.  *)
VersionsOK ==
    /\ versions \in Seq(ToSet(versions))
    /\ \A n \in DOMAIN versions : DOMAIN versions[n] = RuleNames
    /\ active \in 0..Len(versions)

(* A dismissed offer was recorded as shown in some version.                *)
RefusedWereShown ==
    \A offer \in refused :
        \/ offer.kind = "host" /\ offer.value \in SeenByAny.hosts
        \/ offer.kind = "mcp_server" /\ offer.value \in SeenByAny.servers

(* Requests are of the world's shapes; one is held only while a version is *)
(* in force, and judged under one.                                         *)
FromShape(q) ==
    \E s \in world.shapes : q.host = s.host /\ q.tools = s.tools /\ q.size = s.size

RequestsOK ==
    /\ world \in Worlds /\ kindsOn \in BOOLEAN
    /\ \A h \in held : FromShape(h.request) /\ active # 0
    /\ \A j \in judged : FromShape(j.request) /\ j.version \in DOMAIN versions

(* An uploads row keeps a host's bodies, one or more, or a tool's call.    *)
HostRow(d) == /\ d.form = "host" /\ "size" \in DOMAIN d
              /\ d.carries \in BOOLEAN /\ d.overflow \in BOOLEAN /\ IsFiniteSet(d.bodies)

RowOK(row) ==
    \/ row.rule = "uploads" /\ HostRow(row.detail)
    \/ row.rule = "uploads" /\ row.detail.form = "tool_call"
    \/ row.rule = "out_of_spec_calls" /\ row.detail.form \in {"host", "mcp_server"}

RowsOK == \A row \in rows : RowOK(row)

(* A body that counts as an upload under any version, and a row it is in:  *)
(* one no tool's call was recorded in.                                     *)
HardKind(k)   == k.step \in {STEP_NOT_REST, STEP_HARD} /\ k.kind # "parameters"
HardDetail(d) == /\ HostRow(d) /\ d.carries
                 /\ d.overflow \/ d.bodies = {} \/ \E k \in d.bodies : HardKind(k)

HardRows(host) ==
    /\ \E row \in rows : Item(row) = <<"uploads", host>>
    /\ \A row \in rows : Item(row) = <<"uploads", host>> => HardDetail(row.detail)

HardRequest(j) == /\ j.kind # {} /\ j.request.host # NoHost
                  /\ j.request.body = Unreadable \/ HardSignal(j.request.body)

HardCounted ==
    \A j \in judged : HardRequest(j) =>
        \/ HostAllowed(j.request.host, versions[j.version].uploads)
        \/ /\ <<"uploads", j.request.host>> \in {Item(h) : h \in j.hits}
           /\ ToolNamed(j.request.host) \/ HardRows(j.request.host)

LifeInv == VersionsOK /\ RefusedWereShown /\ RequestsOK /\ RowsOK /\ HardCounted
-----------------------------------------------------------------------------
(* A new version comes after the others and leaves them as they are.       *)
LEMMA NewVersion ==
    ASSUME VersionsOK, NEW r, DOMAIN r = RuleNames, CreateVersion(r)
    PROVE  /\ VersionsOK'
           /\ active' = Len(versions) + 1 /\ active' \in DOMAIN versions' /\ versions'[active'] = r
           /\ \A n \in DOMAIN versions : n \in DOMAIN versions' /\ versions'[n] = versions[n]
<1> DEFINE S == ToSet(versions) \cup {r}
<1>1. versions \in Seq(ToSet(versions)) /\ Len(versions) \in Nat /\ DOMAIN versions = 1..Len(versions)
  BY DEF VersionsOK
<1>2. versions \in Seq(S)
  <2>1. \A n \in 1..Len(versions) : versions[n] \in S
    BY <1>1
  <2> QED BY <1>1, <2>1
<1>3. /\ versions' = Append(versions, r) /\ Len(versions') = Len(versions) + 1
      /\ DOMAIN versions' = 1..(Len(versions) + 1)
      /\ versions'[Len(versions) + 1] = r
      /\ \A n \in 1..Len(versions) : versions'[n] = versions[n]
  <2> HIDE DEF S
  <2>1. versions' = Append(versions, r) /\ r \in S
    BY DEF CreateVersion, S
  <2> QED BY <1>1, <1>2, <2>1
<1>4. versions' \in Seq(ToSet(versions'))
  <2>1. versions' \in Seq(S)
    BY <1>2, <1>3
  <2>2. \A n \in 1..Len(versions') : versions'[n] \in ToSet(versions')
    BY <1>1, <1>3 DEF ToSet
  <2> QED BY <1>1, <1>3, <2>1, <2>2
<1>5. \A n \in DOMAIN versions' : DOMAIN versions'[n] = RuleNames
  <2>1. \A n \in DOMAIN versions' : n \in 1..Len(versions) \/ n = Len(versions) + 1
    BY <1>1, <1>3
  <2> QED BY <1>1, <1>3, <2>1 DEF VersionsOK
<1>6. active' = Len(versions) + 1
  BY DEF CreateVersion
<1>7. active' \in 0..Len(versions') /\ active' \in DOMAIN versions'
  BY <1>1, <1>3, <1>6
<1> QED BY <1>1, <1>3, <1>4, <1>5, <1>6, <1>7 DEF VersionsOK

(* What one stored row's item being allowed makes of a contract.           *)
LEMMA AllowedIsContract ==
    ASSUME NEW r, DOMAIN r = RuleNames, NEW row, RowOK(row)
    PROVE  DOMAIN WithItemAllowed(r, row) = RuleNames
<1>1. CASE row.detail.form = "tool_call"
  BY <1>1 DEF WithItemAllowed
<1>2. CASE row.detail.form = "mcp_server"
  BY <1>2 DEF WithItemAllowed
<1>3. CASE row.detail.form = "host" /\ row.rule = "out_of_spec_calls"
  BY <1>3 DEF WithItemAllowed
<1>4. CASE row.detail.form = "host" /\ row.rule = "uploads"
  BY <1>4 DEF WithItemAllowed
<1> QED BY <1>1, <1>2, <1>3, <1>4 DEF RowOK, HostRow
-----------------------------------------------------------------------------
(* Merging the bodies of a repeat into a row's keeps every hard one: it is *)
(* there, or the row is past its cap, or its kinds were not read.          *)
LEMMA MergeKeepsHard ==
    ASSUME NEW old, NEW new, HostRow(old), HostRow(new)
    PROVE  /\ HostRow(MergedDetail(old, new))
           /\ HardDetail(old) \/ HardDetail(new) => HardDetail(MergedDetail(old, new))
<1> DEFINE added  == {n \in new.bodies : \A k \in old.bodies : BodyKey(k) # BodyKey(n)}
           room   == MAX_ROW_BODIES - Cardinality(old.bodies)
           unread == KindsUnread(old) \/ KindsUnread(new)
           kept   == {MergedBody(k, new.bodies) : k \in old.bodies}
           bodies == kept \cup (IF Cardinality(added) <= room THEN added ELSE {})
           d      == MergedDetail(old, new)
<1>1. /\ IsFiniteSet(added) /\ Cardinality(added) \in Nat /\ room \in Int
      /\ IsFiniteSet(kept) /\ IsFiniteSet(bodies)
  <2>1. IsFiniteSet(new.bodies) /\ IsFiniteSet(old.bodies)
    BY DEF HostRow
  <2>2. IsFiniteSet(added) /\ Cardinality(added) \in Nat
    BY <2>1, FS_Subset, FS_CardinalityType
  <2>3. room \in Int
    BY <2>1, FS_CardinalityType, RowBodiesAssumption
  <2>4. IsFiniteSet(kept)
    <3> DEFINE f == [k \in old.bodies |-> MergedBody(k, new.bodies)]
    <3>1. f \in Surjection(old.bodies, kept)
      BY DEF Surjection
    <3> HIDE DEF f, kept
    <3> QED BY <2>1, <3>1, FS_Surjection
  <2>5. IsFiniteSet({})
    BY FS_EmptySet
  <2> QED BY <2>2, <2>3, <2>4, <2>5, FS_Union
<1>2. /\ d.form = "host" /\ "size" \in DOMAIN d /\ d.carries = (old.carries \/ new.carries)
      /\ d.bodies = IF unread THEN {} ELSE bodies
      /\ d.overflow = IF unread THEN FALSE
                      ELSE old.overflow \/ new.overflow \/ Cardinality(added) > room
  BY DEF MergedDetail, MergeRowBodies, HostRow
<1>3. HostRow(d)
  BY <1>1, <1>2, FS_EmptySet DEF HostRow
<1>4. ASSUME ~unread, NEW k \in old.bodies, HardKind(k) PROVE HardDetail(d) \/ ~d.carries
  <2>1. MergedBody(k, new.bodies) = k
    BY <1>4 DEF MergedBody, HardKind, STEP_NOT_REST, STEP_HARD, STEP_DRIP
  <2>2. k \in bodies
    BY <2>1
  <2> QED BY <1>2, <1>3, <1>4, <2>2 DEF HardDetail
<1>5. ASSUME ~unread, NEW n \in new.bodies, HardKind(n) PROVE HardDetail(d) \/ ~d.carries
  <2>1. CASE n \notin added
    <3>1. PICK k \in old.bodies : BodyKey(k) = BodyKey(n)
      BY <2>1
    <3>2. k.kind = n.kind /\ k.step = n.step
      BY <3>1 DEF BodyKey
    <3> QED BY <1>4, <1>5, <3>2 DEF HardKind
  <2>2. CASE n \in added /\ Cardinality(added) <= room
    BY <1>2, <1>3, <1>5, <2>2 DEF HardDetail
  <2>3. CASE ~(Cardinality(added) <= room)
    <3>1. Cardinality(added) > room
      BY <1>1, <2>3
    <3> QED BY <1>2, <1>3, <1>5, <3>1 DEF HardDetail
  <2> QED BY <2>1, <2>2, <2>3
<1>6. ASSUME HardDetail(old) \/ HardDetail(new) PROVE HardDetail(d)
  <2>1. d.carries
    BY <1>2, <1>6 DEF HardDetail
  <2>2. CASE unread
    BY <1>2, <1>3, <2>1, <2>2 DEF HardDetail
  <2>3. CASE ~unread /\ (old.overflow \/ new.overflow)
    BY <1>2, <1>3, <2>1, <2>3 DEF HardDetail
  <2>4. CASE ~unread /\ ~(old.overflow \/ new.overflow)
    <3>1. (\E k \in old.bodies : HardKind(k)) \/ (\E n \in new.bodies : HardKind(n))
      BY <1>6, <2>4 DEF HardDetail, KindsUnread
    <3> QED BY <1>4, <1>5, <2>1, <2>4, <3>1
  <2> QED BY <2>2, <2>3, <2>4
<1> QED BY <1>3, <1>6

(* The hits of a request: its host's for uploads, with its body; tools; and*)
(* calls nothing declared.                                                 *)
LEMMA Hits ==
    ASSUME NEW r, NEW q, NEW kind, NEW on \in BOOLEAN, NEW h \in EvaluateRequest(r, q, kind, on)
    PROVE  /\ h = [rule |-> h.rule, item |-> h.item, detail |-> h.detail]
           /\ \/ /\ h.rule = "uploads" /\ h.item = HostItem(q.host)
                 /\ h.detail = HostDetail(Reasons(r, q.host, CarriesBody(q.body), kind, q.size, on),
                                          CarriesBody(q.body), kind, q.size)
              \/ h.rule = "uploads" /\ h.detail = [form |-> "tool_call"]
              \/ /\ h.rule = "out_of_spec_calls" /\ h.item = HostItem(q.host)
                 /\ h.detail = [form |-> "host"]
              \/ h.rule = "out_of_spec_calls" /\ h.detail.form = "mcp_server"
BY DEF EvaluateRequest, Violation

(* A recorded row is an old one that was not hit, a hit, or the two merged;*)
(* and no old row and no hit is without one.                               *)
LEMMA RecordedRows ==
    ASSUME NEW old, NEW hits,
           \A h \in hits : h = [rule |-> h.rule, item |-> h.item, detail |-> h.detail]
    PROVE  /\ \A row \in Recorded(old, hits) :
                 \/ row \in old /\ \A h \in hits : Item(h) # Item(row)
                 \/ row \in hits /\ \A o \in old : Item(o) # Item(row)
                 \/ \E h \in hits, o \in old :
                       /\ Item(o) = Item(h)
                       /\ row = [h EXCEPT !.detail = MergedDetail(o.detail, h.detail)]
           /\ \A h \in hits : \E row \in Recorded(old, hits) : Item(row) = Item(h)
           /\ \A o \in old : \E row \in Recorded(old, hits) : Item(row) = Item(o)
<1> DEFINE Same(h) == {row \in old : Item(row) = Item(h)}
           New(h)  == IF Same(h) = {} THEN h
                      ELSE [h EXCEPT !.detail =
                               MergedDetail((CHOOSE row \in Same(h) : TRUE).detail, @)]
<1>1. Recorded(old, hits) = {row \in old : \A h \in hits : Item(h) # Item(row)}
                              \cup {New(h) : h \in hits}
  BY DEF Recorded
<1>2. ASSUME NEW h \in hits
      PROVE  /\ \/ New(h) = h /\ \A o \in old : Item(o) # Item(h)
                \/ \E o \in old : /\ Item(o) = Item(h)
                                  /\ New(h) = [h EXCEPT !.detail = MergedDetail(o.detail, h.detail)]
             /\ Item(New(h)) = Item(h)
  <2>1. CASE Same(h) = {}
    BY <2>1
  <2>2. CASE Same(h) # {}
    <3>1. PICK o \in old : Item(o) = Item(h) /\ o = (CHOOSE row \in Same(h) : TRUE)
      BY <2>2
    <3>2. New(h) = [h EXCEPT !.detail = MergedDetail(o.detail, h.detail)]
      BY <2>2, <3>1
    <3>3. New(h).rule = h.rule /\ New(h).item = h.item
      BY <3>2
    <3> QED BY <3>1, <3>2, <3>3 DEF Item
  <2> QED BY <2>1, <2>2
<1> HIDE DEF New
<1> QED BY <1>1, <1>2
-----------------------------------------------------------------------------
(* A body with a hard signal, or one that can't be read, is never taken    *)
(* for parameters, whatever the user answered; the drip check passes it by.*)
LEMMA HardIsUpload ==
    ASSUME NEW body, NEW host, NEW overrides, NEW spec, NEW r, NEW q, NEW clk,
           body = Unreadable \/ HardSignal(body)
    PROVE  /\ HardKind(RequestBodyKind(body, host, overrides, spec))
           /\ DripCheck(r, q, RequestBodyKind(body, host, overrides, spec), clk).kind
                = RequestBodyKind(body, host, overrides, spec)
<1> DEFINE k == RequestBodyKind(body, host, overrides, spec)
<1>1. k.kind # "parameters" /\ k.step \in {STEP_NOT_REST, STEP_HARD}
  <2>1. CASE body = Unreadable
    BY <2>1 DEF RequestBodyKind
  <2>2. CASE body # Unreadable /\ HardSignal(body)
    BY <2>2 DEF RequestBodyKind, Classify, Decided
  <2> QED BY <2>1, <2>2
<1> HIDE DEF k
<1>2. DripCheck(r, q, k, clk).kind = k
  BY <1>1 DEF DripCheck
<1> QED BY <1>1, <1>2 DEF HardKind, k

(* What judging one request of the world's shapes leaves.                  *)
LEMMA Judging ==
    ASSUME LifeInv, NEW q, FromShape(q), NEW clk, active # 0, Judge(q, clk),
           world' = world, versions' = versions
    PROVE  RowsOK' /\ HardCounted'
           /\ \A j \in judged' : FromShape(j.request) /\ j.version \in DOMAIN versions
<1> USE DEF LifeInv
<1> DEFINE check == DripCheck(Rules, q,
                       RequestBodyKind(q.body, q.host, Rules.overrides, q.specUploads), clk)
           read  == kindsOn /\ CarriesBody(q.body)
           kind  == IF read THEN {check.kind} ELSE {}
           found == EvaluateRequest(Rules, q, kind, kindsOn)
           mine  == HostDetail(Reasons(Rules, q.host, CarriesBody(q.body), kind, q.size, kindsOn),
                               CarriesBody(q.body), kind, q.size)
<1>0. PICK hits \in OnePerRow(found) :
         /\ rows' = Recorded(rows, hits)
         /\ judged' = judged \cup {[request |-> q, version |-> active, kind |-> kind,
                                    when |-> Clamped(q.at, clk), late |-> clk # clock,
                                    hits |-> hits]}
  BY DEF Judge
<1> DEFINE new == [request |-> q, version |-> active, kind |-> kind,
                   when |-> Clamped(q.at, clk), late |-> clk # clock, hits |-> hits]
<1>1. /\ rows' = Recorded(rows, hits) /\ judged' = judged \cup {new}
      /\ hits \subseteq found
      /\ \A k, l \in hits : Item(k) = Item(l) => k = l
      /\ \A h \in found : \E k \in hits :
            Item(k) = Item(h) /\ (h.detail.form = "host" => k.detail.form = "host")
  BY <1>0 DEF OnePerRow
<1>2. active \in DOMAIN versions
  BY DEF VersionsOK
<1>3. IsFiniteSet(kind) /\ HostRow(mine) /\ mine.carries = CarriesBody(q.body) /\ mine.bodies = kind
  <2>1. IsFiniteSet(kind)
    BY FS_EmptySet, FS_Singleton
  <2> HIDE DEF kind
  <2> QED BY <2>1 DEF HostRow, HostDetail, CarriesBody
<1> HIDE DEF check, kind
<1>4. \A h \in hits :
         /\ h = [rule |-> h.rule, item |-> h.item, detail |-> h.detail]
         /\ \/ h.rule = "uploads" /\ h.item = HostItem(q.host) /\ h.detail = mine
            \/ h.rule = "uploads" /\ h.detail = [form |-> "tool_call"]
            \/ h.rule = "out_of_spec_calls" /\ h.detail = [form |-> "host"]
            \/ h.rule = "out_of_spec_calls" /\ h.detail.form = "mcp_server"
  BY <1>1, Hits DEF RequestsOK
<1> HIDE DEF found, mine
<1>5. judged \subseteq judged' /\ (\A h \in hits : h.detail.form = "tool_call" => ToolNamed(h.item)')
  <2>1. new.hits = hits /\ new \in judged'
    BY <1>1
  <2> HIDE DEF new
  <2> QED BY <1>1, <2>1 DEF ToolNamed
<1>6. /\ \A row \in rows' :
            \/ row \in rows /\ \A h \in hits : Item(h) # Item(row)
            \/ row \in hits /\ \A o \in rows : Item(o) # Item(row)
            \/ \E h \in hits, o \in rows :
                  /\ Item(o) = Item(h)
                  /\ row = [h EXCEPT !.detail = MergedDetail(o.detail, h.detail)]
      /\ \A h \in hits : \E row \in rows' : Item(row) = Item(h)
      /\ \A o \in rows : \E row \in rows' : Item(row) = Item(o)
  BY <1>1, <1>4, RecordedRows
<1>7. ASSUME NEW h \in hits, NEW o \in rows, Item(o) = Item(h),
             NEW row, row = [h EXCEPT !.detail = MergedDetail(o.detail, h.detail)]
      PROVE  /\ row.rule = h.rule /\ row.item = h.item
             /\ row.detail = MergedDetail(o.detail, h.detail)
             /\ o.rule = h.rule /\ o.item = h.item /\ RowOK(o)
  BY <1>4, <1>7 DEF Item, RowsOK
(* A hit for the host of an uploads row is merged with the host's, if any. *)
<1>8. ASSUME NEW h \in hits, NEW o \in rows, Item(o) = Item(h), h.detail = mine, h.rule = "uploads"
      PROVE  /\ HostRow(MergedDetail(o.detail, mine))
             /\ HardDetail(o.detail) \/ HardDetail(mine) => HardDetail(MergedDetail(o.detail, mine))
  <2>1. HostRow(o.detail) \/ o.detail.form = "tool_call"
    BY <1>8 DEF Item, RowsOK, RowOK
  <2>2. CASE HostRow(o.detail)
    BY <1>3, <2>2, MergeKeepsHard
  <2>3. CASE o.detail.form = "tool_call"
    <3>1. MergedDetail(o.detail, mine) = mine
      BY <2>3 DEF MergedDetail
    <3>2. ~HardDetail(o.detail)
      BY <2>3 DEF HardDetail, HostRow
    <3> QED BY <1>3, <3>1, <3>2
  <2> QED BY <2>1, <2>2, <2>3
<1>9. RowsOK'
  <2> SUFFICES ASSUME NEW row \in rows' PROVE RowOK(row)'
    BY DEF RowsOK
  <2>1. RowOK(row)' <=> RowOK(row)
    BY DEF RowOK
  <2>2. ASSUME NEW h \in hits PROVE RowOK(h)
    BY <1>3, <1>4 DEF RowOK
  <2>3. ASSUME NEW h \in hits, NEW o \in rows, Item(o) = Item(h),
               row = [h EXCEPT !.detail = MergedDetail(o.detail, h.detail)]
        PROVE  RowOK(row)
    <3>1. CASE h.rule = "uploads" /\ h.detail = mine
      BY <1>7, <1>8, <2>3, <3>1 DEF RowOK
    <3>2. CASE h.detail # mine \/ h.rule # "uploads"
      <4>1. h.detail.form # "host" \/ "size" \notin DOMAIN h.detail
        BY <1>4, <3>2
      <4>2. row.detail = h.detail /\ row.rule = h.rule /\ row.item = h.item
        BY <1>7, <2>3, <4>1 DEF MergedDetail
      <4> QED BY <2>2, <4>2 DEF RowOK
    <3> QED BY <3>1, <3>2
  <2> QED BY <1>6, <2>1, <2>2, <2>3 DEF RowsOK
(* Rows that a hard body made stay so while what is merged into them is of *)
(* the host.                                                               *)
<1>10. ASSUME NEW host, ~ToolNamed(host)', HardRows(host)
       PROVE  HardRows(host)'
  <2>2. \E row \in rows' : Item(row) = <<"uploads", host>>
    BY <1>6, <1>10 DEF HardRows
  <2>3. ASSUME NEW row \in rows', Item(row) = <<"uploads", host>> PROVE HardDetail(row.detail)
    <3>1. CASE row \in rows
      BY <1>10, <2>3, <3>1 DEF HardRows
    <3>2. CASE row \in hits /\ \A o \in rows : Item(o) # Item(row)
      BY <1>10, <2>3, <3>2 DEF HardRows
    <3>3. ASSUME NEW h \in hits, NEW o \in rows, Item(o) = Item(h),
                 row = [h EXCEPT !.detail = MergedDetail(o.detail, h.detail)]
          PROVE  HardDetail(row.detail)
      <4>1. Item(o) = <<"uploads", host>> /\ h.rule = "uploads" /\ h.item = host
        BY <1>7, <2>3, <3>3 DEF Item
      <4>2. h.detail = mine
        BY <1>4, <1>5, <1>10, <4>1
      <4>3. HardDetail(o.detail)
        BY <1>10, <4>1 DEF HardRows
      <4> QED BY <1>7, <1>8, <3>3, <4>1, <4>2, <4>3
    <3> QED BY <1>6, <3>1, <3>2, <3>3
  <2> QED BY <2>2, <2>3 DEF HardRows
(* The request itself.                                                     *)
<1>11. ASSUME HardRequest(new), ~HostAllowed(q.host, Rules.uploads)
       PROVE  <<"uploads", q.host>> \in {Item(h) : h \in hits} /\ HardRows(q.host)'
  <2>1. /\ kind # {} /\ q.host # NoHost /\ (q.body = Unreadable \/ HardSignal(q.body))
        /\ HostItem(q.host) = q.host
    BY <1>11 DEF HardRequest, HostItem
  <2>2. kindsOn /\ CarriesBody(q.body) /\ kind = {check.kind} /\ HardKind(check.kind)
    BY <2>1, HardIsUpload DEF kind, check
  <2>3. BodyCounts(check.kind, q.host, Rules)
    BY <2>2 DEF BodyCounts, HardKind, Overridable, STEP_NOT_REST, STEP_HARD, STEP_OVERRIDE,
                STEP_SPEC, STEP_SHAPE, STEP_OTHER, STEP_DRIP
  <2>4. ~HostAllowed(q.host, UploadHosts(Rules, kindsOn))
    <3>1. UploadHosts(Rules, kindsOn) = Rules.uploads
      BY <2>2 DEF UploadHosts
    <3> QED BY <1>11, <3>1
  <2>5. "body_to_unlisted_host"
           \in Reasons(Rules, q.host, CarriesBody(q.body), kind, q.size, kindsOn)
    BY <2>2, <2>3, <2>4 DEF Reasons
  <2> DEFINE h == [rule |-> "uploads", item |-> q.host, detail |-> mine]
  <2>6. h \in found
    BY <2>1, <2>5 DEF found, mine, EvaluateRequest, Violation
  <2>7. HardDetail(mine)
    BY <1>3, <2>2 DEF HardDetail
  <2>8. Item(h) = <<"uploads", q.host>>
    BY DEF Item
  <2>9. PICK k \in hits : Item(k) = Item(h) /\ k.detail.form = "host"
    BY <1>1, <1>3, <2>6 DEF HostRow
  <2> HIDE DEF h
  <2>10. k.detail = mine
    BY <1>4, <2>8, <2>9 DEF Item
  <2>11. ASSUME NEW row \in rows', Item(row) = <<"uploads", q.host>> PROVE HardDetail(row.detail)
    <3>1. CASE row \in hits
      BY <1>1, <2>7, <2>8, <2>9, <2>10, <2>11, <3>1
    <3>2. ASSUME NEW g \in hits, NEW o \in rows, Item(o) = Item(g),
                 row = [g EXCEPT !.detail = MergedDetail(o.detail, g.detail)]
          PROVE  HardDetail(row.detail)
      <4>1. Item(g) = <<"uploads", q.host>> /\ g.rule = "uploads"
        BY <1>7, <2>11, <3>2 DEF Item
      <4>2. g.detail = mine
        BY <1>1, <2>8, <2>9, <2>10, <4>1
      <4> QED BY <1>7, <1>8, <2>7, <3>2, <4>1, <4>2
    <3>3. ~(\A g \in hits : Item(g) # Item(row))
      BY <2>8, <2>9, <2>11
    <3> QED BY <1>6, <3>1, <3>2, <3>3
  <2>12. \E row \in rows' : Item(row) = <<"uploads", q.host>>
    BY <1>6, <2>8, <2>9
  <2> QED BY <2>8, <2>9, <2>11, <2>12 DEF HardRows
<1>12. HardCounted'
  <2> SUFFICES ASSUME NEW j \in judged', HardRequest(j)
               PROVE  \/ HostAllowed(j.request.host, versions[j.version].uploads)
                      \/ /\ <<"uploads", j.request.host>> \in {Item(h) : h \in j.hits}
                         /\ ToolNamed(j.request.host)' \/ HardRows(j.request.host)'
    BY DEF HardCounted
  <2>1. CASE j = new
    <3>1. j.request = q /\ j.version = active /\ j.hits = hits
      BY <2>1
    <3>2. HardRequest(new)
      BY <2>1
    <3> HIDE DEF new
    <3> QED BY <1>11, <3>1, <3>2 DEF Rules
  <2>2. CASE j \in judged
    <3>1. ToolNamed(j.request.host) => ToolNamed(j.request.host)'
      BY <1>5 DEF ToolNamed
    <3> QED BY <1>10, <2>2, <3>1 DEF HardCounted
  <2> QED BY <1>1, <2>1, <2>2
<1>13. \A j \in judged' : FromShape(j.request) /\ j.version \in DOMAIN versions
  BY <1>1, <1>2 DEF RequestsOK
<1> QED BY <1>9, <1>12, <1>13
-----------------------------------------------------------------------------
(* A step that makes a version of a contract, and leaves the rest alone but*)
(* for an offer refused and recorded in it.                                *)
LEMMA MakesVersion ==
    ASSUME LifeInv, NEW r, DOMAIN r = RuleNames, CreateVersion(r), UNCHANGED Around,
           \A offer \in refused' \ refused :
              \/ offer.kind = "host" /\ offer.value \in r.seenHosts
              \/ offer.kind = "mcp_server" /\ offer.value \in r.seenServers
    PROVE  LifeInv'
<1> USE DEF LifeInv
<1>1. /\ VersionsOK' /\ active' = Len(versions) + 1
      /\ active' \in DOMAIN versions' /\ versions'[active'] = r
      /\ \A n \in DOMAIN versions : n \in DOMAIN versions' /\ versions'[n] = versions[n]
  BY NewVersion
<1>2. /\ world' = world /\ kindsOn' = kindsOn /\ rows' = rows /\ judged' = judged /\ held' = held
      /\ Len(versions) \in Nat
  BY DEF Around, checkVars, VersionsOK
<1>3. RefusedWereShown'
  <2>1. SeenByAny.hosts \subseteq SeenByAny'.hosts /\ SeenByAny.servers \subseteq SeenByAny'.servers
    BY <1>1 DEF SeenByAny
  <2>2. r.seenHosts \subseteq SeenByAny'.hosts /\ r.seenServers \subseteq SeenByAny'.servers
    BY <1>1 DEF SeenByAny
  <2> QED BY <2>1, <2>2 DEF RefusedWereShown
<1>4. RequestsOK'
  BY <1>1, <1>2 DEF RequestsOK, FromShape
<1>5. RowsOK'
  BY <1>2 DEF RowsOK, RowOK
<1>6. HardCounted'
  BY <1>1, <1>2 DEF HardCounted, HardRows, RequestsOK, ToolNamed
<1> QED BY <1>1, <1>3, <1>4, <1>5, <1>6

(* A step that makes no version and judges nothing.                        *)
LEMMA KeepsVersions ==
    ASSUME LifeInv, world' = world, kindsOn' \in BOOLEAN, versions' = versions,
           active' \in 0..Len(versions), rows' = rows, judged' = judged, refused' = refused,
           \A h \in held' : FromShape(h.request) /\ active' # 0
    PROVE  LifeInv'
<1> USE DEF LifeInv
<1>1. VersionsOK'
  BY DEF VersionsOK
<1>2. RefusedWereShown'
  BY DEF RefusedWereShown, SeenByAny
<1>3. RequestsOK'
  BY DEF RequestsOK, FromShape
<1>4. RowsOK'
  BY DEF RowsOK, RowOK
<1>5. HardCounted'
  BY DEF HardCounted, HardRows, ToolNamed
<1> QED BY <1>1, <1>2, <1>3, <1>4, <1>5

(* A step that judges a request.                                           *)
LEMMA Judges ==
    ASSUME LifeInv, NEW q, FromShape(q), NEW clk, active # 0, Judge(q, clk),
           world' = world, kindsOn' = kindsOn, versions' = versions, active' = active,
           refused' = refused, held' \subseteq held
    PROVE  LifeInv'
<1> USE DEF LifeInv
<1>1. RowsOK' /\ HardCounted' /\ \A j \in judged' : FromShape(j.request) /\ j.version \in DOMAIN versions
  BY Judging
<1>2. VersionsOK'
  BY DEF VersionsOK
<1>3. RefusedWereShown'
  BY DEF RefusedWereShown, SeenByAny
<1>4. RequestsOK'
  BY <1>1 DEF RequestsOK, FromShape
<1> QED BY <1>1, <1>2, <1>3, <1>4

(* Without a policy, a row or a request the invariant holds.               *)
LEMMA InitOK == Init => LifeInv
<1> SUFFICES ASSUME Init PROVE LifeInv
  OBVIOUS
<1>1. VersionsOK
  BY DEF Init, VersionsOK, ToSet
<1>2. RefusedWereShown
  BY DEF Init, RefusedWereShown
<1>3. RequestsOK
  BY WorldAssumption DEF Init, RequestsOK
<1>4. RowsOK /\ HardCounted
  BY DEF Init, RowsOK, HardCounted
<1> QED BY <1>1, <1>2, <1>3, <1>4 DEF LifeInv

(* A request arrives, and is judged, too old to be, or held.               *)
LEMMA RequestSteps ==
    ASSUME LifeInv, NEW shape \in world.shapes, NEW lag,
           Arrive(shape, lag) \/ ArriveHeld(shape, lag)
    PROVE  LifeInv'
<1> USE DEF LifeInv
<1> DEFINE q == Captured(shape, lag)
<1>1. FromShape(q)
  BY DEF FromShape, Captured
<1>2. active \in 0..Len(versions) /\ kindsOn \in BOOLEAN
  BY DEF VersionsOK, RequestsOK
<1> HIDE DEF q
<1>3. CASE Arrive(shape, lag)
  <2>1. CASE UNCHANGED checkVars
    BY <1>2, <1>3, <2>1, KeepsVersions DEF Arrive, checkVars, policyVars, RequestsOK
  <2>2. CASE active # 0 /\ Judge(q, clock)
    BY <1>1, <1>3, <2>2, Judges DEF Arrive, policyVars
  <2> QED BY <1>3, <2>1, <2>2 DEF Arrive, q
<1>4. CASE ArriveHeld(shape, lag)
  <2>1. \A g \in held' : FromShape(g.request) /\ active # 0
    BY <1>1, <1>4 DEF ArriveHeld, RequestsOK, q
  <2> QED BY <1>2, <1>4, <2>1, KeepsVersions DEF ArriveHeld, checkVars, policyVars
<1> QED BY <1>3, <1>4

(* A held request is judged or dropped.                                    *)
LEMMA ReleaseOK ==
    ASSUME LifeInv, NEW h \in held, NEW denied \in BOOLEAN, Release(h, denied)
    PROVE  LifeInv'
<1> USE DEF LifeInv
<1>1. /\ FromShape(h.request) /\ active # 0 /\ held' \subseteq held
      /\ active \in 0..Len(versions) /\ kindsOn \in BOOLEAN
  BY DEF Release, VersionsOK, RequestsOK
<1>2. CASE UNCHANGED checkVars
  BY <1>1, <1>2, KeepsVersions DEF Release, checkVars, policyVars, RequestsOK
<1>3. CASE Judge(h.request, h.at)
  BY <1>1, <1>3, Judges DEF Release, policyVars
<1> QED BY <1>2, <1>3 DEF Release

(* The contract in force is one, and what is made of it is one.            *)
LEMMA RulesOK ==
    ASSUME LifeInv, active # 0
    PROVE  DOMAIN Rules = RuleNames
BY DEF LifeInv, VersionsOK, Rules

(* Adopting the proposal makes the first version.                          *)
LEMMA AdoptOK ==
    ASSUME LifeInv, NEW edit, Adopt(edit)
    PROVE  LifeInv'
<1> DEFINE p == ProposedRules(world.bundle, Baseline, policy, kindsOn)
<1>1. DOMAIN p = RuleNames
  BY DEF ProposedRules, RuleNames
<1> HIDE DEF p
<1>2. DOMAIN Edited(p, edit) = RuleNames
  BY <1>1 DEF Edited
<1>3. CreateVersion(Edited(p, edit)) /\ UNCHANGED Around /\ refused' = refused
  BY DEF Adopt, p, Unchecked
<1> QED BY <1>2, <1>3, MakesVersion

(* An edit makes a new version, which keeps the hosts and servers already  *)
(* seen.                                                                   *)
LEMMA EditOK ==
    ASSUME LifeInv, NEW edit, Edit(edit)
    PROVE  LifeInv'
<1> DEFINE e == Edited(Rules, edit)
           r == [e EXCEPT !.seenHosts = @ \cup Rules.seenHosts,
                          !.seenServers = @ \cup Rules.seenServers]
<1>1. DOMAIN e = RuleNames
  BY RulesOK DEF Edit, Edited
<1>2. CreateVersion(r) /\ UNCHANGED Around /\ refused' = refused
  BY DEF Edit, Unchecked
<1> HIDE DEF e
<1>3. DOMAIN r = RuleNames
  BY <1>1
<1> HIDE DEF r
<1> QED BY <1>2, <1>3, MakesVersion

(* An Allow, of one row or of all, makes a new version.                    *)
LEMMA AllowOK ==
    ASSUME LifeInv,
           \/ \E row \in rows : AllowRow(row)
           \/ active # 0 /\ \E chosen : AllowRows(chosen)
    PROVE  LifeInv'
<1>1. ASSUME NEW row \in rows, AllowRow(row) PROVE LifeInv'
  <2>1. DOMAIN WithItemAllowed(Rules, row) = RuleNames
    BY <1>1, RulesOK, AllowedIsContract DEF AllowRow, LifeInv, RowsOK
  <2>2. /\ CreateVersion(WithItemAllowed(Rules, row))
        /\ UNCHANGED Around /\ refused' = refused
    BY <1>1 DEF AllowRow, Unchecked
  <2> QED BY <2>1, <2>2, MakesVersion
<1>2. ASSUME active # 0, NEW chosen, AllowRows(chosen) PROVE LifeInv'
  <2>1. DOMAIN RowsAllowed(chosen) = RuleNames
    <3>1. \A a, b, c, d, e : DOMAIN [Rules EXCEPT !.uploads = a, !.parametersOnly = b,
                                       !.deniedTools = c, !.callHosts = d, !.servers = e] = RuleNames
      BY <1>2, RulesOK
    <3> QED BY <3>1 DEF RowsAllowed
  <2>2. CreateVersion(RowsAllowed(chosen)) /\ UNCHANGED Around /\ refused' = refused
    BY <1>2 DEF AllowRows, Unchecked
  <2> QED BY <2>1, <2>2, MakesVersion
<1> QED BY <1>1, <1>2

(* Narrowing the upload hosts makes a new version, and judges nothing      *)
(* again.                                                                  *)
LEMMA NarrowOK ==
    ASSUME LifeInv, NEW hosts, NarrowUploads(hosts)
    PROVE  LifeInv'
<1>1. DOMAIN Narrowed(Rules, hosts) = RuleNames
  BY RulesOK DEF NarrowUploads, Narrowed
<1>2. CreateVersion(Narrowed(Rules, hosts)) /\ UNCHANGED Around /\ refused' = refused
  BY DEF NarrowUploads, Unchecked
<1> QED BY <1>1, <1>2, MakesVersion

(* A choice is recorded in the version it makes, whichever it is.          *)
LEMMA ChooseOK ==
    ASSUME LifeInv, NEW offer, NEW allow \in BOOLEAN, ChooseDeclared(offer, allow)
    PROVE  LifeInv'
<1> DEFINE r == WithDeclaredChoice(Rules, offer, allow)
<1>1. active # 0 /\ offer.kind \in {"host", "mcp_server"}
  BY DEF ChooseDeclared, Offers, DeclaredOffers
<1>2. /\ DOMAIN r = RuleNames
      /\ \/ offer.kind = "host" /\ offer.value \in r.seenHosts
         \/ offer.kind = "mcp_server" /\ offer.value \in r.seenServers
  <2>1. DOMAIN Rules = RuleNames /\ "seenHosts" \in RuleNames /\ "seenServers" \in RuleNames
    BY <1>1, RulesOK DEF RuleNames
  <2>2. CASE offer.kind = "host"
    BY <2>1, <2>2 DEF WithDeclaredChoice
  <2>3. CASE offer.kind = "mcp_server"
    BY <2>1, <2>3 DEF WithDeclaredChoice
  <2> QED BY <1>1, <2>2, <2>3
<1>3. CreateVersion(r) /\ UNCHANGED Around /\ refused' \subseteq refused \cup {offer}
  BY DEF ChooseDeclared, Unchecked
<1> HIDE DEF r
<1> QED BY <1>2, <1>3, MakesVersion

(* Changing the required containment makes a new version.                  *)
LEMMA RequireOK ==
    ASSUME LifeInv, NEW level, RequireContainment(level)
    PROVE  LifeInv'
<1>1. DOMAIN [Rules EXCEPT !.require = {level}] = RuleNames
  BY RulesOK DEF RequireContainment
<1>2. CreateVersion([Rules EXCEPT !.require = {level}]) /\ UNCHANGED Around /\ refused' = refused
  BY DEF RequireContainment, Unchecked
<1> QED BY <1>1, <1>2, MakesVersion

(* Nothing else makes a version or judges anything.                        *)
LEMMA OtherSteps ==
    ASSUME LifeInv,
           \/ \E host : DismissNarrow(host)
           \/ \E n \in DOMAIN versions : Switch(n)
           \/ TurnOff \/ Restart \/ Tick \/ UNCHANGED vars
           \/ \E asp : NewAsp(asp)
           \/ \E p : ImportPolicy(p)
    PROVE  LifeInv'
<1>1. /\ active \in 0..Len(versions) /\ Len(versions) \in Nat /\ DOMAIN versions = 1..Len(versions)
      /\ kindsOn \in BOOLEAN /\ \A h \in held : FromShape(h.request) /\ active # 0
  BY DEF LifeInv, VersionsOK, RequestsOK
<1>2. ASSUME NEW host, DismissNarrow(host) PROVE LifeInv'
  BY <1>1, <1>2, KeepsVersions DEF DismissNarrow, Around, policyVars, checkVars
<1>3. ASSUME NEW n \in DOMAIN versions, Switch(n) PROVE LifeInv'
  BY <1>1, <1>3, KeepsVersions DEF Switch, Around, checkVars
<1>4. CASE TurnOff
  BY <1>1, <1>4, KeepsVersions DEF TurnOff, checkVars
<1>5. CASE Restart
  BY <1>1, <1>5, KeepsVersions DEF Restart, policyVars, checkVars
<1>6. CASE Tick
  BY <1>1, <1>6, KeepsVersions DEF Tick, policyVars, checkVars
<1>7. CASE UNCHANGED vars
  BY <1>1, <1>7, KeepsVersions DEF vars
<1>8. ASSUME NEW asp, NewAsp(asp) PROVE LifeInv'
  BY <1>1, <1>8, KeepsVersions DEF NewAsp, policyVars, checkVars
<1>9. ASSUME NEW p, ImportPolicy(p) PROVE LifeInv'
  BY <1>1, <1>9, KeepsVersions DEF ImportPolicy, policyVars, checkVars
<1> QED BY <1>2, <1>3, <1>4, <1>5, <1>6, <1>7, <1>8, <1>9

(* Every step of the policy page and of the request checks keeps the       *)
(* invariant.                                                              *)
LEMMA StepOK == LifeInv /\ [Next]_vars => LifeInv'
<1> SUFFICES ASSUME LifeInv, [Next]_vars PROVE LifeInv'
  OBVIOUS
<1>1. ASSUME NEW shape \in world.shapes, NEW lag,
             Arrive(shape, lag) \/ ArriveHeld(shape, lag)
      PROVE  LifeInv'
  BY <1>1, RequestSteps
<1>2. ASSUME NEW h \in held, NEW denied \in BOOLEAN, Release(h, denied) PROVE LifeInv'
  BY <1>2, ReleaseOK
<1>3. ASSUME NEW edit, Adopt(edit) \/ Edit(edit) PROVE LifeInv'
  BY <1>3, AdoptOK, EditOK
<1>4. CASE \/ \E row \in rows : AllowRow(row)
           \/ active # 0 /\ \E chosen \in AllowableSets : AllowRows(chosen)
  BY <1>4, AllowOK
<1>5. ASSUME NEW hosts, NarrowUploads(hosts) PROVE LifeInv'
  BY <1>5, NarrowOK
<1>6. ASSUME NEW offer, NEW allow \in BOOLEAN, ChooseDeclared(offer, allow) PROVE LifeInv'
  BY <1>6, ChooseOK
<1>7. ASSUME NEW level, RequireContainment(level) PROVE LifeInv'
  BY <1>7, RequireOK
<1>8. CASE \/ active # 0 /\ \E host \in Rules.uploads : DismissNarrow(host)
           \/ \E n \in DOMAIN versions : Switch(n)
           \/ TurnOff \/ Restart \/ Tick \/ UNCHANGED vars
           \/ \E asp \in world.asps : NewAsp(asp)
           \/ \E p \in world.policies : ImportPolicy(p)
  BY <1>8, OtherSteps
<1> QED BY <1>1, <1>2, <1>3, <1>4, <1>5, <1>6, <1>7, <1>8 DEF Next
-----------------------------------------------------------------------------
(* The parts hold together in every state of every agent's life.           *)
THEOREM LifeInvariant == Spec => []LifeInv
<1> QED BY InitOK, StepOK, PTL DEF Spec

(* A declared offer once dismissed is not made again, whichever version is *)
(* in force and whatever ASPs came since (choose_declared).                *)
THEOREM OfferedAtMostOnce == Spec => []OfferedOnce
<1>1. RefusedWereShown => OfferedOnce
  <2> SUFFICES ASSUME RefusedWereShown, NEW offer \in refused, offer \in Offers PROVE FALSE
    BY DEF OfferedOnce
  <2>1. offer \in DeclaredOffers(Rules, bundle, SeenByAny.hosts, SeenByAny.servers)
    BY DEF Offers
  <2> QED BY <2>1 DEF RefusedWereShown, DeclaredOffers
<1>2. LifeInv => OfferedOnce
  BY <1>1 DEF LifeInv
<1> QED BY <1>2, LifeInvariant, PTL

(* A body with a hard signal leaves a row that counts under every version  *)
(* which does not list its host for uploads (body_kinds.py, step 1).       *)
THEOREM FilesCount == Spec => []FilesAlwaysCount
<1>1. ASSUME LifeInv, NEW row \in rows, NEW n \in DOMAIN versions, NEW host,
             Item(row) = <<"uploads", host>>, HardDetail(row.detail),
             ~HostAllowed(host, UploadHosts(versions[n], kindsOn))
      PROVE  ~ItemAllowed(versions[n], row, kindsOn)
  <2> DEFINE r == versions[n]
             d == row.detail
  <2>1. row.rule = "uploads" /\ row.item = host /\ d.form = "host" /\ d.carries
    BY <1>1 DEF Item, HardDetail, HostRow
  <2>2. \A k : HardKind(k) => BodyCounts(k, host, r)
    BY DEF HardKind, BodyCounts, STEP_NOT_REST, STEP_HARD, STEP_DRIP, Overridable,
           STEP_OVERRIDE, STEP_SPEC, STEP_SHAPE, STEP_OTHER
  <2>3. RowUploads(d, host, r, kindsOn)
    BY <1>1, <2>2 DEF RowUploads, HardDetail
  <2>4. /\ d.form # "tool_call" /\ d.form # "mcp_server" /\ row.rule # "out_of_spec_calls"
        /\ ~HostAllowed(row.item, UploadHosts(r, kindsOn))
    BY <1>1, <2>1
  <2>5. CASE row.item = UNKNOWN_HOST
    <3>1. ItemAllowed(r, row, kindsOn) = FALSE
      BY <2>1, <2>4, <2>5 DEF ItemAllowed
    <3> QED BY <3>1
  <2>6. CASE row.item # UNKNOWN_HOST
    BY <2>1, <2>3, <2>4, <2>6 DEF ItemAllowed
  <2> QED BY <2>5, <2>6
<1>2. LifeInv => FilesAlwaysCount
  BY <1>1 DEF LifeInv, HardCounted, HardRequest, HardRows, FilesAlwaysCount
<1> QED BY <1>2, LifeInvariant, PTL
-----------------------------------------------------------------------------
(* A version that allows whatever another does, and judges bodies alike.   *)
Broader(r, s, on) ==
    /\ s.caps = r.caps /\ s.overrides = r.overrides
    /\ s.budgets = r.budgets /\ s.agentBudget = r.agentBudget
    /\ s.deniedTools \subseteq r.deniedTools /\ r.servers \subseteq s.servers
    /\ \A host : HostAllowed(host, r.callHosts) => HostAllowed(host, s.callHosts)
    /\ \A host : HostAllowed(host, UploadHosts(r, on)) => HostAllowed(host, UploadHosts(s, on))

(* A row's kind decides which rule its item is allowed by (item_allowed).  *)
LEMMA AllowedBy ==
    ASSUME NEW r, NEW row, NEW on
    PROVE  /\ row.detail.form = "tool_call" =>
                 ItemAllowed(r, row, on) <=> (\A t \in r.deniedTools : ToolText[t] # row.item)
           /\ row.detail.form = "mcp_server" =>
                 ItemAllowed(r, row, on) <=> (row.detail.server \in (r.servers \ {NoServer}))
           /\ row.detail.form = "host" /\ row.item = UNKNOWN_HOST => ~ItemAllowed(r, row, on)
           /\ (/\ row.detail.form = "host" /\ row.item # UNKNOWN_HOST
               /\ row.rule = "out_of_spec_calls") =>
                 ItemAllowed(r, row, on) <=> HostAllowed(row.item, r.callHosts)
           /\ (/\ row.detail.form = "host" /\ row.item # UNKNOWN_HOST
               /\ row.rule = "uploads") =>
                 ItemAllowed(r, row, on) <=>
                    (/\ \/ ~row.detail.carries
                        \/ ~RowUploads(row.detail, row.item, r, on)
                        \/ HostAllowed(row.item, UploadHosts(r, on))
                     /\ ~OverCap(r, row.item, row.detail.size)
                     /\ ~(row.detail.carries /\ row.detail.size = {} /\ CapsOver(r, row.item) # {}))
<1>1. CASE row.detail.form = "tool_call"
  BY <1>1 DEF ItemAllowed
<1>2. CASE row.detail.form = "mcp_server"
  BY <1>2 DEF ItemAllowed
<1>3. CASE row.detail.form = "host" /\ row.item = UNKNOWN_HOST
  BY <1>3 DEF ItemAllowed
<1>4. CASE row.detail.form = "host" /\ row.item # UNKNOWN_HOST /\ row.rule = "out_of_spec_calls"
  BY <1>4 DEF ItemAllowed
<1>5. CASE row.detail.form = "host" /\ row.item # UNKNOWN_HOST /\ row.rule = "uploads"
  BY <1>5 DEF ItemAllowed
<1> QED BY <1>1, <1>2, <1>3, <1>4, <1>5

(* Bodies and caps are judged alike under the two.                         *)
LEMMA BroaderJudges ==
    ASSUME NEW r, NEW s, NEW on, Broader(r, s, on)
    PROVE  /\ \A k, host : BodyCounts(k, host, s) <=> BodyCounts(k, host, r)
           /\ \A d, host : RowUploads(d, host, s, on) <=> RowUploads(d, host, r, on)
           /\ \A host : CapsOver(s, host) = CapsOver(r, host)
           /\ \A host, size : OverCap(s, host, size) <=> OverCap(r, host, size)
<1>1. s.caps = r.caps /\ s.overrides = r.overrides /\ s.budgets = r.budgets
      /\ s.agentBudget = r.agentBudget
  BY DEF Broader
<1>2. ASSUME NEW k, NEW host PROVE BodyCounts(k, host, s) <=> BodyCounts(k, host, r)
  BY <1>1 DEF BodyCounts, DripFits
<1>3. ASSUME NEW d, NEW host PROVE RowUploads(d, host, s, on) <=> RowUploads(d, host, r, on)
  BY <1>2 DEF RowUploads
<1>4. ASSUME NEW host PROVE CapsOver(s, host) = CapsOver(r, host)
  BY <1>1 DEF CapsOver
<1>5. ASSUME NEW host, NEW size PROVE OverCap(s, host, size) <=> OverCap(r, host, size)
  BY <1>1, <1>4 DEF OverCap
<1> QED BY <1>2, <1>3, <1>4, <1>5

(* A broader version allows every row that was allowed.                    *)
LEMMA BroaderAllows ==
    ASSUME NEW r, NEW s, NEW on, Broader(r, s, on), NEW row, RowOK(row), ItemAllowed(r, row, on)
    PROVE  ItemAllowed(s, row, on)
<1>1. CASE row.detail.form = "tool_call"
  BY <1>1, AllowedBy DEF Broader
<1>2. CASE row.detail.form = "mcp_server"
  BY <1>2, AllowedBy DEF Broader
<1>3. CASE row.detail.form = "host" /\ row.item = UNKNOWN_HOST
  BY <1>3, AllowedBy
<1>4. CASE row.detail.form = "host" /\ row.item # UNKNOWN_HOST /\ row.rule = "out_of_spec_calls"
  BY <1>4, AllowedBy DEF Broader
<1>5. CASE row.detail.form = "host" /\ row.item # UNKNOWN_HOST /\ row.rule = "uploads"
  <2>1. HostAllowed(row.item, UploadHosts(r, on)) => HostAllowed(row.item, UploadHosts(s, on))
    BY DEF Broader
  <2> QED BY <1>5, <2>1, AllowedBy, BroaderJudges
<1> QED BY <1>1, <1>2, <1>3, <1>4, <1>5 DEF RowOK, HostRow

(* A contract broader than a broader one is broader.                       *)
LEMMA BroaderTrans ==
    ASSUME NEW r, NEW s, NEW t, NEW on, Broader(r, s, on), Broader(s, t, on)
    PROVE  Broader(r, t, on)
BY DEF Broader

(* A contract is as broad as itself.                                       *)
LEMMA BroaderSelf ==
    ASSUME NEW r, NEW on
    PROVE  Broader(r, r, on)
BY DEF Broader
-----------------------------------------------------------------------------
(* What a host matches, a list with more in it matches.                    *)
LEMMA MoreHosts ==
    ASSUME NEW P, NEW Q, P \subseteq Q, NEW host, HostAllowed(host, P)
    PROVE  HostAllowed(host, Q)
BY DEF HostAllowed

(* Allow this makes the version broader, and allows its row                *)
(* (with_item_allowed).                                                    *)
LEMMA AllowThis ==
    ASSUME NEW r, DOMAIN r = RuleNames, NEW s, DOMAIN s = RuleNames, NEW on \in BOOLEAN,
           NEW row, RowOK(row), Broader(r, s, on), OneClick(r, row, on)
    PROVE  LET t == WithItemAllowed(s, row)
           IN DOMAIN t = RuleNames /\ Broader(s, t, on) /\ ItemAllowed(t, row, on)
<1> DEFINE t == WithItemAllowed(s, row)
<1>0. DOMAIN t = RuleNames
  BY AllowedIsContract
<1>1. CASE row.detail.form = "tool_call"
  <2>1. t = [s EXCEPT !.deniedTools = {x \in @ : ToolText[x] # row.item}]
    BY <1>1 DEF WithItemAllowed
  <2> HIDE DEF t
  <2>2. /\ t.deniedTools = {x \in s.deniedTools : ToolText[x] # row.item}
        /\ t.caps = s.caps /\ t.overrides = s.overrides /\ t.budgets = s.budgets
        /\ t.agentBudget = s.agentBudget /\ t.servers = s.servers /\ t.callHosts = s.callHosts
        /\ t.uploads = s.uploads /\ t.parametersOnly = s.parametersOnly
    BY <2>1 DEF RuleNames
  <2>3. Broader(s, t, on)
    BY <2>2 DEF Broader, UploadHosts
  <2>4. ItemAllowed(t, row, on)
    BY <1>1, <2>2, AllowedBy
  <2> QED BY <1>0, <2>3, <2>4 DEF t
<1>2. CASE row.detail.form = "mcp_server"
  <2>1. t = [s EXCEPT !.servers = @ \cup {row.detail.server}]
    BY <1>2 DEF WithItemAllowed
  <2>0. row.detail.server # NoServer
    BY <1>2 DEF OneClick
  <2> HIDE DEF t
  <2>2. /\ t.servers = s.servers \cup {row.detail.server}
        /\ t.caps = s.caps /\ t.overrides = s.overrides /\ t.budgets = s.budgets
        /\ t.agentBudget = s.agentBudget /\ t.deniedTools = s.deniedTools
        /\ t.callHosts = s.callHosts
        /\ t.uploads = s.uploads /\ t.parametersOnly = s.parametersOnly
    BY <2>1 DEF RuleNames
  <2>3. Broader(s, t, on)
    BY <2>2 DEF Broader, UploadHosts
  <2>4. ItemAllowed(t, row, on)
    BY <1>2, <2>0, <2>2, AllowedBy
  <2> QED BY <1>0, <2>3, <2>4 DEF t
<1>3. CASE row.detail.form = "host"
  <2>1. /\ row.item # UNKNOWN_HOST /\ ~Wild(row.item) /\ row.item # NoHost
        /\ row.rule = "uploads" => ItemAllowed(WithItemAllowed(r, row), row, on)
        /\ HostMatches(row.item, row.item)
        /\ \A host : HostMatches(host, row.item) => host = row.item
    <3>1. /\ row.item # UNKNOWN_HOST /\ ~Wild(row.item) /\ IsHostPattern(row.item)
          /\ row.rule = "uploads" => ItemAllowed(WithItemAllowed(r, row), row, on)
      BY <1>3 DEF OneClick
    <3>2. row.item # NoHost
      BY <3>1 DEF IsHostPattern, NoHost
    <3> QED BY <3>1, <3>2 DEF HostMatches
  <2>2. CASE row.rule = "out_of_spec_calls"
    <3>1. t = [s EXCEPT !.callHosts = IF HostAllowed(row.item, @) THEN @ ELSE @ \cup {row.item}]
      BY <1>3, <2>2 DEF WithItemAllowed
    <3> HIDE DEF t
    <3>2. /\ t.callHosts = IF HostAllowed(row.item, s.callHosts) THEN s.callHosts
                           ELSE s.callHosts \cup {row.item}
          /\ t.caps = s.caps /\ t.overrides = s.overrides /\ t.budgets = s.budgets
          /\ t.agentBudget = s.agentBudget /\ t.deniedTools = s.deniedTools
          /\ t.servers = s.servers
          /\ t.uploads = s.uploads /\ t.parametersOnly = s.parametersOnly
      BY <3>1 DEF RuleNames
    <3>3. s.callHosts \subseteq t.callHosts
      BY <3>2
    <3>4. HostAllowed(row.item, t.callHosts)
      BY <2>1, <3>2 DEF HostAllowed
    <3>5. Broader(s, t, on)
      BY <3>2, <3>3, MoreHosts DEF Broader, UploadHosts
    <3>6. ItemAllowed(t, row, on)
      BY <1>3, <2>1, <2>2, <3>4, AllowedBy
    <3> QED BY <1>0, <3>5, <3>6 DEF t
  <2>3. CASE row.rule = "uploads"
    <3>1. \A u : DOMAIN u = RuleNames =>
             /\ WithItemAllowed(u, row).uploads =
                   IF HostAllowed(row.item, u.uploads) THEN u.uploads ELSE u.uploads \cup {row.item}
             /\ WithItemAllowed(u, row).parametersOnly = u.parametersOnly \ {row.item}
             /\ WithItemAllowed(u, row).caps = u.caps
             /\ WithItemAllowed(u, row).overrides = u.overrides
             /\ WithItemAllowed(u, row).budgets = u.budgets
             /\ WithItemAllowed(u, row).agentBudget = u.agentBudget
             /\ WithItemAllowed(u, row).deniedTools = u.deniedTools
             /\ WithItemAllowed(u, row).servers = u.servers
             /\ WithItemAllowed(u, row).callHosts = u.callHosts
      <4> SUFFICES ASSUME NEW u, DOMAIN u = RuleNames
                   PROVE  /\ WithItemAllowed(u, row).uploads =
                                IF HostAllowed(row.item, u.uploads) THEN u.uploads
                                ELSE u.uploads \cup {row.item}
                          /\ WithItemAllowed(u, row).parametersOnly = u.parametersOnly \ {row.item}
                          /\ WithItemAllowed(u, row).caps = u.caps
                          /\ WithItemAllowed(u, row).overrides = u.overrides
                          /\ WithItemAllowed(u, row).budgets = u.budgets
                          /\ WithItemAllowed(u, row).agentBudget = u.agentBudget
                          /\ WithItemAllowed(u, row).deniedTools = u.deniedTools
                          /\ WithItemAllowed(u, row).servers = u.servers
                          /\ WithItemAllowed(u, row).callHosts = u.callHosts
        OBVIOUS
      <4>1. WithItemAllowed(u, row) =
               [u EXCEPT !.uploads = IF HostAllowed(row.item, @) THEN @ ELSE @ \cup {row.item},
                         !.parametersOnly = @ \ {row.item}]
        BY <1>3, <2>3 DEF WithItemAllowed
      <4> QED BY <4>1 DEF RuleNames
    <3>2. s.uploads \subseteq t.uploads /\ HostAllowed(row.item, t.uploads)
      BY <2>1, <3>1 DEF HostAllowed
    <3>3. HostAllowed(row.item, UploadHosts(t, on))
      BY <3>2, MoreHosts DEF UploadHosts
    <3>4. ASSUME NEW host, HostAllowed(host, UploadHosts(s, on))
          PROVE  HostAllowed(host, UploadHosts(t, on))
      <4>1. host # NoHost
        BY <3>4 DEF HostAllowed
      <4>2. PICK p \in UploadHosts(s, on) : HostMatches(host, p)
        BY <3>4 DEF HostAllowed
      <4>3. CASE p = row.item
        BY <2>1, <3>3, <4>2, <4>3
      <4>4. CASE p # row.item
        <5>1. p \in UploadHosts(t, on)
          BY <3>1, <3>2, <4>2, <4>4 DEF UploadHosts
        <5> QED BY <4>1, <4>2, <5>1 DEF HostAllowed
      <4> QED BY <4>3, <4>4
    <3>5. Broader(s, t, on)
      BY <3>1, <3>4 DEF Broader
    <3>6. ItemAllowed(t, row, on)
      <4> DEFINE u == WithItemAllowed(r, row)
      <4>1. /\ ~OverCap(u, row.item, row.detail.size)
            /\ ~(row.detail.carries /\ row.detail.size = {} /\ CapsOver(u, row.item) # {})
        BY <1>3, <2>1, <2>3, AllowedBy
      <4>2. t.caps = u.caps
        BY <3>1 DEF Broader
      <4>3. CapsOver(t, row.item) = CapsOver(u, row.item)
            /\ (OverCap(t, row.item, row.detail.size) <=> OverCap(u, row.item, row.detail.size))
        BY <4>2 DEF CapsOver, OverCap
      <4> QED BY <1>3, <2>1, <2>3, <3>3, <4>1, <4>3, AllowedBy
    <3> QED BY <1>0, <3>5, <3>6 DEF t
  <2> QED BY <1>3, <2>2, <2>3 DEF RowOK, HostRow
<1> QED BY <1>1, <1>2, <1>3 DEF RowOK, HostRow

(* It adds at most its own host to the uploads.                            *)
LEMMA AllowedFinite ==
    ASSUME NEW r, DOMAIN r = RuleNames, NEW row, RowOK(row), IsFiniteSet(r.uploads)
    PROVE  IsFiniteSet(WithItemAllowed(r, row).uploads)
<1>1. IsFiniteSet(r.uploads \cup {row.item})
  BY FS_Singleton, FS_Union
<1>2. WithItemAllowed(r, row).uploads \in {r.uploads, r.uploads \cup {row.item}}
  <2>1. CASE row.detail.form = "tool_call"
    BY <2>1 DEF WithItemAllowed, RuleNames
  <2>2. CASE row.detail.form = "mcp_server"
    BY <2>2 DEF WithItemAllowed, RuleNames
  <2>3. CASE row.detail.form = "host" /\ row.rule = "out_of_spec_calls"
    BY <2>3 DEF WithItemAllowed, RuleNames
  <2>4. CASE row.detail.form = "host" /\ row.rule = "uploads"
    BY <2>4 DEF WithItemAllowed, RuleNames
  <2> QED BY <2>1, <2>2, <2>3, <2>4 DEF RowOK, HostRow
<1> QED BY <1>1, <1>2

(* A contract's call hosts are another's and those of the call rows chosen.*)
CallRow(row) == row.rule = "out_of_spec_calls" /\ row.detail.form = "host"

CallsFrom(t, r, chosen) ==
    \A h \in t.callHosts : h \in r.callHosts \/ \E row \in chosen : CallRow(row) /\ h = row.item

(* It adds at most its own host to the calls.                              *)
LEMMA AllowedCalls ==
    ASSUME NEW r, DOMAIN r = RuleNames, NEW row, RowOK(row)
    PROVE  CallsFrom(WithItemAllowed(r, row), r, {row})
<1>1. CASE row.detail.form = "tool_call"
  BY <1>1 DEF WithItemAllowed, RuleNames, CallsFrom
<1>2. CASE row.detail.form = "mcp_server"
  BY <1>2 DEF WithItemAllowed, RuleNames, CallsFrom
<1>3. CASE row.detail.form = "host" /\ row.rule = "out_of_spec_calls"
  BY <1>3 DEF WithItemAllowed, RuleNames, CallsFrom, CallRow
<1>4. CASE row.detail.form = "host" /\ row.rule = "uploads"
  BY <1>4 DEF WithItemAllowed, RuleNames, CallsFrom
<1> QED BY <1>1, <1>2, <1>3, <1>4 DEF RowOK, HostRow

Allowing == INSTANCE Folding WITH Op <- AllowNext

(* Allow all takes its rows one after another, and each stays allowed.     *)
LEMMA AllowAll ==
    ASSUME NEW r, DOMAIN r = RuleNames, NEW on \in BOOLEAN, NEW chosen, IsFiniteSet(chosen),
           \A row \in chosen : RowOK(row) /\ OneClick(r, row, on)
    PROVE  LET t == AllowEach(on, r, chosen)
           IN /\ DOMAIN t = RuleNames /\ Broader(r, t, on)
              /\ \A row \in chosen : ItemAllowed(t, row, on)
              /\ IsFiniteSet(r.uploads) => IsFiniteSet(t.uploads)
              /\ CallsFrom(t, r, chosen)
<1>1. AllowEach(on, r, chosen) = Allowing!OfSet(on, r, chosen)
  BY DEF AllowEach, Allowing!OfSet, Allowing!FoldSet, FoldSet, MapThenFoldSet,
         Allowing!MapThenFoldSet
<1>2. PICK g : /\ Allowing!OfSet(on, r, chosen) = g[chosen]
               /\ Allowing!Through(g, on, r, chosen)
  <2>1. Allowing!IsFiniteSet(chosen)
    BY DEF IsFiniteSet, Allowing!IsFiniteSet
  <2> QED BY <2>1, Allowing!SetFold
<1> DEFINE Good(s) ==
             /\ DOMAIN g[s] = RuleNames /\ Broader(r, g[s], on)
             /\ \A row \in s : ItemAllowed(g[s], row, on)
             /\ IsFiniteSet(r.uploads) => IsFiniteSet(g[s].uploads)
             /\ CallsFrom(g[s], r, s)
           P == {s \in SUBSET chosen : Good(s)}
<1>3. ASSUME NEW s \in SUBSET chosen, \A x \in s : s \ {x} \in P PROVE s \in P
  <2>1. CASE s = {}
    <3>1. g[s] = r
      BY <1>2, <2>1 DEF Allowing!Through
    <3>2. CallsFrom(g[s], r, s)
      BY <3>1 DEF CallsFrom
    <3> QED BY <2>1, <3>1, <3>2, BroaderSelf
  <2>2. CASE s # {}
    <3>1. PICK row \in s : g[s] = AllowNext(on, row, g[s \ {row}])
      BY <1>2, <2>2 DEF Allowing!Through
    <3> DEFINE u == g[s \ {row}]
    <3>2. /\ DOMAIN u = RuleNames /\ Broader(r, u, on)
          /\ \A x \in s \ {row} : ItemAllowed(u, x, on)
          /\ IsFiniteSet(r.uploads) => IsFiniteSet(u.uploads)
          /\ CallsFrom(u, r, s \ {row})
      BY <1>3, <3>1
    <3>3. RowOK(row) /\ OneClick(r, row, on)
      BY <3>1
    <3>4. g[s] = IF ItemAllowed(u, row, on) THEN u ELSE WithItemAllowed(u, row)
      BY <3>1 DEF AllowNext
    <3> HIDE DEF u
    <3>5. /\ DOMAIN g[s] = RuleNames /\ Broader(u, g[s], on) /\ ItemAllowed(g[s], row, on)
          /\ IsFiniteSet(u.uploads) => IsFiniteSet(g[s].uploads)
      <4>1. CASE ItemAllowed(u, row, on)
        BY <3>2, <3>4, <4>1, BroaderSelf
      <4>2. CASE ~ItemAllowed(u, row, on)
        <5>1. g[s] = WithItemAllowed(u, row)
          BY <3>4, <4>2
        <5>2. DOMAIN g[s] = RuleNames /\ Broader(u, g[s], on) /\ ItemAllowed(g[s], row, on)
          BY <3>2, <3>3, <5>1, AllowThis
        <5>3. IsFiniteSet(u.uploads) => IsFiniteSet(g[s].uploads)
          BY <3>2, <3>3, <5>1, AllowedFinite
        <5> QED BY <5>2, <5>3
      <4> QED BY <4>1, <4>2
    <3>6. Broader(r, g[s], on)
      BY <3>2, <3>5, BroaderTrans
    <3>7. ASSUME NEW x \in s PROVE ItemAllowed(g[s], x, on)
      <4>1. CASE x = row
        BY <3>5, <4>1
      <4>2. CASE x # row
        <5>1. ItemAllowed(u, x, on) /\ RowOK(x)
          BY <3>2, <4>2
        <5> QED BY <3>5, <5>1, BroaderAllows
      <4> QED BY <4>1, <4>2
    <3>8. CallsFrom(g[s], r, s)
      <4>1. CallsFrom(g[s], u, {row})
        BY <3>2, <3>3, <3>4, AllowedCalls DEF CallsFrom
      <4> QED BY <3>2, <4>1 DEF CallsFrom
    <3> QED BY <3>2, <3>5, <3>6, <3>7, <3>8
  <2> QED BY <2>1, <2>2
<1> HIDE DEF P
<1>4. SUBSET chosen \subseteq P
  <2>1. Allowing!IsFiniteSet(chosen)
    BY DEF IsFiniteSet, Allowing!IsFiniteSet
  <2> QED BY <1>3, <2>1, Allowing!SubsetInduction
<1>5. Good(chosen)
  BY <1>4 DEF P
<1> QED BY <1>1, <1>2, <1>5

(* What no row asks for stays as it is.                                    *)
LEMMA AllowAllKeeps ==
    ASSUME NEW r, DOMAIN r = RuleNames, NEW t, NEW on, Broader(r, t, on), NEW u,
           u = [r EXCEPT !.uploads = t.uploads, !.parametersOnly = t.parametersOnly,
                         !.deniedTools = t.deniedTools, !.callHosts = t.callHosts,
                         !.servers = t.servers]
    PROVE  Broader(t, u, on) /\ u.uploads = t.uploads
<1>1. /\ u.uploads = t.uploads /\ u.parametersOnly = t.parametersOnly
      /\ u.deniedTools = t.deniedTools /\ u.callHosts = t.callHosts /\ u.servers = t.servers
      /\ u.caps = r.caps /\ u.overrides = r.overrides /\ u.budgets = r.budgets
      /\ u.agentBudget = r.agentBudget
  BY DEF RuleNames
<1>2. UploadHosts(u, on) = UploadHosts(t, on)
  BY <1>1 DEF UploadHosts
<1> QED BY <1>1, <1>2 DEF Broader

(* Whatever Allow all is clicked for, the contract it makes allows each of *)
(* those rows, and takes back none that was allowed.                       *)
LEMMA Clears ==
    ASSUME LifeInv, IsFiniteSet(rows)
    PROVE  AllowClears
<1> SUFFICES ASSUME active # 0, NEW chosen \in AllowableSets, NEW row \in rows,
                    row \in chosen \/ ItemAllowed(Rules, row, kindsOn)
             PROVE  ItemAllowed(RowsAllowed(chosen), row, kindsOn)
  BY DEF AllowClears
<1> DEFINE t == AllowEach(kindsOn, Rules, chosen)
           u == RowsAllowed(chosen)
<1>1. DOMAIN Rules = RuleNames /\ kindsOn \in BOOLEAN /\ \A x \in rows : RowOK(x)
  BY RulesOK DEF LifeInv, RequestsOK, RowsOK
<1>2. /\ chosen \subseteq rows /\ IsFiniteSet(chosen)
      /\ \A x \in chosen : OneClick(Rules, x, kindsOn)
  <2>1. chosen \subseteq rows /\ \A x \in chosen : OneClick(Rules, x, kindsOn)
    BY DEF AllowableSets
  <2> QED BY <2>1, FS_Subset
<1>3. Broader(Rules, t, kindsOn) /\ \A x \in chosen : ItemAllowed(t, x, kindsOn)
  BY <1>1, <1>2, AllowAll
<1>4. Broader(t, u, kindsOn)
  <2>1. u = [Rules EXCEPT !.uploads = t.uploads, !.parametersOnly = t.parametersOnly,
                          !.deniedTools = t.deniedTools, !.callHosts = t.callHosts,
                          !.servers = t.servers]
    BY DEF RowsAllowed
  <2> HIDE DEF t, u
  <2> QED BY <1>1, <1>3, <2>1, AllowAllKeeps
<1> HIDE DEF t
<1>5. ItemAllowed(t, row, kindsOn)
  BY <1>1, <1>3, BroaderAllows
<1> QED BY <1>1, <1>4, <1>5, BroaderAllows
-----------------------------------------------------------------------------
(* Rows, requests and every version's upload hosts stay finite: what Allow *)
(* all and a narrowing go through one by one.                              *)
FiniteOK ==
    /\ IsFiniteSet(rows) /\ IsFiniteSet(requests)
    /\ \A n \in DOMAIN versions : IsFiniteSet(versions[n].uploads)

(* A function takes finitely many arguments to finitely many values.       *)
LEMMA ImageFinite ==
    ASSUME NEW f, IsFiniteSet(DOMAIN f)
    PROVE  IsFiniteSet({f[x] : x \in DOMAIN f})
<1> DEFINE D == DOMAIN f
           g == [x \in D |-> f[x]]
           I == {f[x] : x \in D}
<1>1. g \in Surjection(D, I)
  BY DEF Surjection
<1> HIDE DEF g, I
<1> QED BY <1>1, FS_Surjection DEF I

(* A request breaks finitely many rules, having finitely many tools.       *)
LEMMA HitsFinite ==
    ASSUME NEW r, NEW q, NEW kind, NEW on, IsFiniteSet(q.tools)
    PROVE  IsFiniteSet(EvaluateRequest(r, q, kind, on))
<1> DEFINE reasons == Reasons(r, q.host, CarriesBody(q.body), kind, q.size, on)
           A == IF reasons = {} THEN {}
                ELSE {Violation("uploads", HostItem(q.host),
                                HostDetail(reasons, CarriesBody(q.body), kind, q.size))}
           T == q.tools \cap r.deniedTools
           B == {Violation("uploads", ToolText[t], [form |-> "tool_call"]) : t \in T}
           C == IF HostAllowed(q.host, r.callHosts) THEN {}
                ELSE {Violation("out_of_spec_calls", HostItem(q.host), [form |-> "host"])}
           U == {t \in q.tools : McpTool(t) /\ ToolCallServer(t) \notin (r.servers \ {NoServer})}
           E == {Violation("out_of_spec_calls", ToolText[McpItem(t)],
                           [form |-> "mcp_server", server |-> ToolCallServer(t)]) : t \in U}
<1>1. EvaluateRequest(r, q, kind, on) = A \cup B \cup C \cup E
  BY DEF EvaluateRequest
<1>2. IsFiniteSet(A) /\ IsFiniteSet(C)
  <2>1. IsFiniteSet({}) /\ \A x : IsFiniteSet({x})
    BY FS_EmptySet, FS_Singleton
  <2> HIDE DEF reasons
  <2> QED BY <2>1
<1>3. IsFiniteSet(T) /\ IsFiniteSet(U)
  BY FS_Subset
<1>4. IsFiniteSet(B)
  <2> DEFINE f == [t \in T |-> Violation("uploads", ToolText[t], [form |-> "tool_call"])]
  <2>1. DOMAIN f = T /\ B = {f[t] : t \in T}
    OBVIOUS
  <2> HIDE DEF f, B, T
  <2> QED BY <1>3, <2>1, ImageFinite
<1>5. IsFiniteSet(E)
  <2> DEFINE f == [t \in U |-> Violation("out_of_spec_calls", ToolText[McpItem(t)],
                                 [form |-> "mcp_server", server |-> ToolCallServer(t)])]
  <2>1. DOMAIN f = U /\ E = {f[t] : t \in U}
    OBVIOUS
  <2> HIDE DEF f, E, U
  <2> QED BY <1>3, <2>1, ImageFinite
<1> HIDE DEF A, B, C, E
<1> QED BY <1>1, <1>2, <1>4, <1>5, FS_Union

(* A judgment's hits add finitely many rows.                               *)
LEMMA RecordedFinite ==
    ASSUME NEW old, IsFiniteSet(old), NEW hits, IsFiniteSet(hits)
    PROVE  IsFiniteSet(Recorded(old, hits))
<1> DEFINE Same(h) == {row \in old : Item(row) = Item(h)}
           f == [h \in hits |->
                   IF Same(h) = {} THEN h
                   ELSE [h EXCEPT !.detail =
                            MergedDetail((CHOOSE row \in Same(h) : TRUE).detail, @)]]
           A == {row \in old : \A h \in hits : Item(h) # Item(row)}
           B == {f[h] : h \in hits}
<1>1. Recorded(old, hits) = A \cup B
  BY DEF Recorded
<1>2. IsFiniteSet(A)
  BY FS_Subset
<1>3. IsFiniteSet(B)
  <2>1. DOMAIN f = hits
    OBVIOUS
  <2> HIDE DEF f
  <2> QED BY <2>1, ImageFinite
<1> HIDE DEF A, B
<1> QED BY <1>1, <1>2, <1>3, FS_Union

(* So finitely many rows are open after a request is judged.               *)
LEMMA JudgedFinite ==
    ASSUME LifeInv, FiniteOK, NEW q, FromShape(q), NEW clk, Judge(q, clk)
    PROVE  IsFiniteSet(rows')
<1>1. IsFiniteSet(q.tools)
  BY ShapeAssumption DEF LifeInv, RequestsOK, FromShape
<1>2. \E kind, hits : /\ hits \subseteq EvaluateRequest(Rules, q, kind, kindsOn)
                      /\ rows' = Recorded(rows, hits)
  BY DEF Judge, OnePerRow
<1>3. PICK kind, hits : /\ hits \subseteq EvaluateRequest(Rules, q, kind, kindsOn)
                        /\ rows' = Recorded(rows, hits)
  BY <1>2
<1>4. IsFiniteSet(hits)
  BY <1>1, <1>3, HitsFinite, FS_Subset
<1> QED BY <1>3, <1>4, RecordedFinite DEF FiniteOK

(* What is proposed lists hosts of the baseline's requests.                *)
LEMMA ProposedFinite ==
    ASSUME NEW asp, NEW window, IsFiniteSet(window), NEW pol, NEW on
    PROVE  IsFiniteSet(ProposedRules(asp, window, pol, on).uploads)
<1> DEFINE kinds == ProposalKinds(asp, window, pol, on)
           W == {p \in window : IsHostPattern(p.host) /\ Uploading(p, kinds[p])}
           f == [q \in W |-> q.host]
           A == IF IsHostPattern(asp.endpoint) THEN {asp.endpoint} ELSE {}
           B == {f[q] : q \in W}
           U == ProposedRules(asp, window, pol, on).uploads
<1>1. BodyHosts(asp, window, kinds) = A \cup B
  BY DEF BodyHosts
<1>2. U \subseteq BodyHosts(asp, window, kinds)
  BY DEF ProposedRules
<1>3. IsFiniteSet(A)
  BY FS_EmptySet, FS_Singleton
<1>4. IsFiniteSet(B)
  <2>1. DOMAIN f = W /\ IsFiniteSet(W)
    BY FS_Subset
  <2> HIDE DEF f, W
  <2> QED BY <2>1, ImageFinite
<1> HIDE DEF A, B, U, kinds
<1>5. IsFiniteSet(A \cup B)
  BY <1>3, <1>4, FS_Union
<1>6. IsFiniteSet(U)
  BY <1>1, <1>2, <1>5, FS_Subset
<1> QED BY <1>6 DEF U

(* A version made with finitely many upload hosts.                         *)
LEMMA VersionFinite ==
    ASSUME LifeInv, FiniteOK, NEW r, DOMAIN r = RuleNames, IsFiniteSet(r.uploads),
           CreateVersion(r), rows' = rows, requests' = requests
    PROVE  FiniteOK'
<1>1. /\ active' = Len(versions) + 1 /\ versions'[active'] = r
      /\ \A n \in DOMAIN versions : versions'[n] = versions[n]
  BY NewVersion DEF LifeInv
<1>2. /\ versions' = Append(versions, r) /\ Len(versions) \in Nat
      /\ DOMAIN versions = 1..Len(versions) /\ versions \in Seq(ToSet(versions))
  BY DEF LifeInv, VersionsOK, CreateVersion
<1>3. \A n \in DOMAIN versions' : n \in DOMAIN versions \/ n = Len(versions) + 1
  <2>1. Len(versions') = Len(versions) + 1 /\ DOMAIN versions' = 1..(Len(versions) + 1)
    BY <1>2
  <2> QED BY <1>2, <2>1
<1> QED BY <1>1, <1>3 DEF FiniteOK

(* Every step leaves finitely many rows, requests and upload hosts.        *)
LEMMA FiniteStep == LifeInv /\ FiniteOK /\ [Next]_vars => FiniteOK'
<1> SUFFICES ASSUME LifeInv, FiniteOK, [Next]_vars PROVE FiniteOK'
  OBVIOUS
<1> DEFINE Same == rows' = rows /\ requests' = requests /\ versions' = versions
<1>0. active # 0 => DOMAIN Rules = RuleNames /\ IsFiniteSet(Rules.uploads)
  BY RulesOK DEF LifeInv, VersionsOK, FiniteOK, Rules
<1>1. ASSUME NEW shape \in world.shapes, NEW lag,
             Arrive(shape, lag) \/ ArriveHeld(shape, lag)
      PROVE  FiniteOK'
  <2> DEFINE q == Captured(shape, lag)
  <2>1. FromShape(q)
    BY DEF FromShape, Captured
  <2>2. IsFiniteSet(requests \cup {q})
    BY FS_Singleton, FS_Union DEF FiniteOK
  <2> HIDE DEF q
  <2>3. /\ requests' = requests \cup {q} /\ versions' = versions
        /\ rows' = rows \/ Judge(q, clock)
    BY <1>1 DEF Arrive, ArriveHeld, checkVars, policyVars, q
  <2>4. IsFiniteSet(rows')
    BY <2>1, <2>3, JudgedFinite DEF FiniteOK
  <2> QED BY <2>2, <2>3, <2>4 DEF FiniteOK
<1>2. ASSUME NEW h \in held, NEW denied \in BOOLEAN, Release(h, denied) PROVE FiniteOK'
  <2>1. /\ requests' = requests /\ versions' = versions /\ FromShape(h.request)
        /\ rows' = rows \/ Judge(h.request, h.at)
    BY <1>2 DEF Release, checkVars, policyVars, LifeInv, RequestsOK
  <2>2. IsFiniteSet(rows')
    BY <2>1, JudgedFinite DEF FiniteOK
  <2> QED BY <2>1, <2>2 DEF FiniteOK
<1>3. ASSUME NEW edit, edit \in world.edits \/ edit = <<>>, NEW r, DOMAIN r = RuleNames,
             IsFiniteSet(r.uploads)
      PROVE  DOMAIN Edited(r, edit) = RuleNames /\ IsFiniteSet(Edited(r, edit).uploads)
  <2>1. "uploads" \in DOMAIN edit => IsFiniteSet(edit.uploads)
    <3>1. CASE edit \in world.edits
      BY <3>1, EditAssumption DEF LifeInv, RequestsOK
    <3>2. CASE edit = <<>>
      BY <3>2
    <3> QED BY <1>3, <3>1, <3>2
  <2> QED BY <1>3, <2>1 DEF Edited, RuleNames
<1>4. ASSUME NEW edit, edit \in world.edits \/ edit = <<>>, Adopt(edit) PROVE FiniteOK'
  <2> DEFINE p == ProposedRules(world.bundle, Baseline, policy, kindsOn)
  <2>1. DOMAIN p = RuleNames
    BY DEF ProposedRules, RuleNames
  <2>2. IsFiniteSet(p.uploads)
    <3>1. IsFiniteSet(Baseline)
      BY FS_Subset DEF FiniteOK, Baseline, OwnedRequests, Captures
    <3> QED BY <3>1, ProposedFinite
  <2> HIDE DEF p
  <2>3. CreateVersion(Edited(p, edit)) /\ rows' = rows /\ requests' = requests
    BY <1>4 DEF Adopt, p, Unchecked, Around, checkVars
  <2>4. DOMAIN Edited(p, edit) = RuleNames /\ IsFiniteSet(Edited(p, edit).uploads)
    BY <1>3, <1>4, <2>1, <2>2
  <2> QED BY <2>3, <2>4, VersionFinite
<1>5. ASSUME NEW edit \in world.edits, Edit(edit) PROVE FiniteOK'
  <2> DEFINE e == Edited(Rules, edit)
             r == [e EXCEPT !.seenHosts = @ \cup Rules.seenHosts,
                            !.seenServers = @ \cup Rules.seenServers]
  <2>1. DOMAIN e = RuleNames /\ IsFiniteSet(e.uploads)
    BY <1>0, <1>3, <1>5 DEF Edit
  <2>2. CreateVersion(r) /\ rows' = rows /\ requests' = requests
    BY <1>5 DEF Edit, Unchecked, Around, checkVars
  <2> HIDE DEF e
  <2>3. DOMAIN r = RuleNames /\ r.uploads = e.uploads
    BY <2>1 DEF RuleNames
  <2> HIDE DEF r
  <2> QED BY <2>1, <2>2, <2>3, VersionFinite
<1>6. ASSUME NEW row \in rows, AllowRow(row) PROVE FiniteOK'
  <2>1. RowOK(row) /\ active # 0
    BY <1>6 DEF LifeInv, RowsOK, AllowRow
  <2>2. DOMAIN WithItemAllowed(Rules, row) = RuleNames
    BY <1>0, <2>1, AllowedIsContract
  <2>3. IsFiniteSet(WithItemAllowed(Rules, row).uploads)
    BY <1>0, <2>1, AllowedFinite
  <2>4. CreateVersion(WithItemAllowed(Rules, row)) /\ rows' = rows /\ requests' = requests
    BY <1>6 DEF AllowRow, Unchecked, Around, checkVars
  <2> QED BY <2>2, <2>3, <2>4, VersionFinite
<1>7. ASSUME active # 0, NEW chosen \in AllowableSets, AllowRows(chosen) PROVE FiniteOK'
  <2> DEFINE t == AllowEach(kindsOn, Rules, chosen)
             u == RowsAllowed(chosen)
  <2>1. chosen \subseteq rows /\ \A x \in chosen : OneClick(Rules, x, kindsOn)
    BY <1>7 DEF AllowableSets
  <2>2. IsFiniteSet(chosen) /\ kindsOn \in BOOLEAN /\ \A x \in chosen : RowOK(x)
    BY <2>1, FS_Subset DEF FiniteOK, LifeInv, RequestsOK, RowsOK
  <2>3. IsFiniteSet(t.uploads)
    BY <1>0, <1>7, <2>1, <2>2, AllowAll
  <2>4. u = [Rules EXCEPT !.uploads = t.uploads, !.parametersOnly = t.parametersOnly,
                          !.deniedTools = t.deniedTools, !.callHosts = t.callHosts,
                          !.servers = t.servers]
    BY DEF RowsAllowed
  <2>5. CreateVersion(u) /\ rows' = rows /\ requests' = requests
    BY <1>7 DEF AllowRows, Unchecked, Around, checkVars
  <2> HIDE DEF t, u
  <2>6. DOMAIN u = RuleNames /\ u.uploads = t.uploads
    BY <1>0, <1>7, <2>4 DEF RuleNames
  <2> QED BY <2>3, <2>5, <2>6, VersionFinite
<1>8. ASSUME NEW hosts, NarrowUploads(hosts) PROVE FiniteOK'
  <2>1. CreateVersion(Narrowed(Rules, hosts)) /\ rows' = rows /\ requests' = requests /\ active # 0
    BY <1>8 DEF NarrowUploads, Unchecked, Around, checkVars
  <2>2. /\ DOMAIN Narrowed(Rules, hosts) = RuleNames
        /\ Narrowed(Rules, hosts).uploads \subseteq Rules.uploads
    BY <1>0, <2>1 DEF Narrowed, RuleNames
  <2>3. IsFiniteSet(Narrowed(Rules, hosts).uploads)
    BY <1>0, <2>1, <2>2, FS_Subset
  <2> QED BY <2>1, <2>2, <2>3, VersionFinite
<1>9. ASSUME NEW offer, NEW allow \in BOOLEAN, ChooseDeclared(offer, allow) PROVE FiniteOK'
  <2> DEFINE r == WithDeclaredChoice(Rules, offer, allow)
  <2>1. active # 0 /\ CreateVersion(r) /\ rows' = rows /\ requests' = requests
    BY <1>9 DEF ChooseDeclared, Offers, Unchecked, Around, checkVars
  <2>2. DOMAIN r = RuleNames /\ r.uploads = Rules.uploads
    <3>1. CASE offer.kind = "host"
      BY <1>0, <2>1, <3>1 DEF WithDeclaredChoice, RuleNames
    <3>2. CASE offer.kind # "host"
      BY <1>0, <2>1, <3>2 DEF WithDeclaredChoice, RuleNames
    <3> QED BY <3>1, <3>2
  <2> HIDE DEF r
  <2> QED BY <1>0, <2>1, <2>2, VersionFinite
<1>10. ASSUME NEW level, RequireContainment(level) PROVE FiniteOK'
  <2> DEFINE r == [Rules EXCEPT !.require = {level}]
  <2>1. active # 0 /\ CreateVersion(r) /\ rows' = rows /\ requests' = requests
    BY <1>10 DEF RequireContainment, Unchecked, Around, checkVars
  <2>2. DOMAIN r = RuleNames /\ r.uploads = Rules.uploads
    BY <1>0, <2>1 DEF RuleNames
  <2> HIDE DEF r
  <2> QED BY <1>0, <2>1, <2>2, VersionFinite
<1>11. CASE \/ active # 0 /\ \E host \in Rules.uploads : DismissNarrow(host)
            \/ \E n \in DOMAIN versions : Switch(n)
            \/ TurnOff \/ Restart \/ Tick \/ UNCHANGED vars
            \/ \E asp \in world.asps : NewAsp(asp)
            \/ \E p \in world.policies : ImportPolicy(p)
  <2>1. Same
    BY <1>11 DEF DismissNarrow, Switch, TurnOff, Restart, Tick, NewAsp, ImportPolicy, vars,
                 Around, checkVars, policyVars
  <2> QED BY <2>1 DEF FiniteOK
<1> QED BY <1>1, <1>2, <1>4, <1>5, <1>6, <1>7, <1>8, <1>9, <1>10, <1>11 DEF Next

(* The tables stay finite in every state of every agent's life.            *)
THEOREM FiniteTables == Spec => []FiniteOK
<1>1. Init => FiniteOK
  BY ClockAssumption, FS_EmptySet DEF Init, FiniteOK
<1> QED BY <1>1, FiniteStep, LifeInvariant, PTL DEF Spec

(* Allow all's version allows every row it was given and starts no other   *)
(* (allow_guardrail_rows).                                                 *)
THEOREM AllowAllClears == Spec => []AllowClears
<1>1. LifeInv /\ FiniteOK => AllowClears
  BY Clears DEF FiniteOK
<1> QED BY <1>1, FiniteTables, LifeInvariant, PTL
-----------------------------------------------------------------------------
(* A narrowing of fewer hosts is broader.                                  *)
LEMMA NarrowedLess ==
    ASSUME NEW r, DOMAIN r = RuleNames, NEW M, NEW hosts, hosts \subseteq M
    PROVE  /\ Broader(Narrowed(r, M), Narrowed(r, hosts), TRUE)
           /\ \A on \in BOOLEAN : Broader(r, Narrowed(r, {}), on)
<1>1. ASSUME NEW H
      PROVE  /\ Narrowed(r, H).uploads = r.uploads \ H
             /\ Narrowed(r, H).parametersOnly = r.parametersOnly \cup H
             /\ Narrowed(r, H).caps = r.caps /\ Narrowed(r, H).overrides = r.overrides
             /\ Narrowed(r, H).budgets = r.budgets /\ Narrowed(r, H).agentBudget = r.agentBudget
             /\ Narrowed(r, H).deniedTools = r.deniedTools
             /\ Narrowed(r, H).servers = r.servers /\ Narrowed(r, H).callHosts = r.callHosts
  BY DEF Narrowed, RuleNames
<1>2. UploadHosts(Narrowed(r, M), TRUE) \subseteq UploadHosts(Narrowed(r, hosts), TRUE)
  BY <1>1 DEF UploadHosts
<1>3. Broader(Narrowed(r, M), Narrowed(r, hosts), TRUE)
  BY <1>1, <1>2, MoreHosts DEF Broader
<1>4. \A on \in BOOLEAN : UploadHosts(Narrowed(r, {}), on) = UploadHosts(r, on)
  BY <1>1 DEF UploadHosts
<1>5. \A on \in BOOLEAN : Broader(r, Narrowed(r, {}), on)
  BY <1>1, <1>4 DEF Broader
<1> QED BY <1>3, <1>5

(* A broader version misplaces no body that was in place.                  *)
LEMMA MisplacedLess ==
    ASSUME NEW r, NEW s, NEW on, Broader(r, s, on), NEW q, NEW kind, Misplaced(s, q, kind, on)
    PROVE  Misplaced(r, q, kind, on)
<1>1. \A k : BodyCounts(k, q.host, s) <=> BodyCounts(k, q.host, r)
  BY BroaderJudges
<1>2. HostAllowed(q.host, UploadHosts(r, on)) => HostAllowed(q.host, UploadHosts(s, on))
  BY DEF Broader
<1> QED BY <1>1, <1>2 DEF Misplaced, Reasons

(* A finite set is listed by its members.                                  *)
LEMMA Listed ==
    ASSUME NEW S, IsFiniteSet(S)
    PROVE  Cardinality(S) \in Nat /\ SetToSeq(S) \in [1..Cardinality(S) -> S]
<1>1. Cardinality(S) \in Nat /\ ExistsBijection(1..Cardinality(S), S)
  BY FS_CardinalityType
<1>2. \E f \in [1..Cardinality(S) -> S] : IsInjective(f)
  BY <1>1 DEF ExistsBijection, Bijection, Injection, IsInjective
<1> QED BY <1>1, <1>2 DEF SetToSeq

OfferStep(view, h, moved) == OfferMove(view, moved, h)

Offering == INSTANCE Folding WITH Op <- OfferStep

(* What is offered, if anything, is safe to move all at once: each host was*)
(* tried with every one offered before it (narrow_uploads_hosts).          *)
LEMMA OfferSafe ==
    ASSUME NEW r, IsFiniteSet(r.uploads), NEW window, NEW stored, NEW on,
           NEW M, M = NarrowUploadsHosts(r, window, stored, on)
    PROVE  M = {} \/ (on /\ SafeToMove(NarrowView(r, window, stored, on), M))
<1> DEFINE view == NarrowView(r, window, stored, on)
           seq  == SetToSeq(r.uploads)
           N    == Cardinality(r.uploads)
           Safe == {m \in SUBSET r.uploads : m = {} \/ SafeToMove(view, m)}
           P    == [n \in 0..N |-> Safe]
<1>1. N \in Nat /\ seq \in [1..N -> r.uploads]
  BY Listed
<1>2. CASE ~on
  BY <1>2 DEF NarrowUploadsHosts
<1>3. CASE on
  <2>1. M = Offering!OfSeq(view, {}, seq)
    BY <1>3 DEF NarrowUploadsHosts, Offering!OfSeq, OfferStep, Offering!FoldLeft, FoldLeft,
                MapThenFoldSet, Offering!MapThenFoldSet, Max, Offering!Max
  <2> HIDE DEF view
  <2>2. {} \in P[0]
    BY <1>1
  <2>3. ASSUME NEW n \in 1..N, NEW m \in P[n - 1] PROVE OfferStep(view, seq[n], m) \in P[n]
    <3>1. seq[n] \in r.uploads /\ m \in Safe /\ P[n] = Safe
      BY <1>1, <2>3
    <3> HIDE DEF P, seq
    <3> QED BY <3>1 DEF OfferStep, OfferMove
  <2>4. DOMAIN seq = 1..N
    BY <1>1
  <2> HIDE DEF P, seq, N
  <2>5. Offering!OfSeq(view, {}, seq) \in P[N]
    BY <1>1, <2>2, <2>3, <2>4, Offering!SeqFoldKeeps
  <2>6. P[N] = Safe
    BY <1>1 DEF P
  <2> QED BY <1>3, <2>1, <2>5, <2>6 DEF view
<1> QED BY <1>2, <1>3

(* Any part of what is offered to be narrowed starts nothing.              *)
LEMMA NarrowingStartsNothing ==
    ASSUME LifeInv, FiniteOK
    PROVE  NarrowStartsNothing
<1> DEFINE all   == Captures(clock - Day, clock)
           day   == {q \in all : q.mine}
           kinds == WindowBodyKinds(day, Rules.overrides, Rules.callHosts,
                                    Rules.budgets, Rules.agentBudget)
           view  == NarrowView(Rules, day, rows, kindsOn)
           M     == NarrowUploadsHosts(Rules, day, rows, kindsOn)
<1> SUFFICES ASSUME active # 0, NEW hosts \in SUBSET NarrowOffer, hosts # {}
             PROVE  /\ \A row \in rows : ItemAllowed(Rules, row, kindsOn) =>
                          ItemAllowed(Narrowed(Rules, hosts), row, kindsOn)
                    /\ \A q \in day : ~Misplaced(Rules, q, kinds[q], kindsOn) =>
                          ~Misplaced(Narrowed(Rules, hosts), q, kinds[q], kindsOn)
  BY DEF NarrowStartsNothing
(* Something is offered, so all of the day's requests are read.            *)
<1>0. Recent = day
  <2>1. Cardinality(all) < PROPOSAL_MAX_REQUESTS /\ IsFiniteSet(all) /\ Cardinality(all) \in Nat
    <3>1. IsFiniteSet(all)
      BY FS_Subset DEF FiniteOK, Captures
    <3>2. ~(Cardinality(all) >= PROPOSAL_MAX_REQUESTS)
      BY DEF NarrowOffer
    <3> HIDE DEF all
    <3> QED BY <3>1, <3>2, FS_CardinalityType, ReadLimitAssumption
  <2>2. ASSUME NEW q \in all PROVE Cardinality({p \in all : Newer(p, q)}) < PROPOSAL_MAX_REQUESTS
    <3> HIDE DEF all
    <3>1. {p \in all : Newer(p, q)} \subseteq all
      OBVIOUS
    <3>2. /\ Cardinality({p \in all : Newer(p, q)}) \in Nat
          /\ Cardinality({p \in all : Newer(p, q)}) <= Cardinality(all)
      BY <2>1, <3>1, FS_Subset, FS_CardinalityType
    <3> QED BY <2>1, <3>2, ReadLimitAssumption
  <2> QED BY <2>2 DEF Recent, OwnedRequests
<1> HIDE DEF all, day
<1>1. /\ DOMAIN Rules = RuleNames /\ IsFiniteSet(Rules.uploads) /\ kindsOn \in BOOLEAN
      /\ \A row \in rows : RowOK(row)
  BY RulesOK DEF LifeInv, RequestsOK, RowsOK, VersionsOK, FiniteOK, Rules
<1>2. hosts \subseteq M
  BY <1>0 DEF NarrowOffer
<1>3. M = {} \/ (kindsOn /\ SafeToMove(view, M))
  BY <1>1, OfferSafe
<1>4. /\ view.rules = Rules /\ view.kinds = kinds /\ view.on = kindsOn
      /\ view.fine = {q \in day : ~Misplaced(Rules, q, kinds[q], kindsOn)}
      /\ view.quiet = {row \in rows : ItemAllowed(Rules, row, kindsOn)}
  BY DEF NarrowView
<1> HIDE DEF M, view, kinds
<1>5. kindsOn = TRUE /\ SafeToMove(view, M)
  BY <1>1, <1>2, <1>3
<1>6. Broader(Narrowed(Rules, M), Narrowed(Rules, hosts), kindsOn)
  BY <1>1, <1>2, <1>5, NarrowedLess
<1>7. /\ \A q \in view.fine : ~Misplaced(Narrowed(Rules, M), q, kinds[q], kindsOn)
      /\ \A row \in view.quiet : ItemAllowed(Narrowed(Rules, M), row, kindsOn)
  BY <1>4, <1>5 DEF SafeToMove
<1>8. ASSUME NEW row \in rows, ItemAllowed(Rules, row, kindsOn)
      PROVE  ItemAllowed(Narrowed(Rules, hosts), row, kindsOn)
  <2>1. ItemAllowed(Narrowed(Rules, M), row, kindsOn)
    BY <1>4, <1>7, <1>8
  <2> QED BY <1>1, <1>6, <2>1, BroaderAllows
<1>9. ASSUME NEW q \in day, ~Misplaced(Rules, q, kinds[q], kindsOn)
      PROVE  ~Misplaced(Narrowed(Rules, hosts), q, kinds[q], kindsOn)
  <2>1. ~Misplaced(Narrowed(Rules, M), q, kinds[q], kindsOn)
    BY <1>4, <1>7, <1>9
  <2> QED BY <1>6, <2>1, MisplacedLess
<1> QED BY <1>8, <1>9

(* Taking any part of the hosts offered for narrowing starts no row and    *)
(* misplaces no body of the last day, though only so many requests are read*)
(* (narrow_uploads_hosts, _narrow_offer_locked).                           *)
THEOREM NarrowingIsSafe == Spec => []NarrowStartsNothing
<1>1. LifeInv /\ FiniteOK => NarrowStartsNothing
  BY NarrowingStartsNothing
<1> QED BY <1>1, FiniteTables, LifeInvariant, PTL
-----------------------------------------------------------------------------
(* The exported policy *)

(* A host's labels are strings.  (The provers know of no string that it is *)
(* one, so the two the code writes itself are named.)                      *)
Label == STRING \cup {"*", "(unknown host)"}

(* A host made of strings is made of labels.                               *)
LEMMA StringLabels == Seq(STRING) \subseteq Seq(Label)
<1> SUFFICES ASSUME NEW s \in Seq(STRING) PROVE s \in Seq(Label)
  OBVIOUS
<1>1. \A n \in 1..Len(s) : s[n] \in STRING
  OBVIOUS
<1>2. STRING \subseteq Label
  BY DEF Label
<1>3. \A n \in 1..Len(s) : s[n] \in Label
  BY <1>1, <1>2
<1> QED BY <1>3

(* What a list of hosts holds: hosts and wildcards, as lists of labels.    *)
Patterns == {h \in Seq(Label) : IsHostPattern(h)}

(* The calls of every version are such a list, whatever was declared,      *)
(* allowed or edited into it.                                              *)
HostsOK ==
    /\ \A row \in rows : CallRow(row) => row.item \in Seq(Label)
    /\ \A n \in DOMAIN versions : versions[n].callHosts \subseteq Patterns
    /\ DeclaredHosts(bundle) \subseteq Seq(Label)
    /\ \A e \in UNION policy : e.host \in Seq(Label)

(* A sequence of one is one of its elements.                               *)
LEMMA OneOf ==
    ASSUME NEW S, NEW x \in S
    PROVE  <<x>> \in Seq(S)
OBVIOUS

(* A list's entry is written in a policy as it is.                         *)
LEMMA PatternIsItself ==
    ASSUME NEW h \in Patterns
    PROVE  EndpointHostPattern(h) = h /\ h # NoHost
<1>1. h \in Seq(Label) /\ IsHostPattern(h)
  BY DEF Patterns
<1>2. h # <<>>
  BY <1>1 DEF IsHostPattern, Wild
<1>3. Head(h) = h[1] /\ 1 \in DOMAIN h
  BY <1>1, <1>2
<1>4. Head(h) # "**"
  <2>1. CASE Wild(h)
    BY <2>1 DEF Wild
  <2>2. CASE ~Wild(h)
    BY <1>1, <1>3, <2>2 DEF IsHostPattern
  <2> QED BY <2>1, <2>2
<1> QED BY <1>1, <1>2, <1>4 DEF EndpointHostPattern, NoHost

(* An endpoint's host, written as a list writes it, is one of a list.      *)
LEMMA EndpointIsPattern ==
    ASSUME NEW h \in Seq(Label), EndpointHostPattern(h) # NoHost
    PROVE  EndpointHostPattern(h) \in Patterns
<1> DEFINE p == IF h # NoHost /\ Head(h) = "**" THEN <<"*">> \o Tail(h) ELSE h
<1>1. EndpointHostPattern(h) = p /\ IsHostPattern(p)
  BY DEF EndpointHostPattern
<1>2. p \in Seq(Label)
  <2>1. CASE h # NoHost /\ Head(h) = "**"
    <3>1. h # <<>>
      BY <2>1 DEF NoHost
    <3>2. Tail(h) \in Seq(Label)
      BY <3>1
    <3>3. <<"*">> \in Seq(Label)
      <4>1. "*" \in Label
        BY DEF Label
      <4> QED BY <4>1, OneOf
    <3>4. <<"*">> \o Tail(h) \in Seq(Label)
      BY <3>2, <3>3
    <3> QED BY <2>1, <3>4
  <2>2. CASE ~(h # NoHost /\ Head(h) = "**")
    BY <2>2
  <2> QED BY <2>1, <2>2
<1> QED BY <1>1, <1>2 DEF Patterns

(* A host is covered by itself.                                            *)
LEMMA CoversItself ==
    ASSUME NEW h \in Patterns, NEW hosts, h \in hosts
    PROVE  PatternCovered(h, hosts)
<1>1. CASE ~Wild(h)
  BY <1>1 DEF PatternCovered, HostMatches
<1>2. CASE Wild(h)
  <2>1. h \in Seq(Label) /\ h # <<>>
    BY <1>2, PatternIsItself DEF Patterns, NoHost
  <2>2. Tail(h) \in Seq(Label)
    BY <2>1
  <2>3. DOMAIN Reverse(Tail(h)) = 1..Len(Tail(h)) /\ Len(Tail(h)) \in Nat
    BY <2>2 DEF Reverse
  <2>4. Len(Reverse(Tail(h))) = Len(Tail(h))
    BY <2>3
  <2>5. IsSuffix(Tail(h), Tail(h))
    BY <2>3, <2>4 DEF IsSuffix, IsPrefix
  <2> QED BY <1>2, <2>5 DEF PatternCovered
<1> QED BY <1>1, <1>2

(* A host's own endpoints, as they are written.                            *)
LEMMA HostExportIs ==
    ASSUME NEW r, NEW pol, NEW h, NEW e \in HostExport(r, pol, h)
    PROVE  \/ /\ e.host = h /\ e.tools = {} /\ e.binaries = HostBinaries(pol, h)
              /\ e.access = "any" \/ e.access = IF Writes(r, h) THEN "read-write" ELSE "read-only"
           \/ \E m \in McpHere(pol, h) : e = McpEndpoint(r, pol, h, m)
<1>1. \/ e \in RestEndpoint(r, pol, h) \/ e \in L4Endpoint(pol, h)
      \/ \E m \in McpHere(pol, h) : e = McpEndpoint(r, pol, h, m)
  BY DEF HostExport
<1>2. CASE e \in RestEndpoint(r, pol, h)
  BY <1>2 DEF RestEndpoint
<1>3. CASE e \in L4Endpoint(pol, h)
  BY <1>3 DEF L4Endpoint
<1> QED BY <1>1, <1>2, <1>3

(* Every host called has an endpoint of its own, which takes a body where  *)
(* the version lets one through.                                           *)
LEMMA HostExported ==
    ASSUME NEW r, NEW pol, NEW h
    PROVE  \E e \in HostExport(r, pol, h) :
              /\ e.host = h \/ EndpointHostPattern(e.host) = h
              /\ Writes(r, h) => e.access # "read-only"
<1> DEFINE sources == RestSources(pol, h)
           ports == IF L7Ports(sources) # {} THEN L7Ports(sources)
                    ELSE IF L4Ports(sources) = {} /\ ~L4Bare(sources) THEN {EXPORT_PORT} ELSE {}
<1>1. CASE sources # {} \/ McpHere(pol, h) = {}
  <2>1. RestEndpoint(r, pol, h) \cup L4Endpoint(pol, h) \subseteq HostExport(r, pol, h)
    BY <1>1 DEF HostExport
  <2>2. CASE ports # {}
    <3> DEFINE e == [host |-> h, protocol |-> "rest", ports |-> ports, pin |-> Pin(sources),
                     access |-> IF Writes(r, h) THEN "read-write" ELSE "read-only",
                     tools |-> {}, binaries |-> HostBinaries(pol, h)]
    <3>1. e \in RestEndpoint(r, pol, h)
      BY <2>2 DEF RestEndpoint
    <3>2. e.host = h /\ (Writes(r, h) => e.access # "read-only")
      OBVIOUS
    <3> QED BY <2>1, <3>1, <3>2
  <2>3. CASE ports = {}
    <3> DEFINE e == [host |-> h, protocol |-> "none", ports |-> L4Ports(sources),
                     pin |-> Pin(sources), access |-> "any", tools |-> {},
                     binaries |-> HostBinaries(pol, h)]
    <3>0. ~(L4Ports(sources) = {} /\ ~L4Bare(sources))
      BY <2>3
    <3>1. e \in L4Endpoint(pol, h)
      BY <3>0 DEF L4Endpoint
    <3>2. e.host = h /\ e.access # "read-only"
      OBVIOUS
    <3> QED BY <2>1, <3>1, <3>2
  <2> QED BY <2>2, <2>3
<1>2. CASE ~(sources # {} \/ McpHere(pol, h) = {})
  <2>1. PICK m \in McpHere(pol, h) : TRUE
    BY <1>2
  <2>2. EndpointHostPattern(m.host) = h
    BY <2>1 DEF McpHere, Own
  <2> DEFINE e == McpEndpoint(r, pol, h, m)
  <2>3. e \in HostExport(r, pol, h)
    BY <2>1 DEF HostExport
  <2>4. e.host = m.host /\ e.access # "read-only"
    BY DEF McpEndpoint
  <2> QED BY <2>2, <2>3, <2>4
<1> QED BY <1>1, <1>2

(* An export opens no more than the version allows, and closes nothing it  *)
(* lists.                                                                  *)
LEMMA Exports ==
    ASSUME LifeInv, HostsOK
    PROVE  ExportWithin
<1> DEFINE r == Rules
           out == Export(r, policy)
           gaps == Gaps(r, policy)
           takes == r.uploads \cup r.parametersOnly
           Of(host) == {e \in out : HostMatches(host, EndpointHostPattern(e.host))}
<1> SUFFICES ASSUME active # 0
             PROVE  /\ \A e \in out :
                       /\ PatternCovered(EndpointHostPattern(e.host), r.callHosts)
                       /\ e.access = "read-write" =>
                             PatternCovered(EndpointHostPattern(e.host), takes)
                       /\ e.tools \cap DeniedToolNames(r) = {}
                       /\ AllTools \in e.tools => DeniedToolNames(r) \subseteq gaps.stillAllowed
                       /\ e.binaries = {} => EndpointHostPattern(e.host) \in gaps.noBinary
                    /\ \A host \in {h \in r.callHosts : ~Wild(h) /\ ~Loopback(h)} :
                         /\ Of(host) # {}
                         /\ HostAllowed(host, takes) => \E e \in Of(host) : e.access # "read-only"
                    /\ \A host \in r.uploads :
                         \/ PatternCovered(host, r.callHosts)
                         \/ host \in gaps.uploads \cup gaps.loopback
  BY DEF ExportWithin
<1>1. active \in DOMAIN versions
  BY DEF LifeInv, VersionsOK
<1>2. r.callHosts \subseteq Patterns
  BY <1>1 DEF HostsOK, Rules
<1> HIDE DEF r
<1>3. /\ gaps.noBinary = {h \in Exported(r) : HostBinaries(policy, h) = {}}
      /\ gaps.stillAllowed = UNION {StillAllowed(r, m) :
                                      m \in UNION {McpHere(policy, h) : h \in Exported(r)}}
      /\ gaps.uploads = {h \in r.uploads : ~PatternCovered(h, r.callHosts) /\ ~Loopback(h)}
      /\ gaps.loopback = {h \in r.callHosts \cup r.uploads : Loopback(h)}
  BY DEF Gaps
<1> HIDE DEF gaps
<1>4. ASSUME NEW e \in out
      PROVE  /\ PatternCovered(EndpointHostPattern(e.host), r.callHosts)
             /\ e.access = "read-write" => PatternCovered(EndpointHostPattern(e.host), takes)
             /\ e.tools \cap DeniedToolNames(r) = {}
             /\ AllTools \in e.tools => DeniedToolNames(r) \subseteq gaps.stillAllowed
             /\ e.binaries = {} => EndpointHostPattern(e.host) \in gaps.noBinary
  <2>1. PICK h \in Exported(r) : e \in HostExport(r, policy, h)
    BY <1>4 DEF Export
  <2>2. h \in r.callHosts /\ h \in Patterns
    BY <1>2, <2>1 DEF Exported
  <2>3. PatternCovered(h, r.callHosts) /\ EndpointHostPattern(h) = h
    BY <2>2, CoversItself, PatternIsItself
  <2>4. ASSUME e.host = h, e.tools = {}, e.binaries = HostBinaries(policy, h),
               e.access = "any" \/ e.access = IF Writes(r, h) THEN "read-write" ELSE "read-only"
        PROVE  /\ PatternCovered(EndpointHostPattern(e.host), r.callHosts)
               /\ e.access = "read-write" => PatternCovered(EndpointHostPattern(e.host), takes)
               /\ e.tools \cap DeniedToolNames(r) = {}
               /\ AllTools \in e.tools => DeniedToolNames(r) \subseteq gaps.stillAllowed
               /\ e.binaries = {} => EndpointHostPattern(e.host) \in gaps.noBinary
    <3>1. EndpointHostPattern(e.host) = h
      BY <2>3, <2>4
    <3>2. e.access = "read-write" => Writes(r, h)
      BY <2>4
    <3>3. Writes(r, h) => PatternCovered(h, takes)
      BY DEF Writes
    <3>4. e.tools \cap DeniedToolNames(r) = {} /\ AllTools \notin e.tools
      BY <2>4
    <3>5. e.binaries = {} => h \in gaps.noBinary
      BY <1>3, <2>1, <2>4
    <3> QED BY <2>3, <3>1, <3>2, <3>3, <3>4, <3>5
  <2>5. ASSUME NEW m \in McpHere(policy, h), e = McpEndpoint(r, policy, h, m)
        PROVE  /\ PatternCovered(EndpointHostPattern(e.host), r.callHosts)
               /\ e.access = "read-write" => PatternCovered(EndpointHostPattern(e.host), takes)
               /\ e.tools \cap DeniedToolNames(r) = {}
               /\ AllTools \in e.tools => DeniedToolNames(r) \subseteq gaps.stillAllowed
               /\ e.binaries = {} => EndpointHostPattern(e.host) \in gaps.noBinary
    <3>1. EndpointHostPattern(m.host) = h
      BY DEF McpHere, Own
    <3>2. /\ e.host = m.host /\ e.access = "tools" /\ e.tools = m.tools \ DeniedToolNames(r)
          /\ e.binaries = IF m.binaries # {} THEN m.binaries ELSE HostBinaries(policy, h)
      BY <2>5 DEF McpEndpoint, McpTools
    <3>3. AllTools \in m.tools => DeniedToolNames(r) \subseteq gaps.stillAllowed
      <4> SUFFICES ASSUME AllTools \in m.tools PROVE DeniedToolNames(r) \subseteq gaps.stillAllowed
        OBVIOUS
      <4>1. StillAllowed(r, m) = DeniedToolNames(r)
        BY DEF StillAllowed
      <4>2. m \in UNION {McpHere(policy, x) : x \in Exported(r)}
        BY <2>1, <2>5
      <4>3. StillAllowed(r, m) \subseteq gaps.stillAllowed
        BY <1>3, <4>2
      <4> QED BY <4>1, <4>3
    <3>4. e.binaries = {} => h \in gaps.noBinary
      BY <1>3, <2>1, <3>2
    <3>5. e.access # "read-write" /\ e.tools \cap DeniedToolNames(r) = {}
          /\ (AllTools \in e.tools => AllTools \in m.tools)
      BY <3>2
    <3> QED BY <2>3, <3>1, <3>2, <3>3, <3>4, <3>5
  <2> QED BY <2>1, <2>4, <2>5, HostExportIs
<1>5. ASSUME NEW host \in r.callHosts, ~Wild(host), ~Loopback(host)
      PROVE  \E e \in Of(host) : HostAllowed(host, takes) => e.access # "read-only"
  <2>1. host \in Patterns /\ EndpointHostPattern(host) = host /\ host \in Exported(r)
    BY <1>2, <1>5, PatternIsItself DEF Exported
  <2>2. PICK e \in HostExport(r, policy, host) :
              /\ e.host = host \/ EndpointHostPattern(e.host) = host
              /\ Writes(r, host) => e.access # "read-only"
    BY HostExported
  <2>3. EndpointHostPattern(e.host) = host
    BY <2>1, <2>2
  <2>4. e \in out
    BY <2>1, <2>2 DEF Export
  <2>5. HostMatches(host, host)
    BY <1>5 DEF HostMatches
  <2>6. HostAllowed(host, takes) => Writes(r, host)
    BY <1>5 DEF HostAllowed, Writes, PatternCovered
  <2> QED BY <2>2, <2>3, <2>4, <2>5, <2>6
<1>6. ASSUME NEW host \in r.uploads
      PROVE  PatternCovered(host, r.callHosts) \/ host \in gaps.uploads \cup gaps.loopback
  BY <1>3, <1>6
<1> HIDE DEF out, Of, takes
<1> QED BY <1>4, <1>5, <1>6

(* Judging a request leaves only rows of a host's calls that name a host.  *)
LEMMA JudgedHosts ==
    ASSUME LifeInv, HostsOK, NEW q, FromShape(q), NEW clk, Judge(q, clk)
    PROVE  \A row \in rows' : CallRow(row) => row.item \in Seq(Label)
<1>1. HostItem(q.host) \in Seq(Label)
  <2>1. q.host \in Seq(Label)
    BY HostsAssumption, StringLabels DEF LifeInv, RequestsOK, FromShape
  <2>2. UNKNOWN_HOST \in Seq(Label)
    <3>1. "(unknown host)" \in Label
      BY DEF Label
    <3> QED BY <3>1, OneOf DEF UNKNOWN_HOST
  <2> QED BY <2>1, <2>2 DEF HostItem
<1>2. \E kind, hits : /\ hits \subseteq EvaluateRequest(Rules, q, kind, kindsOn)
                      /\ rows' = Recorded(rows, hits)
  BY DEF Judge, OnePerRow
<1>3. PICK kind, hits : /\ hits \subseteq EvaluateRequest(Rules, q, kind, kindsOn)
                        /\ rows' = Recorded(rows, hits)
  BY <1>2
<1>4. \A h \in hits :
         /\ h = [rule |-> h.rule, item |-> h.item, detail |-> h.detail]
         /\ CallRow(h) => h.item = HostItem(q.host)
         /\ h.rule = "out_of_spec_calls" =>
               h.detail = [form |-> "host"] \/ h.detail.form = "mcp_server"
  <2> SUFFICES ASSUME NEW h \in hits
               PROVE  /\ h = [rule |-> h.rule, item |-> h.item, detail |-> h.detail]
                      /\ CallRow(h) => h.item = HostItem(q.host)
                      /\ h.rule = "out_of_spec_calls" =>
                            h.detail = [form |-> "host"] \/ h.detail.form = "mcp_server"
    OBVIOUS
  <2>1. kindsOn \in BOOLEAN
    BY DEF LifeInv, RequestsOK
  <2>2. /\ h = [rule |-> h.rule, item |-> h.item, detail |-> h.detail]
        /\ \/ h.rule = "uploads"
           \/ h.rule = "out_of_spec_calls" /\ h.item = HostItem(q.host)
                /\ h.detail = [form |-> "host"]
           \/ h.rule = "out_of_spec_calls" /\ h.detail.form = "mcp_server"
    BY <1>3, <2>1, Hits
  <2> QED BY <2>2 DEF CallRow
<1>5. \A row \in Recorded(rows, hits) :
         \/ row \in rows
         \/ row \in hits
         \/ \E h \in hits, o \in rows :
               row = [h EXCEPT !.detail = MergedDetail(o.detail, h.detail)]
  BY <1>4, RecordedRows
<1> SUFFICES ASSUME NEW row \in rows', CallRow(row) PROVE row.item \in Seq(Label)
  OBVIOUS
<1>6. row \in Recorded(rows, hits)
  BY <1>3
<1>7. CASE row \in rows
  BY <1>7 DEF HostsOK
<1>8. CASE row \in hits
  BY <1>1, <1>4, <1>8
<1>9. ASSUME NEW h \in hits, NEW o \in rows,
             row = [h EXCEPT !.detail = MergedDetail(o.detail, h.detail)]
      PROVE  row.item \in Seq(Label)
  <2>1. /\ h = [rule |-> h.rule, item |-> h.item, detail |-> h.detail]
        /\ CallRow(h) => h.item = HostItem(q.host)
        /\ h.rule = "out_of_spec_calls" =>
              h.detail = [form |-> "host"] \/ h.detail.form = "mcp_server"
    BY <1>4
  <2>2. /\ row.rule = h.rule /\ row.item = h.item
        /\ row.detail = MergedDetail(o.detail, h.detail)
    BY <1>9, <2>1
  <2>3. h.rule = "out_of_spec_calls"
    BY <2>2 DEF CallRow
  <2>4. row.detail = h.detail
    BY <2>1, <2>2, <2>3 DEF MergedDetail
  <2> QED BY <1>1, <2>1, <2>2, <2>4 DEF CallRow
<1> QED BY <1>5, <1>6, <1>7, <1>8, <1>9

(* What an allowed row adds to the calls is a host a list can hold.        *)
LEMMA AllowedPatterns ==
    ASSUME LifeInv, HostsOK, NEW r, r.callHosts \subseteq Patterns, NEW chosen, chosen \subseteq rows,
           \A row \in chosen : OneClick(r, row, kindsOn),
           NEW t, CallsFrom(t, r, chosen)
    PROVE  t.callHosts \subseteq Patterns
<1> SUFFICES ASSUME NEW h \in t.callHosts PROVE h \in Patterns
  OBVIOUS
<1>1. CASE h \in r.callHosts
  BY <1>1
<1>2. ASSUME NEW row \in chosen, CallRow(row), h = row.item PROVE h \in Patterns
  <2>1. IsHostPattern(h)
    BY <1>2 DEF OneClick, CallRow
  <2>2. h \in Seq(Label)
    BY <1>2 DEF HostsOK
  <2> QED BY <2>1, <2>2 DEF Patterns
<1> QED BY <1>1, <1>2 DEF CallsFrom

(* A version made with a list of call hosts.                               *)
LEMMA VersionHosts ==
    ASSUME LifeInv, HostsOK, NEW r, DOMAIN r = RuleNames, r.callHosts \subseteq Patterns,
           CreateVersion(r), rows' = rows, bundle' = bundle, policy' = policy
    PROVE  HostsOK'
<1>1. /\ active' = Len(versions) + 1 /\ versions'[active'] = r
      /\ \A n \in DOMAIN versions : versions'[n] = versions[n]
  BY NewVersion DEF LifeInv
<1>2. /\ versions' = Append(versions, r) /\ Len(versions) \in Nat
      /\ DOMAIN versions = 1..Len(versions) /\ versions \in Seq(ToSet(versions))
  BY DEF LifeInv, VersionsOK, CreateVersion
<1>3. \A n \in DOMAIN versions' : n \in DOMAIN versions \/ n = Len(versions) + 1
  <2>1. Len(versions') = Len(versions) + 1 /\ DOMAIN versions' = 1..(Len(versions) + 1)
    BY <1>2
  <2> QED BY <1>2, <2>1
<1> QED BY <1>1, <1>3 DEF HostsOK

(* What an ASP declares and a policy names is a host a list can hold.      *)
LEMMA SeededPatterns ==
    ASSUME HostsOK
    PROVE  DeclaredHosts(bundle) \subseteq Patterns /\ SeedHosts(policy) \subseteq Patterns
<1>1. DeclaredHosts(bundle) \subseteq Patterns
  <2>1. \A h \in DeclaredHosts(bundle) : IsHostPattern(h)
    BY DEF DeclaredHosts
  <2> QED BY <2>1 DEF HostsOK, Patterns
<1>2. SeedHosts(policy) \subseteq Patterns
  BY EndpointIsPattern DEF SeedHosts, HostsOK
<1> QED BY <1>1, <1>2

(* Every step keeps the calls of every version such a list.                *)
LEMMA HostsStep == LifeInv /\ FiniteOK /\ HostsOK /\ [Next]_vars => HostsOK'
<1> SUFFICES ASSUME LifeInv, FiniteOK, HostsOK, [Next]_vars PROVE HostsOK'
  OBVIOUS
<1>0. active # 0 => DOMAIN Rules = RuleNames /\ Rules.callHosts \subseteq Patterns
  BY RulesOK DEF LifeInv, VersionsOK, HostsOK, Rules
<1>w. world \in Worlds
  BY DEF LifeInv, RequestsOK
<1>1. ASSUME NEW shape \in world.shapes, NEW lag,
             Arrive(shape, lag) \/ ArriveHeld(shape, lag)
      PROVE  HostsOK'
  <2> DEFINE q == Captured(shape, lag)
  <2>1. FromShape(q)
    BY DEF FromShape, Captured
  <2> HIDE DEF q
  <2>2. /\ versions' = versions /\ bundle' = bundle /\ policy' = policy
        /\ rows' = rows \/ Judge(q, clock)
    BY <1>1 DEF Arrive, ArriveHeld, checkVars, policyVars, q
  <2>3. \A row \in rows' : CallRow(row) => row.item \in Seq(Label)
    BY <2>1, <2>2, JudgedHosts DEF HostsOK
  <2> QED BY <2>2, <2>3 DEF HostsOK
<1>2. ASSUME NEW h \in held, NEW denied \in BOOLEAN, Release(h, denied) PROVE HostsOK'
  <2>1. /\ versions' = versions /\ bundle' = bundle /\ policy' = policy /\ FromShape(h.request)
        /\ rows' = rows \/ Judge(h.request, h.at)
    BY <1>2 DEF Release, checkVars, policyVars, LifeInv, RequestsOK
  <2>2. \A row \in rows' : CallRow(row) => row.item \in Seq(Label)
    BY <2>1, JudgedHosts DEF HostsOK
  <2> QED BY <2>1, <2>2 DEF HostsOK
<1>3. ASSUME NEW edit, edit \in world.edits \/ edit = <<>>, NEW r, DOMAIN r = RuleNames,
             r.callHosts \subseteq Patterns
      PROVE  DOMAIN Edited(r, edit) = RuleNames /\ Edited(r, edit).callHosts \subseteq Patterns
  <2>1. "callHosts" \in DOMAIN edit => edit.callHosts \subseteq Patterns
    <3>1. CASE edit \in world.edits
      BY <1>w, <3>1, EditAssumption, StringLabels DEF Patterns
    <3>2. CASE edit = <<>>
      BY <3>2
    <3> QED BY <1>3, <3>1, <3>2
  <2> QED BY <1>3, <2>1 DEF Edited, RuleNames
<1>4. ASSUME NEW edit, edit \in world.edits \/ edit = <<>>, Adopt(edit) PROVE HostsOK'
  <2> DEFINE p == ProposedRules(world.bundle, Baseline, policy, kindsOn)
  <2>1. DOMAIN p = RuleNames
    BY DEF ProposedRules, RuleNames
  <2>2. p.callHosts \subseteq Patterns
    <3>1. DeclaredHosts(world.bundle) \subseteq Patterns
      <4>1. \A h \in DeclaredHosts(world.bundle) : IsHostPattern(h)
        BY DEF DeclaredHosts
      <4>2. DeclaredHosts(world.bundle) \subseteq Seq(Label)
        BY <1>w, HostsAssumption, StringLabels
      <4> QED BY <4>1, <4>2 DEF Patterns
    <3>2. p.callHosts \subseteq DeclaredHosts(world.bundle) \cup SeedHosts(policy)
      BY DEF ProposedRules
    <3> HIDE DEF p
    <3> QED BY <3>1, <3>2, SeededPatterns
  <2> HIDE DEF p
  <2>3. CreateVersion(Edited(p, edit)) /\ rows' = rows /\ bundle' = bundle /\ policy' = policy
    BY <1>4 DEF Adopt, p, Unchecked, Around, checkVars
  <2>4. DOMAIN Edited(p, edit) = RuleNames /\ Edited(p, edit).callHosts \subseteq Patterns
    BY <1>3, <1>4, <2>1, <2>2
  <2> QED BY <2>3, <2>4, VersionHosts
<1>5. ASSUME NEW edit \in world.edits, Edit(edit) PROVE HostsOK'
  <2> DEFINE e == Edited(Rules, edit)
             r == [e EXCEPT !.seenHosts = @ \cup Rules.seenHosts,
                            !.seenServers = @ \cup Rules.seenServers]
  <2>1. DOMAIN e = RuleNames /\ e.callHosts \subseteq Patterns
    BY <1>0, <1>3, <1>5 DEF Edit
  <2>2. CreateVersion(r) /\ rows' = rows /\ bundle' = bundle /\ policy' = policy
    BY <1>5 DEF Edit, Unchecked, Around, checkVars
  <2> HIDE DEF e
  <2>3. DOMAIN r = RuleNames /\ r.callHosts = e.callHosts
    BY <2>1 DEF RuleNames
  <2> HIDE DEF r
  <2> QED BY <2>1, <2>2, <2>3, VersionHosts
<1>6. ASSUME NEW row \in rows, AllowRow(row) PROVE HostsOK'
  <2>1. RowOK(row) /\ active # 0 /\ OneClick(Rules, row, kindsOn)
    BY <1>6 DEF LifeInv, RowsOK, AllowRow
  <2> DEFINE t == WithItemAllowed(Rules, row)
  <2>2. DOMAIN t = RuleNames
    BY <1>0, <2>1, AllowedIsContract
  <2>3. CallsFrom(t, Rules, {row})
    BY <1>0, <2>1, AllowedCalls
  <2>4. CreateVersion(t) /\ rows' = rows /\ bundle' = bundle /\ policy' = policy
    BY <1>6 DEF AllowRow, Unchecked, Around, checkVars
  <2> HIDE DEF t
  <2>5. t.callHosts \subseteq Patterns
    BY <1>0, <2>1, <2>3, AllowedPatterns
  <2> QED BY <2>2, <2>4, <2>5, VersionHosts
<1>7. ASSUME active # 0, NEW chosen \in AllowableSets, AllowRows(chosen) PROVE HostsOK'
  <2> DEFINE t == AllowEach(kindsOn, Rules, chosen)
             u == RowsAllowed(chosen)
  <2>1. chosen \subseteq rows /\ \A x \in chosen : OneClick(Rules, x, kindsOn)
    BY <1>7 DEF AllowableSets
  <2>2. IsFiniteSet(chosen) /\ kindsOn \in BOOLEAN /\ \A x \in chosen : RowOK(x)
    BY <2>1, FS_Subset DEF FiniteOK, LifeInv, RequestsOK, RowsOK
  <2>3. CallsFrom(t, Rules, chosen)
    BY <1>0, <1>7, <2>1, <2>2, AllowAll
  <2>4. u = [Rules EXCEPT !.uploads = t.uploads, !.parametersOnly = t.parametersOnly,
                          !.deniedTools = t.deniedTools, !.callHosts = t.callHosts,
                          !.servers = t.servers]
    BY DEF RowsAllowed
  <2>5. CreateVersion(u) /\ rows' = rows /\ bundle' = bundle /\ policy' = policy
    BY <1>7 DEF AllowRows, Unchecked, Around, checkVars
  <2> HIDE DEF t, u
  <2>6. DOMAIN u = RuleNames /\ u.callHosts = t.callHosts
    BY <1>0, <1>7, <2>4 DEF RuleNames
  <2>7. t.callHosts \subseteq Patterns
    BY <1>0, <1>7, <2>1, <2>3, AllowedPatterns
  <2> QED BY <2>5, <2>6, <2>7, VersionHosts
<1>8. ASSUME NEW hosts, NarrowUploads(hosts) PROVE HostsOK'
  <2>1. /\ CreateVersion(Narrowed(Rules, hosts)) /\ active # 0
        /\ rows' = rows /\ bundle' = bundle /\ policy' = policy
    BY <1>8 DEF NarrowUploads, Unchecked, Around, checkVars
  <2>2. /\ DOMAIN Narrowed(Rules, hosts) = RuleNames
        /\ Narrowed(Rules, hosts).callHosts = Rules.callHosts
    BY <1>0, <2>1 DEF Narrowed, RuleNames
  <2> QED BY <1>0, <2>1, <2>2, VersionHosts
<1>9. ASSUME NEW offer, NEW allow \in BOOLEAN, ChooseDeclared(offer, allow) PROVE HostsOK'
  <2> DEFINE r == WithDeclaredChoice(Rules, offer, allow)
  <2>1. /\ active # 0 /\ CreateVersion(r)
        /\ rows' = rows /\ bundle' = bundle /\ policy' = policy
    BY <1>9 DEF ChooseDeclared, Offers, Unchecked, Around, checkVars
  <2>2. offer.kind = "host" => offer.value \in Patterns
    <3>1. offer.kind = "host" => offer.value \in DeclaredHosts(bundle)
      BY <1>9 DEF ChooseDeclared, Offers, DeclaredOffers
    <3> QED BY <3>1, SeededPatterns
  <2>3. DOMAIN r = RuleNames /\ r.callHosts \subseteq Patterns
    <3>1. CASE offer.kind = "host"
      BY <1>0, <2>1, <2>2, <3>1 DEF WithDeclaredChoice, RuleNames
    <3>2. CASE offer.kind # "host"
      BY <1>0, <2>1, <3>2 DEF WithDeclaredChoice, RuleNames
    <3> QED BY <3>1, <3>2
  <2> HIDE DEF r
  <2> QED BY <2>1, <2>3, VersionHosts
<1>10. ASSUME NEW level, RequireContainment(level) PROVE HostsOK'
  <2> DEFINE r == [Rules EXCEPT !.require = {level}]
  <2>1. /\ active # 0 /\ CreateVersion(r)
        /\ rows' = rows /\ bundle' = bundle /\ policy' = policy
    BY <1>10 DEF RequireContainment, Unchecked, Around, checkVars
  <2>2. DOMAIN r = RuleNames /\ r.callHosts = Rules.callHosts
    BY <1>0, <2>1 DEF RuleNames
  <2> HIDE DEF r
  <2> QED BY <1>0, <2>1, <2>2, VersionHosts
<1>11. CASE \/ active # 0 /\ \E host \in Rules.uploads : DismissNarrow(host)
            \/ \E n \in DOMAIN versions : Switch(n)
            \/ TurnOff \/ Restart \/ Tick \/ UNCHANGED vars
  <2>1. rows' = rows /\ versions' = versions /\ bundle' = bundle /\ policy' = policy
    BY <1>11 DEF DismissNarrow, Switch, TurnOff, Restart, Tick, vars, Around, checkVars, policyVars
  <2> QED BY <2>1 DEF HostsOK
<1>12. ASSUME NEW asp \in world.asps, NewAsp(asp) PROVE HostsOK'
  <2>1. rows' = rows /\ versions' = versions /\ policy' = policy /\ bundle' = asp
    BY <1>12 DEF NewAsp, checkVars, policyVars
  <2>2. DeclaredHosts(asp) \subseteq Seq(Label)
    BY <1>w, <1>12, HostsAssumption, StringLabels
  <2> QED BY <2>1, <2>2 DEF HostsOK
<1>13. ASSUME NEW p \in world.policies, ImportPolicy(p) PROVE HostsOK'
  <2>1. rows' = rows /\ versions' = versions /\ bundle' = bundle /\ policy' = {p}
    BY <1>13 DEF ImportPolicy, checkVars, policyVars
  <2>2. \A e \in p : e.host \in Seq(Label)
    BY <1>w, <1>13, HostsAssumption, StringLabels
  <2> QED BY <2>1, <2>2 DEF HostsOK
<1> QED BY <1>1, <1>2, <1>4, <1>5, <1>6, <1>7, <1>8, <1>9, <1>10, <1>11, <1>12, <1>13 DEF Next

(* An exported policy opens nothing the version does not allow and closes  *)
(* nothing it lists but for the gaps it names (export_policy).             *)
THEOREM ExportIsWithin == Spec => []ExportWithin
<1>1. Init => HostsOK
  BY HostsAssumption, StringLabels DEF Init, HostsOK
<1>2. LifeInv /\ HostsOK => ExportWithin
  BY Exports
<1> QED BY <1>1, <1>2, HostsStep, FiniteTables, LifeInvariant, PTL DEF Spec
=============================================================================
