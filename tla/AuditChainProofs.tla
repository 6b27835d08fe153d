---------------------------- MODULE AuditChainProofs ----------------------------
(***************************************************************************)
(* The audit chain is valid in every reachable state, for any number of    *)
(* units of work, processes and events: the unique constraint on the       *)
(* sequence number is enough, whatever row each unit found latest.  And a  *)
(* payment that the recovery service settles is published exactly when it  *)
(* is audited: its two records differ only between the two inserts of its  *)
(* unit (Paired), from where no unit commits.                              *)
(***************************************************************************)
EXTENDS OutboxWorker, TLAPS

(* The rows have a latest one, unless there are none. *)
HasLatest(rows) == rows = {} \/ \E e \in rows : \A d \in rows : d.seq <= e.seq

(* e links to an event of rows, or to the genesis hash. *)
Linked(e, rows) ==
  \/ e.seq = 1 /\ e.prev = Genesis
  \/ \E d \in rows : d.seq + 1 = e.seq /\ e.prev = d.id

ChainTypes ==
  /\ events \subseteq Event
  /\ mine \in [Units -> SUBSET Event]
  /\ latest \in [Units -> SUBSET Event]
  /\ item \in [Units -> Nat \ {0}]
  /\ pc \in [Units -> Place]

(* No two rows, committed or flushed, share a sequence number. *)
Numbered ==
  /\ \A d, e \in events : d.seq = e.seq => d = e
  /\ \A u \in Units : \A e \in mine[u] :
       /\ \A d \in events : d.seq # e.seq
       /\ \A d \in mine[u] : d.seq = e.seq => d = e
       /\ \A q \in Units \ {u} : \A d \in mine[q] : d.seq # e.seq

Chained ==
  /\ \A e \in events : Linked(e, events)
  /\ \A u \in Units : \A e \in mine[u] : Linked(e, events \cup mine[u])

(* What a unit selected still exists, and is not older than its own rows. *)
Selected ==
  \A u \in Units : pc[u] \in {"wait", "insert"} =>
    /\ latest[u] \subseteq events \cup mine[u]
    /\ mine[u] # {} => latest[u] # {}
    /\ \A e \in latest[u], d \in mine[u] : d.seq <= e.seq

Bounded == HasLatest(events) /\ \A u \in Units : HasLatest(events \cup mine[u])

ChainInv == ChainTypes /\ Numbered /\ Chained /\ Selected /\ Bounded

(* Two sets of rows that each have a latest row have one together. *)
LEMMA UnionHasLatest ==
  ASSUME NEW A \in SUBSET Event, NEW B \in SUBSET Event, HasLatest(A), HasLatest(B)
  PROVE  HasLatest(A \cup B)
<1>1. CASE A = {} \/ B = {}
  BY <1>1 DEF HasLatest
<1>2. CASE A # {} /\ B # {}
  <2>1. PICK a \in A : \A d \in A : d.seq <= a.seq
    BY <1>2 DEF HasLatest
  <2>2. PICK b \in B : \A d \in B : d.seq <= b.seq
    BY <1>2 DEF HasLatest
  <2>3. \A d \in A \cup B : d.seq \in Nat
    BY DEF Event
  <2>4. CASE a.seq <= b.seq
    BY <2>1, <2>2, <2>3, <2>4 DEF HasLatest
  <2>5. CASE ~(a.seq <= b.seq)
    BY <2>1, <2>2, <2>3, <2>5 DEF HasLatest
  <2>. QED BY <2>4, <2>5
<1>. QED BY <1>1, <1>2

(* A single row is its own latest. *)
LEMMA OneHasLatest == ASSUME NEW e \in Event PROVE HasLatest({e})
BY DEF HasLatest, Event

(* The event a unit is about to insert is an event, links to what the unit *)
(* sees, and is newer than the unit's other rows.                          *)
LEMMA NextIsLinked ==
  ASSUME ChainInv, NEW u \in Units, pc[u] = "insert"
  PROVE  /\ NextEvent(u) \in Event
         /\ Linked(NextEvent(u), events \cup mine[u])
         /\ \A d \in mine[u] : d.seq # NextEvent(u).seq
<1>0. /\ events \subseteq Event /\ mine[u] \subseteq Event /\ latest[u] \subseteq Event
      /\ item[u] \in Nat \ {0}
  BY DEF ChainInv, ChainTypes
<1>1. /\ latest[u] \subseteq events \cup mine[u]
      /\ mine[u] # {} => latest[u] # {}
      /\ \A e \in latest[u], d \in mine[u] : d.seq <= e.seq
  BY DEF ChainInv, Selected
<1>2. CASE latest[u] = {}
  <2>1. NextEvent(u) = [seq |-> 1, prev |-> Genesis, id |-> <<u, item[u]>>]
    BY <1>2 DEF NextEvent
  <2>. QED BY <1>0, <1>1, <1>2, <2>1 DEF Event, Ids, Linked
<1>3. CASE latest[u] # {}
  <2>. DEFINE l == CHOOSE e \in latest[u] : TRUE
  <2>1. l \in latest[u]
    BY <1>3
  <2>2. NextEvent(u) = [seq |-> l.seq + 1, prev |-> l.id, id |-> <<u, item[u]>>]
    BY <1>3 DEF NextEvent
  <2>. HIDE DEF l
  <2>3. l \in Event /\ l \in events \cup mine[u]
    BY <1>0, <1>1, <2>1
  <2>4. l.seq \in Nat \ {0} /\ l.id \in Ids
    BY <2>3 DEF Event
  <2>5. NextEvent(u) \in Event
    BY <1>0, <2>2, <2>4 DEF Event, Ids
  <2>6. Linked(NextEvent(u), events \cup mine[u])
    BY <2>2, <2>3 DEF Linked
  <2>7. \A d \in mine[u] : d.seq <= l.seq /\ d.seq \in Nat
    BY <1>0, <1>1, <2>1 DEF Event
  <2>8. NextEvent(u).seq = l.seq + 1
    BY <2>2
  <2>9. \A d \in mine[u] : d.seq # NextEvent(u).seq
    BY <2>4, <2>7, <2>8
  <2>. QED BY <2>5, <2>6, <2>9
<1>. QED BY <1>2, <1>3

(* A step that changes no row and moves no unit into the window between    *)
(* its SELECT and its INSERT keeps the invariant.                          *)
LEMMA RowsKept ==
  ASSUME ChainInv, UNCHANGED <<events, mine>>,
         item' \in [Units -> Nat \ {0}], pc' \in [Units -> Place],
         \A u \in Units : pc'[u] \in {"wait", "insert"} =>
           pc[u] \in {"wait", "insert"} /\ latest'[u] = latest[u],
         latest' \in [Units -> SUBSET Event]
  PROVE  ChainInv'
<1>1. ChainTypes'
  BY DEF ChainInv, ChainTypes
<1>2. Numbered' /\ Chained' /\ Bounded'
  BY DEF ChainInv, Numbered, Chained, Bounded, Linked, HasLatest
<1>3. Selected'
  BY DEF ChainInv, Selected
<1>. QED BY <1>1, <1>2, <1>3 DEF ChainInv

(* The end of a unit, with its rows gone. *)
LEMMA EndKept ==
  ASSUME ChainInv, NEW u \in Units, NEW outcome \in {"idle", "done", "answered"},
         EndUnit(u, outcome), UNCHANGED events
  PROVE  ChainInv'
<1>0. /\ mine' = [mine EXCEPT ![u] = {}] /\ latest' = [latest EXCEPT ![u] = {}]
      /\ pc' = [pc EXCEPT ![u] = outcome] /\ item' = item /\ events' = events
  BY DEF EndUnit
<1>1. ChainTypes'
  BY <1>0 DEF ChainInv, ChainTypes, Place
<1>2. \A q \in Units : mine'[q] \subseteq mine[q] /\ (mine'[q] = mine[q] \/ mine'[q] = {})
  BY <1>0 DEF ChainInv, ChainTypes
<1>3. Numbered'
  BY <1>0, <1>2 DEF ChainInv, Numbered
<1>4. Chained'
  BY <1>0, <1>2 DEF ChainInv, Chained
<1>5. Bounded'
  <2>1. \A q \in Units : events \cup {} = events
    OBVIOUS
  <2>. QED BY <1>0, <1>2, <2>1 DEF ChainInv, Bounded
<1>6. Selected'
  <2>1. \A q \in Units : pc'[q] \in {"wait", "insert"} =>
          q # u /\ pc[q] = pc'[q] /\ mine'[q] = mine[q] /\ latest'[q] = latest[q]
    BY <1>0 DEF ChainInv, ChainTypes
  <2>. QED BY <1>0, <2>1 DEF ChainInv, Selected
<1>. QED BY <1>1, <1>3, <1>4, <1>5, <1>6 DEF ChainInv

(* Every step of a unit of work keeps the invariant. *)
LEMMA ProceedKept ==
  ASSUME ChainInv, NEW u \in Units, Proceed(u) \/ FailUnit(u)
  PROVE  ChainInv'
<1>. USE ChainAssumption
<1>0. /\ mine \in [Units -> SUBSET Event] /\ latest \in [Units -> SUBSET Event]
      /\ events \subseteq Event /\ item \in [Units -> Nat \ {0}] /\ pc \in [Units -> Place]
  BY DEF ChainInv, ChainTypes
<1>1. CASE \E v \in Verdict : Begin(u, v)
  BY <1>0, <1>1, RowsKept DEF Begin, Place
<1>2. CASE EnterLoopLock(u)
  BY <1>0, <1>2, RowsKept DEF EnterLoopLock, Place
<1>3. CASE SelectLatest(u)
  <2>0. /\ latest' = [latest EXCEPT ![u] = LatestOf(events \cup mine[u])]
        /\ pc' = [pc EXCEPT ![u] = "wait"] /\ UNCHANGED <<events, mine, item>>
    BY <1>3 DEF SelectLatest
  <2>1. LatestOf(events \cup mine[u]) \subseteq events \cup mine[u]
    BY DEF LatestOf
  <2>2. ChainTypes'
    BY <1>0, <2>0, <2>1 DEF ChainTypes, Place
  <2>3. Numbered' /\ Chained' /\ Bounded'
    <3>1. Numbered'
      BY <2>0 DEF ChainInv, Numbered
    <3>2. Chained'
      BY <2>0 DEF ChainInv, Chained, Linked
    <3>3. Bounded'
      BY <2>0 DEF ChainInv, Bounded, HasLatest
    <3>. QED BY <3>1, <3>2, <3>3
  <2>4. mine[u] # {} => LatestOf(events \cup mine[u]) # {}
    BY DEF LatestOf, ChainInv, Bounded, HasLatest
  <2>5. \A e \in LatestOf(events \cup mine[u]), d \in mine[u] : d.seq <= e.seq
    BY DEF LatestOf
  <2>6. Selected'
    <3>. SUFFICES ASSUME NEW q \in Units, pc'[q] \in {"wait", "insert"}
                  PROVE  /\ latest'[q] \subseteq events \cup mine[q]
                         /\ mine[q] # {} => latest'[q] # {}
                         /\ \A e \in latest'[q], d \in mine[q] : d.seq <= e.seq
      BY <2>0 DEF Selected
    <3>1. CASE q = u
      BY <1>0, <2>0, <2>1, <2>4, <2>5, <3>1
    <3>2. CASE q # u
      BY <1>0, <2>0, <3>2 DEF ChainInv, Selected
    <3>. QED BY <3>1, <3>2
  <2>. QED BY <2>2, <2>3, <2>6 DEF ChainInv
<1>4. CASE LockLatest(u)
  BY <1>0, <1>4, RowsKept DEF LockLatest, Place
<1>5. CASE InsertEvent(u)
  <2>. DEFINE new == NextEvent(u)
  <2>0. /\ pc[u] = "insert" /\ mine' = [mine EXCEPT ![u] = @ \cup {new}]
        /\ pc' = [pc EXCEPT ![u] = AfterInsert(u)]
        /\ UNCHANGED <<events, latest, item>>
    BY <1>5 DEF InsertEvent
  <2>1. new \in Event /\ Linked(new, events \cup mine[u]) /\ \A d \in mine[u] : d.seq # new.seq
    BY <2>0, NextIsLinked
  <2>2. /\ \A q \in Units \ {u} : \A e \in mine[q] : e.seq # new.seq
        /\ \A e \in events : e.seq # new.seq
    BY <1>5 DEF InsertEvent, MayInsert, Taken
  <2>. HIDE DEF new
  <2>3. /\ mine'[u] = mine[u] \cup {new}
        /\ \A q \in Units \ {u} : mine'[q] = mine[q]
    BY <1>0, <2>0
  <2>4. ChainTypes'
    BY <1>0, <2>0, <2>1 DEF ChainTypes, Place, AfterInsert
  <2>5. Numbered'
    <3>1. \A d, e \in events' : d.seq = e.seq => d = e
      BY <2>0 DEF ChainInv, Numbered
    <3>2. ASSUME NEW q \in Units, NEW e \in mine'[q]
          PROVE  /\ \A d \in events' : d.seq # e.seq
                 /\ \A d \in mine'[q] : d.seq = e.seq => d = e
                 /\ \A p \in Units \ {q} : \A d \in mine'[p] : d.seq # e.seq
      <4>1. CASE q = u /\ e = new
        BY <2>0, <2>1, <2>2, <2>3, <4>1
      <4>2. CASE q = u /\ e # new
        BY <2>0, <2>1, <2>2, <2>3, <4>2 DEF ChainInv, Numbered
      <4>3. CASE q # u
        BY <2>0, <2>1, <2>2, <2>3, <3>2, <4>3 DEF ChainInv, Numbered
      <4>. QED BY <4>1, <4>2, <4>3
    <3>. QED BY <3>1, <3>2 DEF Numbered
  <2>6. Chained'
    <3>1. \A e \in events' : Linked(e, events')
      BY <2>0 DEF ChainInv, Chained
    <3>2. ASSUME NEW q \in Units, NEW e \in mine'[q] PROVE Linked(e, events \cup mine'[q])
      <4>1. CASE q = u
        <5>1. Linked(e, events \cup mine[u])
          BY <2>1, <2>3, <4>1 DEF ChainInv, Chained
        <5>. QED BY <2>3, <4>1, <5>1 DEF Linked
      <4>2. CASE q # u
        BY <2>3, <4>2 DEF ChainInv, Chained
      <4>. QED BY <4>1, <4>2
    <3>. QED BY <2>0, <3>1, <3>2 DEF Chained
  <2>7. Selected'
    <3>1. \A q \in Units : pc'[q] \in {"wait", "insert"} =>
            q # u /\ pc'[q] = pc[q] /\ latest'[q] = latest[q] /\ mine'[q] = mine[q]
      BY <1>0, <2>0, <2>3 DEF AfterInsert
    <3>. QED BY <2>0, <3>1 DEF ChainInv, Selected
  <2>8. Bounded'
    <3>1. HasLatest(events \cup mine[u]) /\ events \cup mine[u] \in SUBSET Event
      BY <1>0 DEF ChainInv, Bounded
    <3>2. HasLatest((events \cup mine[u]) \cup {new})
      BY <2>1, <3>1, OneHasLatest, UnionHasLatest
    <3>3. (events \cup mine[u]) \cup {new} = events \cup mine'[u]
      BY <2>3
    <3>. QED BY <2>0, <2>3, <3>2, <3>3 DEF ChainInv, Bounded
  <2>. QED BY <2>4, <2>5, <2>6, <2>7, <2>8 DEF ChainInv
<1>6. CASE RefuseEvent(u)
  BY <1>0, <1>6, RowsKept DEF RefuseEvent, AfterRefusal, Place
<1>7. CASE PublishEvent(u)
  <2>1. /\ item' \in [Units -> Nat \ {0}] /\ pc' \in [Units -> Place]
        /\ UNCHANGED <<events, mine, latest>>
    <3>1. CASE item[u] < ItemsOf[u]
      <4>1. item' = [item EXCEPT ![u] = @ + 1] /\ pc' = [pc EXCEPT ![u] = "append"]
        BY <1>7, <3>1 DEF PublishEvent
      <4>2. item[u] + 1 \in Nat \ {0}
        BY <1>0
      <4>. QED BY <1>0, <1>7, <4>1, <4>2 DEF PublishEvent, Place
    <3>2. CASE ~(item[u] < ItemsOf[u])
      BY <1>0, <1>7, <3>2 DEF PublishEvent, Place
    <3>. QED BY <3>1, <3>2
  <2>2. \A q \in Units : pc'[q] \in {"wait", "insert"} => pc[q] \in {"wait", "insert"}
    BY <1>0, <1>7 DEF PublishEvent, Place
  <2>. QED BY <1>0, <2>1, <2>2, RowsKept
<1>8. CASE AnswerAuth(u)
  BY <1>0, <1>8, RowsKept DEF AnswerAuth, Place
<1>9. CASE CommitUnit(u)
  <2>0. /\ events' = events \cup mine[u] /\ mine' = [mine EXCEPT ![u] = {}]
        /\ latest' = [latest EXCEPT ![u] = {}] /\ pc' = [pc EXCEPT ![u] = "done"]
        /\ item' = item
    BY <1>9 DEF CommitUnit, EndUnit
  <2>1. mine'[u] = {} /\ \A q \in Units \ {u} : mine'[q] = mine[q]
    BY <1>0, <2>0
  <2>2. ChainTypes'
    BY <1>0, <2>0 DEF ChainTypes, Place
  <2>3. Numbered'
    BY <2>0, <2>1 DEF ChainInv, Numbered
  <2>4. Chained'
    <3>1. \A e \in events' : Linked(e, events')
      BY <2>0 DEF ChainInv, Chained, Linked
    <3>2. \A q \in Units : \A e \in mine'[q] : Linked(e, events' \cup mine'[q])
      BY <2>0, <2>1 DEF ChainInv, Chained, Linked
    <3>. QED BY <3>1, <3>2 DEF Chained
  <2>5. Selected'
    <3>1. \A q \in Units : pc'[q] \in {"wait", "insert"} =>
            q # u /\ pc'[q] = pc[q] /\ latest'[q] = latest[q] /\ mine'[q] = mine[q]
      BY <1>0, <2>0, <2>1
    <3>. QED BY <2>0, <3>1 DEF ChainInv, Selected
  <2>6. Bounded'
    <3>1. HasLatest(events')
      BY <2>0 DEF ChainInv, Bounded
    <3>2. ASSUME NEW q \in Units PROVE HasLatest(events' \cup mine'[q])
      <4>1. CASE q = u
        <5>1. events' \cup mine'[q] = events'
          BY <2>1, <4>1
        <5>. QED BY <3>1, <5>1
      <4>2. CASE q # u
        <5>1. events' \cup mine'[q] = (events \cup mine[u]) \cup (events \cup mine[q])
          BY <2>0, <2>1, <4>2
        <5>2. /\ HasLatest(events \cup mine[u]) /\ HasLatest(events \cup mine[q])
              /\ events \cup mine[u] \in SUBSET Event /\ events \cup mine[q] \in SUBSET Event
          BY <1>0 DEF ChainInv, Bounded
        <5>. QED BY <5>1, <5>2, UnionHasLatest
      <4>. QED BY <4>1, <4>2
    <3>. QED BY <3>1, <3>2 DEF Bounded
  <2>. QED BY <2>2, <2>3, <2>4, <2>5, <2>6 DEF ChainInv
<1>10. CASE RollbackUnit(u)
  BY <1>10, EndKept DEF RollbackUnit
<1>11. CASE FailUnit(u)
  BY <1>11, EndKept DEF FailUnit
<1>. QED
  BY <1>1, <1>2, <1>3, <1>4, <1>5, <1>6, <1>7, <1>8, <1>9, <1>10, <1>11 DEF Proceed

(* The outbox workers never touch the audit table. *)
LEMMA WorkerKept ==
  ASSUME ChainInv, NEW w \in Workers, ProcessBatch(w) \/ LoseBatch(w)
  PROVE  ChainInv'
<1>1. UNCHANGED <<events, mine, latest, item, pc>>
  BY DEF ProcessBatch, LoseBatch, ReadBatch, MarkDispatched, CommitBatch, chainVars
<1>. QED BY <1>1, RowsKept DEF ChainInv, ChainTypes

(* The inductive invariant of the audit chain holds in every state. *)
THEOREM ChainInvariance == Spec => []ChainInv
<1>1. Init => ChainInv
  BY DEF Init, ChainInit, Place, ChainInv, ChainTypes, Numbered, Chained, Selected, Bounded, HasLatest
<1>2. ChainInv /\ [Next]_vars => ChainInv'
  <2>. SUFFICES ASSUME ChainInv, [Next]_vars PROVE ChainInv'
    OBVIOUS
  <2>1. CASE Next
    BY <2>1, ProceedKept, WorkerKept DEF Next
  <2>2. CASE UNCHANGED vars
    BY <2>2, RowsKept DEF vars, ChainInv, ChainTypes
  <2>. QED BY <2>1, <2>2
<1>. QED BY <1>1, <1>2, PTL DEF Spec

(* verify_chain accepts the committed audit table at every moment, for any *)
(* units of work, processes and failures.                                  *)
THEOREM AuditChainValid == Spec => []ChainValid
<1>1. ChainInv => ChainValid
  BY DEF ChainInv, Numbered, Chained, Linked, ChainValid
<1>. QED BY <1>1, ChainInvariance, PTL

---------------------------------------------------------------------------------
(* An outbox record of a payment. *)
Record == [id : Ids, status : {"PENDING", "DISPATCHED"}]

(* Which payments have an audit row and an outbox record, flushed by their *)
(* unit or committed.                                                      *)
Flushed(u, i) == \E e \in mine[u] : e.id = <<u, i>>
Staged(u, i) == \E p \in DOMAIN staged[u] : staged[u][p].id = <<u, i>>
Audited(u, i) == \E e \in events : e.id = <<u, i>>
Published(u, i) == \E p \in DOMAIN outbox : outbox[p].id = <<u, i>>

RecordTypes == staged \in [Units -> Seq(Record)] /\ outbox \in Seq(Record)

(* A unit flushes rows and records of its own payments only. *)
OwnRecords ==
  \A u \in Units :
    /\ \A e \in mine[u] : e.id[1] = u
    /\ \A p \in DOMAIN staged[u] : staged[u][p].id[1] = u

(* Only between its two inserts is a payment audited and not published. *)
Paired ==
  \A u \in Units : KindOf[u] = "recovery" => \A i \in Nat :
    /\ Flushed(u, i) <=> (Staged(u, i) \/ (pc[u] = "publish" /\ i = item[u]))
    /\ Audited(u, i) <=> Published(u, i)

OutboxInv == RecordTypes /\ OwnRecords /\ Paired

(* A step that changes no record, and no unit that enters or leaves the    *)
(* place between the two inserts, keeps the pairing.                       *)
LEMMA RecordsKept ==
  ASSUME OutboxInv, UNCHANGED <<events, mine, staged, outbox>>,
         \A u \in Units : KindOf[u] = "recovery" =>
           /\ pc'[u] = "publish" <=> pc[u] = "publish"
           /\ pc[u] = "publish" => item'[u] = item[u]
  PROVE  OutboxInv'
<1>1. RecordTypes' /\ OwnRecords'
  BY DEF OutboxInv, RecordTypes, OwnRecords
<1>2. ASSUME NEW u \in Units, NEW i \in Nat
      PROVE  /\ Flushed(u, i)' <=> Flushed(u, i)
             /\ Staged(u, i)' <=> Staged(u, i)
             /\ Audited(u, i)' <=> Audited(u, i)
             /\ Published(u, i)' <=> Published(u, i)
  BY DEF Flushed, Staged, Audited, Published
<1>3. Paired'
  BY <1>2 DEF OutboxInv, Paired
<1> QED BY <1>1, <1>3 DEF OutboxInv

(* A unit that ends without a commit drops both of its halves. *)
LEMMA EndDropsBoth ==
  ASSUME ChainInv, OutboxInv, NEW u \in Units, NEW outcome \in {"idle", "done", "answered"},
         EndUnit(u, outcome), UNCHANGED <<events, outbox>>
  PROVE  OutboxInv'
<1>0. /\ mine' = [mine EXCEPT ![u] = {}] /\ staged' = [staged EXCEPT ![u] = <<>>]
      /\ pc' = [pc EXCEPT ![u] = outcome] /\ item' = item
  BY DEF EndUnit
<1>1. /\ mine \in [Units -> SUBSET Event] /\ staged \in [Units -> Seq(Record)]
      /\ pc \in [Units -> Place]
  BY DEF ChainInv, ChainTypes, OutboxInv, RecordTypes
<1>2. RecordTypes'
  BY <1>0, <1>1 DEF OutboxInv, RecordTypes
<1>3. \A v \in Units \ {u} : mine'[v] = mine[v] /\ staged'[v] = staged[v] /\ pc'[v] = pc[v]
  BY <1>0, <1>1
<1>4. mine'[u] = {} /\ staged'[u] = <<>> /\ pc'[u] # "publish"
  BY <1>0, <1>1
<1>5. OwnRecords'
  BY <1>3, <1>4 DEF OutboxInv, OwnRecords
<1>6. Paired'
  <2> SUFFICES ASSUME NEW v \in Units, KindOf[v] = "recovery", NEW i \in Nat
               PROVE  /\ Flushed(v, i)' <=> (Staged(v, i)' \/ (pc'[v] = "publish" /\ i = item'[v]))
                      /\ Audited(v, i)' <=> Published(v, i)'
    BY DEF Paired
  <2>1. Audited(v, i)' <=> Published(v, i)'
    BY DEF Audited, Published, OutboxInv, Paired
  <2>2. CASE v = u
    BY <1>4, <2>1, <2>2 DEF Flushed, Staged
  <2>3. CASE v # u
    <3>1. (Flushed(v, i)' <=> Flushed(v, i)) /\ (Staged(v, i)' <=> Staged(v, i))
      BY <1>3, <2>3 DEF Flushed, Staged
    <3> QED BY <1>0, <1>3, <2>1, <2>3, <3>1 DEF OutboxInv, Paired
  <2> QED BY <2>2, <2>3
<1> QED BY <1>2, <1>5, <1>6 DEF OutboxInv

(* append_event: the audit row of the payment the unit works on. *)
LEMMA InsertPairs ==
  ASSUME ChainInv, OutboxInv, NEW u \in Units, InsertEvent(u)
  PROVE  OutboxInv'
<1>0. /\ pc[u] = "insert" /\ mine' = [mine EXCEPT ![u] = @ \cup {NextEvent(u)}]
      /\ pc' = [pc EXCEPT ![u] = AfterInsert(u)]
      /\ UNCHANGED <<events, item, staged, outbox>>
  BY DEF InsertEvent
<1>1. /\ mine \in [Units -> SUBSET Event] /\ pc \in [Units -> Place]
      /\ item \in [Units -> Nat \ {0}]
  BY DEF ChainInv, ChainTypes
<1>2. NextEvent(u).id = <<u, item[u]>>
  BY DEF NextEvent
<1>3. /\ mine'[u] = mine[u] \cup {NextEvent(u)}
      /\ \A v \in Units \ {u} : mine'[v] = mine[v] /\ pc'[v] = pc[v]
      /\ KindOf[u] = "recovery" => pc'[u] = "publish"
  BY <1>0, <1>1 DEF AfterInsert
<1>4. RecordTypes' /\ OwnRecords'
  BY <1>0, <1>2, <1>3 DEF OutboxInv, RecordTypes, OwnRecords
<1>5. Paired'
  <2> SUFFICES ASSUME NEW v \in Units, KindOf[v] = "recovery", NEW i \in Nat
               PROVE  /\ Flushed(v, i)' <=> (Staged(v, i)' \/ (pc'[v] = "publish" /\ i = item'[v]))
                      /\ Audited(v, i)' <=> Published(v, i)'
    BY DEF Paired
  <2>1. (Audited(v, i)' <=> Published(v, i)') /\ (Staged(v, i)' <=> Staged(v, i))
    BY <1>0 DEF Audited, Published, Staged, OutboxInv, Paired
  <2>2. CASE v = u
    <3>1. Flushed(u, i)' <=> (Flushed(u, i) \/ i = item[u])
      BY <1>1, <1>2, <1>3 DEF Flushed
    <3>2. Flushed(u, i) <=> Staged(u, i)
      BY <1>0, <2>2 DEF OutboxInv, Paired
    <3> QED BY <1>0, <1>3, <2>1, <2>2, <3>1, <3>2
  <2>3. CASE v # u
    <3>1. Flushed(v, i)' <=> Flushed(v, i)
      BY <1>3, <2>3 DEF Flushed
    <3> QED BY <1>0, <1>3, <2>1, <2>3, <3>1 DEF OutboxInv, Paired
  <2> QED BY <2>2, <2>3
<1> QED BY <1>4, <1>5 DEF OutboxInv

(* create_event: the outbox record of the same payment. *)
LEMMA PublishPairs ==
  ASSUME ChainInv, OutboxInv, NEW u \in Units, PublishEvent(u)
  PROVE  OutboxInv'
<1> DEFINE new == [id |-> <<u, item[u]>>, status |-> "PENDING"]
<1>0. /\ pc[u] = "publish" /\ staged' = [staged EXCEPT ![u] = Append(@, new)]
      /\ UNCHANGED <<events, mine, outbox>>
  BY DEF PublishEvent
<1>1. /\ staged \in [Units -> Seq(Record)] /\ pc \in [Units -> Place]
      /\ item \in [Units -> Nat \ {0}]
  BY DEF ChainInv, ChainTypes, OutboxInv, RecordTypes
<1>2. new \in Record /\ new.id = <<u, item[u]>>
  BY <1>1 DEF Record, Ids
<1>3. \A v \in Units \ {u} : staged'[v] = staged[v] /\ pc'[v] = pc[v] /\ item'[v] = item[v]
  BY <1>0, <1>1 DEF PublishEvent
<1>4. staged'[u] = Append(staged[u], new) /\ pc'[u] # "publish"
  BY <1>0, <1>1 DEF PublishEvent
<1> HIDE DEF new
<1>5. RecordTypes'
  BY <1>0, <1>1, <1>2 DEF OutboxInv, RecordTypes
<1>6. \A x : (\E p \in DOMAIN staged'[u] : staged'[u][p].id = x)
               <=> ((\E p \in DOMAIN staged[u] : staged[u][p].id = x) \/ x = new.id)
  <2>1. PICK s, t, n : s = staged[u] /\ t = staged'[u] /\ n = Len(staged[u])
    OBVIOUS
  <2>2. s \in Seq(Record) /\ t = Append(s, new) /\ n = Len(s)
    BY <1>1, <1>4, <2>1
  <2>3. /\ DOMAIN t = 1 .. (n + 1) /\ DOMAIN s = 1 .. n
        /\ t[n + 1] = new /\ n \in Nat /\ \A p \in 1 .. n : t[p] = s[p]
    BY <1>2, <2>2
  <2>4. ASSUME NEW x, NEW p \in DOMAIN t, t[p].id = x
        PROVE  (\E q \in DOMAIN s : s[q].id = x) \/ x = new.id
    <3>1. p \in 1 .. n \/ p = n + 1
      BY <2>3, <2>4
    <3> QED
      BY <2>3, <2>4, <3>1
  <2>5. ASSUME NEW x, NEW p \in DOMAIN s, s[p].id = x
        PROVE  \E q \in DOMAIN t : t[q].id = x
    <3>1. p \in DOMAIN t /\ t[p].id = x
      BY <2>3, <2>5
    <3> QED
      BY <3>1
  <2>6. \E q \in DOMAIN t : t[q].id = new.id
    <3>1. n + 1 \in DOMAIN t
      BY <2>3
    <3> QED
      BY <2>3, <3>1
  <2> QED
    BY <2>1, <2>4, <2>5, <2>6
<1>7. OwnRecords'
  <2>1. \A p \in DOMAIN staged'[u] : staged'[u][p].id[1] = u
    <3> SUFFICES ASSUME NEW p \in DOMAIN staged'[u] PROVE staged'[u][p].id[1] = u
      OBVIOUS
    <3>1. (\E q \in DOMAIN staged[u] : staged[u][q].id = staged'[u][p].id) \/ staged'[u][p].id = new.id
      BY <1>6
    <3> QED BY <1>2, <3>1 DEF OutboxInv, OwnRecords
  <2> QED BY <1>0, <1>3, <2>1 DEF OutboxInv, OwnRecords
<1>8. Paired'
  <2> SUFFICES ASSUME NEW v \in Units, KindOf[v] = "recovery", NEW i \in Nat
               PROVE  /\ Flushed(v, i)' <=> (Staged(v, i)' \/ (pc'[v] = "publish" /\ i = item'[v]))
                      /\ Audited(v, i)' <=> Published(v, i)'
    BY DEF Paired
  <2>1. (Audited(v, i)' <=> Published(v, i)') /\ (Flushed(v, i)' <=> Flushed(v, i))
    BY <1>0 DEF Audited, Published, Flushed, OutboxInv, Paired
  <2>2. CASE v = u
    <3>1. Staged(u, i)' <=> (Staged(u, i) \/ i = item[u])
      <4>1. <<u, i>> = new.id <=> i = item[u]
        BY <1>2
      <4>2. (\E p \in DOMAIN staged'[u] : staged'[u][p].id = <<u, i>>)
              <=> ((\E p \in DOMAIN staged[u] : staged[u][p].id = <<u, i>>) \/ <<u, i>> = new.id)
        BY <1>6
      <4> QED BY <4>1, <4>2 DEF Staged
    <3>2. Flushed(u, i) <=> (Staged(u, i) \/ i = item[u])
      BY <1>0, <2>2 DEF OutboxInv, Paired
    <3> QED BY <1>4, <2>1, <2>2, <3>1, <3>2
  <2>3. CASE v # u
    <3>1. Staged(v, i)' <=> Staged(v, i)
      BY <1>3, <2>3 DEF Staged
    <3> QED BY <1>3, <2>1, <2>3, <3>1 DEF OutboxInv, Paired
  <2> QED BY <2>2, <2>3
<1> QED BY <1>5, <1>7, <1>8 DEF OutboxInv

(* A commit makes the rows and the records of one unit durable together. *)
LEMMA CommitPairs ==
  ASSUME ChainInv, OutboxInv, NEW u \in Units, CommitUnit(u)
  PROVE  OutboxInv'
<1>0. /\ pc[u] = "commit" /\ events' = events \cup mine[u] /\ outbox' = outbox \o staged[u]
      /\ mine' = [mine EXCEPT ![u] = {}] /\ staged' = [staged EXCEPT ![u] = <<>>]
      /\ pc' = [pc EXCEPT ![u] = "done"] /\ item' = item
  BY DEF CommitUnit, EndUnit
<1>1. /\ mine \in [Units -> SUBSET Event] /\ staged \in [Units -> Seq(Record)]
      /\ pc \in [Units -> Place] /\ outbox \in Seq(Record)
  BY DEF ChainInv, ChainTypes, OutboxInv, RecordTypes
<1>2. RecordTypes'
  BY <1>0, <1>1 DEF RecordTypes
<1>3. \A v \in Units \ {u} : mine'[v] = mine[v] /\ staged'[v] = staged[v] /\ pc'[v] = pc[v]
  BY <1>0, <1>1
<1>4. mine'[u] = {} /\ staged'[u] = <<>> /\ pc'[u] # "publish"
  BY <1>0, <1>1
<1>5. OwnRecords'
  BY <1>3, <1>4 DEF OutboxInv, OwnRecords
<1>6. \A x : (\E p \in DOMAIN outbox' : outbox'[p].id = x)
               <=> \/ \E p \in DOMAIN outbox : outbox[p].id = x
                   \/ \E p \in DOMAIN staged[u] : staged[u][p].id = x
  <2> DEFINE m == Len(outbox)
             n == Len(staged[u])
  <2>1. staged[u] \in Seq(Record) /\ outbox \in Seq(Record)
    BY <1>1
  <2>2. /\ m \in Nat /\ n \in Nat /\ DOMAIN outbox' = 1..(m + n)
        /\ DOMAIN outbox = 1..m /\ DOMAIN staged[u] = 1..n
    BY <1>0, <2>1
  <2>3. /\ \A p \in 1..m : outbox'[p] = outbox[p]
        /\ \A p \in 1..n : outbox'[m + p] = staged[u][p]
    BY <1>0, <2>1
  <2>4. \A p \in 1..(m + n) : p \in 1..m \/ (p - m \in 1..n /\ m + (p - m) = p)
    BY <2>2
  <2>5. \A p \in 1..n : m + p \in 1..(m + n)
    BY <2>2
  <2>6. \A p \in 1..m : p \in 1..(m + n)
    BY <2>2
  <2> HIDE DEF m, n
  <2> SUFFICES ASSUME NEW x
               PROVE  (\E p \in 1..(m + n) : outbox'[p].id = x)
                        <=> \/ \E p \in 1..m : outbox[p].id = x
                            \/ \E p \in 1..n : staged[u][p].id = x
    BY <2>2
  <2>7. ASSUME NEW p \in 1..(m + n), outbox'[p].id = x
        PROVE  (\E q \in 1..m : outbox[q].id = x) \/ (\E q \in 1..n : staged[u][q].id = x)
    <3>1. CASE p \in 1..m
      BY <2>3, <2>7, <3>1
    <3>2. CASE p - m \in 1..n /\ m + (p - m) = p
      <4>1. outbox'[m + (p - m)] = staged[u][p - m]
        BY <2>3, <3>2
      <4> QED BY <2>7, <3>2, <4>1
    <3> QED BY <2>4, <3>1, <3>2
  <2>8. ASSUME NEW q \in 1..m, outbox[q].id = x PROVE \E p \in 1..(m + n) : outbox'[p].id = x
    BY <2>3, <2>6, <2>8
  <2>9. ASSUME NEW q \in 1..n, staged[u][q].id = x PROVE \E p \in 1..(m + n) : outbox'[p].id = x
    BY <2>3, <2>5, <2>9
  <2> QED BY <2>7, <2>8, <2>9
<1>7. Paired'
  <2> SUFFICES ASSUME NEW v \in Units, KindOf[v] = "recovery", NEW i \in Nat
               PROVE  /\ Flushed(v, i)' <=> (Staged(v, i)' \/ (pc'[v] = "publish" /\ i = item'[v]))
                      /\ Audited(v, i)' <=> Published(v, i)'
    BY DEF Paired
  <2>1. /\ Audited(v, i)' <=> (Audited(v, i) \/ \E e \in mine[u] : e.id = <<v, i>>)
        /\ Published(v, i)' <=> (Published(v, i) \/ \E p \in DOMAIN staged[u] : staged[u][p].id = <<v, i>>)
    BY <1>0, <1>6 DEF Audited, Published
  <2>2. CASE v = u
    <3>1. Flushed(u, i) <=> Staged(u, i)
      BY <1>0, <2>2 DEF OutboxInv, Paired
    <3>2. Flushed(v, i)' <=> (Staged(v, i)' \/ (pc'[v] = "publish" /\ i = item'[v]))
      BY <1>4, <2>2 DEF Flushed, Staged
    <3>3. Audited(v, i) <=> Published(v, i)
      BY DEF OutboxInv, Paired
    <3> QED BY <2>1, <2>2, <3>1, <3>2, <3>3 DEF Flushed, Staged
  <2>3. CASE v # u
    <3>1. (Flushed(v, i)' <=> Flushed(v, i)) /\ (Staged(v, i)' <=> Staged(v, i))
      BY <1>3, <2>3 DEF Flushed, Staged
    <3>2. /\ ~ \E e \in mine[u] : e.id = <<v, i>>
          /\ ~ \E p \in DOMAIN staged[u] : staged[u][p].id = <<v, i>>
      BY <2>3 DEF OutboxInv, OwnRecords
    <3> QED BY <1>0, <1>3, <2>1, <2>3, <3>1, <3>2 DEF OutboxInv, Paired
  <2> QED BY <2>2, <2>3
<1> QED BY <1>2, <1>5, <1>7 DEF OutboxInv

(* Marking records as dispatched changes the identity of none. *)
LEMMA DispatchPairs ==
  ASSUME ChainInv, OutboxInv, NEW w \in Workers, CommitBatch(w)
  PROVE  OutboxInv'
<1>0. outbox' = Dispatched(marked[w]) /\ UNCHANGED <<events, mine, staged, pc, item>>
  BY DEF CommitBatch
<1>1. outbox \in Seq(Record)
  BY DEF OutboxInv, RecordTypes
<1>2. /\ outbox' \in Seq(Record) /\ DOMAIN outbox' = DOMAIN outbox
      /\ \A p \in DOMAIN outbox : outbox'[p].id = outbox[p].id
  <2>1. /\ DOMAIN outbox = 1..Len(outbox) /\ Len(outbox) \in Nat
        /\ \A p \in DOMAIN outbox : outbox[p] \in Record
    BY <1>1
  <2>2. \A p \in DOMAIN outbox : /\ [outbox[p] EXCEPT !.status = "DISPATCHED"] \in Record
                                 /\ [outbox[p] EXCEPT !.status = "DISPATCHED"].id = outbox[p].id
    BY <2>1 DEF Record
  <2>3. outbox' \in [1..Len(outbox) -> Record]
    BY <1>0, <2>1, <2>2 DEF Dispatched
  <2> QED BY <1>0, <2>1, <2>2, <2>3 DEF Dispatched
<1>3. RecordTypes' /\ OwnRecords'
  BY <1>0, <1>2 DEF OutboxInv, RecordTypes, OwnRecords
<1>4. ASSUME NEW u \in Units, NEW i \in Nat
      PROVE  /\ Flushed(u, i)' <=> Flushed(u, i)
             /\ Staged(u, i)' <=> Staged(u, i)
             /\ Audited(u, i)' <=> Audited(u, i)
             /\ Published(u, i)' <=> Published(u, i)
  BY <1>0, <1>2 DEF Flushed, Staged, Audited, Published
<1>5. Paired'
  BY <1>0, <1>4 DEF OutboxInv, Paired
<1> QED BY <1>3, <1>5 DEF OutboxInv

(* The pairing of audit rows and outbox records holds in every state. *)
THEOREM OutboxInvariance == Spec => []OutboxInv
<1>1. Init => OutboxInv
  BY DEF Init, ChainInit, OutboxInv, RecordTypes, OwnRecords, Paired, Flushed, Staged, Audited, Published
<1>2. ChainInv /\ OutboxInv /\ [Next]_vars => OutboxInv'
  <2> SUFFICES ASSUME ChainInv, OutboxInv, [Next]_vars PROVE OutboxInv'
    OBVIOUS
  <2>0. pc \in [Units -> Place] /\ item \in [Units -> Nat \ {0}]
    BY DEF ChainInv, ChainTypes
  <2>1. ASSUME NEW u \in Units, Proceed(u) \/ FailUnit(u) PROVE OutboxInv'
    <3>1. CASE \E v \in Verdict : Begin(u, v)
      BY <2>0, <3>1, RecordsKept DEF Begin
    <3>2. CASE EnterLoopLock(u) \/ SelectLatest(u) \/ LockLatest(u)
      BY <2>0, <3>2, RecordsKept DEF EnterLoopLock, SelectLatest, LockLatest
    <3>3. CASE RefuseEvent(u) \/ AnswerAuth(u)
      BY <2>0, <3>3, RecordsKept DEF RefuseEvent, AfterRefusal, AnswerAuth
    <3>4. CASE InsertEvent(u)
      BY <3>4, InsertPairs
    <3>5. CASE PublishEvent(u)
      BY <3>5, PublishPairs
    <3>6. CASE CommitUnit(u)
      BY <3>6, CommitPairs
    <3>7. CASE RollbackUnit(u) \/ FailUnit(u)
      BY <3>7, EndDropsBoth DEF RollbackUnit, FailUnit
    <3> QED BY <2>1, <3>1, <3>2, <3>3, <3>4, <3>5, <3>6, <3>7 DEF Proceed
  <2>2. ASSUME NEW w \in Workers, ProcessBatch(w) \/ LoseBatch(w) PROVE OutboxInv'
    <3>1. CASE CommitBatch(w)
      BY <3>1, DispatchPairs
    <3>2. CASE ReadBatch(w) \/ MarkDispatched(w) \/ LoseBatch(w)
      BY <3>2, RecordsKept DEF ReadBatch, MarkDispatched, LoseBatch, chainVars
    <3> QED BY <2>2, <3>1, <3>2 DEF ProcessBatch
  <2>3. CASE UNCHANGED vars
    BY <2>3, RecordsKept DEF vars
  <2> QED BY <2>1, <2>2, <2>3 DEF Next
<1> QED BY <1>1, <1>2, ChainInvariance, PTL DEF Spec

(* A payment that the recovery service settles is published if and only if *)
(* it is in the audit trail, whatever appends are refused in the middle of *)
(* a batch and whatever units and workers fail.                            *)
THEOREM RecoveriesPublishedAndAudited == Spec => []RecoveryWritesBoth
<1>1. OutboxInv => RecoveryWritesBoth
  <2> SUFFICES ASSUME OutboxInv, NEW u \in Units, KindOf[u] = "recovery", NEW i \in 1..ItemsOf[u]
               PROVE  (\E e \in events : e.id = <<u, i>>)
                        <=> (\E p \in DOMAIN outbox : outbox[p].id = <<u, i>>)
    BY DEF RecoveryWritesBoth
  <2>1. i \in Nat
    BY ChainAssumption
  <2>2. Audited(u, i) <=> Published(u, i)
    BY <2>1 DEF OutboxInv, Paired
  <2> QED BY <2>2 DEF Audited, Published
<1> QED BY <1>1, OutboxInvariance, PTL
=================================================================================
