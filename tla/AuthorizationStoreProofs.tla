------------------------ MODULE AuthorizationStoreProofs ------------------------
(***************************************************************************)
(* Single use and finality of the authorization records, for any number of *)
(* units, processes, nonces, challenges, mandates and contexts and any     *)
(* bound on the clock.                                                     *)
(*                                                                         *)
(* The argument.  A unit that passed a row holds its lock until it ends,   *)
(* and what it wrote is final while what is committed is not (Holding).    *)
(* When it commits, the final status becomes durable (Durable), and what   *)
(* is final in the database is what every later unit reads (Settled), so   *)
(* nobody passes the row again.  A second layer (VerdictInv) uses this:    *)
(* what a dictionary holds of a passed row is what the unit drafted, and   *)
(* no other unit can write the row before that draft is durable.           *)
(***************************************************************************)
EXTENDS AuthorizationStore, TLAPS

(* Only an open unit holds a row or executes a call. *)
Owners ==
  /\ \A r \in Rows : holder[r] # Nobody => phase[holder[r]] = "open"
  /\ \A u \in Units : call[u] # NoCall => phase[u] = "open"

(* A row nobody holds has no draft; a row that is final has none either. *)
Settled ==
  /\ \A r \in Rows : holder[r] = Nobody => draft[r] = row[r]
  /\ \A r \in Rows : row[r].status \in Final => draft[r] = row[r]

(* Nonce rows carry nonce statuses, and nonces are what "consume" names. *)
Kinds ==
  /\ \A r \in Nonces : draft[r].status \in {"ABSENT", "ISSUED", "CONSUMED"}
  /\ \A r \in Nonces : row[r].status \in {"ABSENT", "ISSUED", "CONSUMED"}
  /\ \A u \in Units :
       call[u] # NoCall => (call[u].row \in Nonces <=> call[u].op \in {"issue", "consume"})

(* What an open unit passed, it holds, and it alone made final. *)
Holding ==
  \A u \in Units : \A r \in passed[u] :
    phase[u] = "open" => holder[r] = u /\ draft[r].status \in Final /\ row[r].status \notin Final

(* What a committed unit passed is final in the database. *)
Durable ==
  \A u \in Units : \A r \in passed[u] : phase[u] = "committed" => row[r].status \in Final

AuthInv == TypeOK /\ Owners /\ Settled /\ Kinds /\ Holding /\ Durable /\ SingleUse

---------------------------------------------------------------------------------
(* The initial state, with empty tables and no unit begun, satisfies the   *)
(* invariant.                                                              *)
LEMMA AuthInit == Init => AuthInv
<1> SUFFICES ASSUME Init PROVE AuthInv
  OBVIOUS
<1> USE StoreAssumption DEF Init
<1>1. TypeOK
  <2>1. Absent \in Row
    BY DEF Absent, Row, Status
  <2> QED BY <2>1 DEF TypeOK, Status
<1>2. Owners /\ Settled /\ Holding /\ Durable /\ SingleUse
  BY DEF Owners, Settled, Holding, Durable, SingleUse
<1>3. Kinds
  BY DEF Kinds, Rows, Absent
<1> QED BY <1>1, <1>2, <1>3 DEF AuthInv

(* A call that returns without writing keeps the invariant. *)
LEMMA ReturnKeeps ==
  ASSUME AuthInv, NEW u \in Units, Return(u),
         UNCHANGED <<now, made, row, draft, holder, phase, passed, memory>>
  PROVE  AuthInv'
<1>1. TypeOK'
  BY DEF AuthInv, TypeOK, Return
<1>2. (Owners /\ Settled /\ Kinds /\ Holding /\ Durable /\ SingleUse)'
  BY DEF AuthInv, TypeOK, Owners, Settled, Kinds, Holding, Durable, SingleUse, Return
<1> QED BY <1>1, <1>2 DEF AuthInv

(* A call that locks a row and refuses it keeps the invariant. *)
LEMMA RefuseKeeps ==
  ASSUME AuthInv, NEW u \in Units, NEW r \in Rows, phase[u] = "open",
         Lockable(u, r), Refuse(u, r)
  PROVE  AuthInv'
<1> USE DEF Refuse, Return, Lockable
<1>1. TypeOK'
  BY DEF AuthInv, TypeOK
<1>2. Owners'
  BY DEF AuthInv, TypeOK, Owners
<1>3. Settled' /\ Kinds'
  BY DEF AuthInv, TypeOK, Settled, Kinds
<1>4. Holding'
  BY StoreAssumption DEF AuthInv, TypeOK, Holding
<1>5. Durable' /\ SingleUse'
  BY DEF AuthInv, Durable, SingleUse
<1> QED BY <1>1, <1>2, <1>3, <1>4, <1>5 DEF AuthInv

(* Writing a row that is not final keeps the invariant: the row is locked, *)
(* and a row the unit was told to go ahead on becomes final.               *)
LEMMA WriteKeeps ==
  ASSUME AuthInv, NEW u \in Units, NEW r \in Rows, NEW new \in Row, NEW told \in SUBSET {r},
         phase[u] = "open", Lockable(u, r), draft[r].status \notin Final,
         told # {} => new.status \in Final,
         r \in Nonces => new.status \in {"ABSENT", "ISSUED", "CONSUMED"},
         Write(u, r, new, told)
  PROVE  AuthInv'
<1> USE DEF Write, Return, Lockable
<1>0. row[r].status \notin Final
  BY DEF AuthInv, Settled
<1>1. TypeOK'
  <2>1. new.status \in Status
    BY DEF Row
  <2>2. memory' \in [Procs -> [Rows -> Status]]
    BY <2>1, StoreAssumption DEF AuthInv, TypeOK
  <2> QED BY <2>2 DEF AuthInv, TypeOK
<1>2. Owners'
  BY DEF AuthInv, TypeOK, Owners
<1>3. Settled'
  BY <1>0, StoreAssumption DEF AuthInv, TypeOK, Settled
<1>4. Kinds'
  BY DEF AuthInv, TypeOK, Kinds, Rows
<1>5. Holding'
  BY <1>0, StoreAssumption DEF AuthInv, TypeOK, Holding
<1>6. Durable'
  <2> SUFFICES ASSUME NEW v \in Units, phase[v] = "committed", NEW q \in passed[v]
               PROVE  row[q].status \in Final
    BY DEF Durable, AuthInv, TypeOK
  <2> QED BY DEF AuthInv, Durable
<1>7. SingleUse'
  BY DEF AuthInv, TypeOK, SingleUse
<1> QED BY <1>1, <1>2, <1>3, <1>4, <1>5, <1>6, <1>7 DEF AuthInv

(* A rollback gives the unit's rows up and keeps the invariant. *)
LEMMA RollbackKeeps ==
  ASSUME AuthInv, NEW u \in Units, phase[u] = "open", Rollback(u)
  PROVE  AuthInv'
<1> USE StoreAssumption DEF Rollback, Return
<1>1. TypeOK'
  BY DEF AuthInv, TypeOK
<1>2. Owners'
  BY DEF AuthInv, TypeOK, Owners
<1>3. Settled' /\ Kinds'
  BY DEF AuthInv, TypeOK, Settled, Kinds, Rows
<1>4. Holding'
  <2> SUFFICES ASSUME NEW v \in Units, phase'[v] = "open", NEW r \in passed[v]
               PROVE  (holder[r] = v /\ draft[r].status \in Final /\ row[r].status \notin Final)'
    BY DEF Holding
  <2>1. v # u /\ phase[v] = "open" /\ r \in Rows
    BY DEF AuthInv, TypeOK
  <2> QED BY <2>1 DEF AuthInv, TypeOK, Holding
<1>5. Durable' /\ SingleUse'
  BY DEF AuthInv, TypeOK, Durable, SingleUse
<1> QED BY <1>1, <1>2, <1>3, <1>4, <1>5 DEF AuthInv

(* A commit makes final what the unit passed, and no other committed unit  *)
(* passed the same row.                                                    *)
LEMMA CommitKeeps ==
  ASSUME AuthInv, NEW u \in Units, Commit(u)
  PROVE  AuthInv'
<1> USE StoreAssumption DEF Commit
<1>1. TypeOK'
  BY DEF AuthInv, TypeOK
<1>2. Owners'
  BY DEF AuthInv, TypeOK, Owners
<1>3. Settled' /\ Kinds'
  BY DEF AuthInv, TypeOK, Settled, Kinds, Rows
<1>4. Holding'
  <2> SUFFICES ASSUME NEW v \in Units, phase'[v] = "open", NEW r \in passed[v]
               PROVE  (holder[r] = v /\ draft[r].status \in Final /\ row[r].status \notin Final)'
    BY DEF Holding
  <2>1. v # u /\ phase[v] = "open" /\ r \in Rows
    BY DEF AuthInv, TypeOK
  <2> QED BY <2>1 DEF AuthInv, TypeOK, Holding
<1>5. Durable'
  <2> SUFFICES ASSUME NEW v \in Units, phase'[v] = "committed", NEW r \in passed[v]
               PROVE  row'[r].status \in Final
    BY DEF Durable
  <2>1. r \in Rows
    BY DEF AuthInv, TypeOK
  <2>2. CASE v = u
    BY <2>1, <2>2 DEF AuthInv, Holding
  <2>3. CASE v # u
    BY <2>1, <2>3 DEF AuthInv, TypeOK, Durable, Settled
  <2> QED BY <2>2, <2>3
<1>6. SingleUse'
  <2> SUFFICES ASSUME NEW v \in Units, v # u, phase[v] = "committed",
                      NEW r \in passed[u], r \in passed[v]
               PROVE  FALSE
    BY DEF AuthInv, TypeOK, SingleUse
  <2> QED BY DEF AuthInv, Holding, Durable
<1> QED BY <1>1, <1>2, <1>3, <1>4, <1>5, <1>6 DEF AuthInv

(* A restart rolls back the open units of one process. *)
LEMMA RestartKeeps ==
  ASSUME AuthInv, NEW p \in Procs, Restart(p)
  PROVE  AuthInv'
<1> DEFINE Lost == {u \in Units : ProcOf[u] = p /\ phase[u] = "open"}
<1>0. /\ draft' = [r \in Rows |-> IF holder[r] \in Lost THEN row[r] ELSE draft[r]]
      /\ holder' = [r \in Rows |-> IF holder[r] \in Lost THEN Nobody ELSE holder[r]]
      /\ phase' = [u \in Units |-> IF u \in Lost THEN "rolledback" ELSE phase[u]]
      /\ call' = [u \in Units |-> IF u \in Lost THEN NoCall ELSE call[u]]
      /\ memory' = [memory EXCEPT ![p] = [r \in Rows |-> "ABSENT"]]
      /\ UNCHANGED <<now, made, row, passed>>
  BY DEF Restart
<1>1. Nobody \notin Lost /\ Lost \subseteq Units
  BY StoreAssumption
<1> HIDE DEF Lost
<1>2. TypeOK'
  <2>1. memory' \in [Procs -> [Rows -> Status]]
    BY <1>0 DEF AuthInv, TypeOK, Status
  <2> QED BY <1>0, <1>1, <2>1 DEF AuthInv, TypeOK
<1>3. Owners'
  BY <1>0, <1>1, StoreAssumption DEF AuthInv, TypeOK, Owners
<1>4. Settled' /\ Kinds'
  BY <1>0, <1>1 DEF AuthInv, TypeOK, Settled, Kinds, Rows
<1>5. Holding'
  <2> SUFFICES ASSUME NEW v \in Units, phase'[v] = "open", NEW r \in passed[v]
               PROVE  (holder[r] = v /\ draft[r].status \in Final /\ row[r].status \notin Final)'
    BY <1>0 DEF Holding
  <2>1. v \notin Lost /\ phase[v] = "open" /\ r \in Rows
    BY <1>0 DEF AuthInv, TypeOK
  <2> QED BY <1>0, <2>1 DEF AuthInv, TypeOK, Holding
<1>6. Durable' /\ SingleUse'
  BY <1>0 DEF AuthInv, TypeOK, Durable, SingleUse
<1> QED BY <1>2, <1>3, <1>4, <1>5, <1>6 DEF AuthInv

(* A unit that executes a call is open, and the call is a well-formed one. *)
LEMMA Calling ==
  ASSUME AuthInv, NEW u \in Units, call[u].op \in Ops
  PROVE  /\ phase[u] = "open" /\ call[u] \in Call /\ call[u].row \in Rows
         /\ call[u].row \in Nonces <=> call[u].op \in {"issue", "consume"}
<1>1. "none" \notin Ops
  BY DEF Ops, Target
<1>2. call[u] # NoCall
  BY <1>1 DEF NoCall
<1>3. call[u] \in Call
  BY <1>2 DEF AuthInv, TypeOK
<1> QED BY <1>2, <1>3 DEF AuthInv, Owners, Kinds, Call

(* A missing row is well-formed and not final. *)
LEMMA AbsentIsNotFinal == Absent \in Row /\ Absent.status \notin Final
  BY DEF Absent, Row, Status, Final

(* Inserting a nonce, a challenge or a mandate (create_nonce and its kind). *)
LEMMA CreateKeeps ==
  ASSUME AuthInv, NEW u \in Units, Create(u)
  PROVE  AuthInv'
<1> DEFINE c == call[u]
<1>1. DOMAIN FirstStatus = {"issue", "challenge", "create", "draft"}
  BY DEF FirstStatus
<1>2. c.op \in Ops /\ c.op \in DOMAIN FirstStatus /\ Lockable(u, c.row)
  BY <1>1 DEF Create, Ops
<1>3. phase[u] = "open" /\ c \in Call /\ c.row \in Rows
      /\ (c.row \in Nonces <=> c.op \in {"issue", "consume"})
  BY <1>2, Calling
<1>4. CASE draft[c.row] = Absent
  <2>1. FirstStatus[c.op] \in Status
    BY <1>1, <1>2 DEF FirstStatus, Status
  <2>2. Created(c) \in Row
    BY <1>3, <2>1, StoreAssumption DEF Created, Row, Call
  <2>3. c.row \in Nonces => Created(c).status \in {"ABSENT", "ISSUED", "CONSUMED"}
    BY <1>1, <1>2, <1>3 DEF Created, FirstStatus
  <2>4. Write(u, c.row, Created(c), {})
    BY <1>4 DEF Create
  <2> QED BY <1>2, <1>3, <1>4, <2>2, <2>3, <2>4, AbsentIsNotFinal, WriteKeeps
<1>5. CASE draft[c.row] # Absent
  BY <1>3, <1>5, RollbackKeeps DEF Create
<1> QED BY <1>4, <1>5

(* Consuming a nonce: only one that is ISSUED is written. *)
LEMMA ConsumeKeeps ==
  ASSUME AuthInv, NEW u \in Units, Consume(u)
  PROVE  AuthInv'
<1> DEFINE c == call[u]
           n == draft[c.row]
           new == [n EXCEPT !.status = "CONSUMED", !.stamp = c.at]
<1>1. phase[u] = "open" /\ c \in Call /\ c.row \in Rows /\ c.row \in Nonces
  BY Calling DEF Consume, Ops
<1>2. CASE Seen(u, c.row) = Absent
  BY <1>2, ReturnKeeps DEF Consume
<1>3. CASE Seen(u, c.row) # Absent /\ NonceAllows(c, n)
  <2>1. n \in Row /\ n.status \in {"ABSENT", "ISSUED", "CONSUMED"}
    BY <1>1 DEF AuthInv, TypeOK, Kinds
  <2>2. n.status \notin Final
    BY <1>3, <2>1 DEF NonceAllows, Final
  <2>3. new \in Row /\ new.status = "CONSUMED"
    BY <1>1, <2>1 DEF Row, Status, Call
  <2>4. Write(u, c.row, new, {c.row}) /\ Lockable(u, c.row)
    BY <1>3 DEF Consume
  <2> HIDE DEF new
  <2> QED BY <1>1, <2>2, <2>3, <2>4, WriteKeeps DEF Final
<1>4. CASE Seen(u, c.row) # Absent /\ ~ NonceAllows(c, n)
  BY <1>1, <1>4, RefuseKeeps DEF Consume
<1> QED BY <1>2, <1>3, <1>4

(* Looking a fingerprint up only decides what the call does next. *)
LEMMA CheckKeeps ==
  ASSUME AuthInv, NEW u \in Units, Check(u)
  PROVE  AuthInv'
<1> DEFINE c == call[u]
<1>1. phase[u] = "open" /\ c \in Call /\ c.row \in Rows /\ c.row \notin Nonces
  BY Calling DEF Check, Ops
<1>2. CASE Return(u)
  BY <1>2, ReturnKeeps DEF Check
<1>3. CASE call' = [call EXCEPT ![u].op = "insert"]
  <2>1. call'[u] = [c EXCEPT !.op = "insert"] /\ call' \in [Units -> Call \cup {NoCall}]
    BY <1>1, <1>3 DEF AuthInv, TypeOK, Call, Ops
  <2>2. TypeOK'
    BY <2>1 DEF AuthInv, TypeOK, Check
  <2>3. Owners' /\ Settled' /\ Holding' /\ Durable' /\ SingleUse'
    BY <1>1, <1>3 DEF AuthInv, TypeOK, Owners, Settled, Holding, Durable, SingleUse, Check
  <2>4. call'[u].op = "insert" /\ call'[u].row = c.row
    BY <1>1, <2>1 DEF Call
  <2>5. Kinds'
    BY <1>1, <1>3, <2>4 DEF AuthInv, TypeOK, Kinds, Check
  <2> QED BY <2>2, <2>3, <2>5 DEF AuthInv
<1> QED BY <1>2, <1>3 DEF Check

(* Recording a fingerprint: the primary key admits only a missing one. *)
LEMMA InsertKeeps ==
  ASSUME AuthInv, NEW u \in Units, Insert(u)
  PROVE  AuthInv'
<1> DEFINE c == call[u]
           new == [status |-> "RECORDED", ctx |-> c.ctx, due |-> c.at + Ttl, stamp |-> 0]
<1>1. phase[u] = "open" /\ c \in Call /\ c.row \in Rows /\ c.row \notin Nonces
  BY Calling DEF Insert, Ops
<1>2. CASE draft[c.row] = Absent
  <2>1. new \in Row /\ new.status \in Final
    BY <1>1, StoreAssumption DEF Row, Status, Final, Call
  <2>2. Write(u, c.row, new, {c.row}) /\ Lockable(u, c.row)
    BY <1>2 DEF Insert
  <2> HIDE DEF new
  <2> QED BY <1>1, <1>2, <2>1, <2>2, AbsentIsNotFinal, WriteKeeps
<1>3. CASE draft[c.row] # Absent
  BY <1>1, <1>3, RollbackKeeps DEF Insert
<1> QED BY <1>2, <1>3

(* Confirming a challenge: only one that is PENDING is written. *)
LEMMA ConfirmKeeps ==
  ASSUME AuthInv, NEW u \in Units, Confirm(u)
  PROVE  AuthInv'
<1> DEFINE c == call[u]
           ch == draft[c.row]
           new == [ch EXCEPT !.status = "APPROVED", !.stamp = now]
<1>1. phase[u] = "open" /\ c \in Call /\ c.row \in Rows /\ c.row \notin Nonces
  BY Calling DEF Confirm, Ops
<1>2. CASE Seen(u, c.row) # Absent /\ Approves(c, ch)
  <2>1. ch \in Row /\ now \in Nat
    BY <1>1 DEF AuthInv, TypeOK
  <2>2. ch.status \notin Final
    BY <1>2 DEF Approves, Final
  <2>3. new \in Row /\ new.status \in Final
    BY <2>1 DEF Row, Status, Final
  <2>4. Write(u, c.row, new, {c.row}) /\ Lockable(u, c.row)
    BY <1>2 DEF Confirm
  <2> HIDE DEF new
  <2> QED BY <1>1, <2>2, <2>3, <2>4, WriteKeeps
<1>3. CASE ~ (Seen(u, c.row) # Absent /\ Approves(c, ch))
  BY <1>1, <1>3, RollbackKeeps DEF Confirm
<1> QED BY <1>2, <1>3

(* Moving a mandate: no legal transition leaves REVOKED or EXPIRED. *)
LEMMA TransitionKeeps ==
  ASSUME AuthInv, NEW u \in Units, TransitionMandate(u)
  PROVE  AuthInv'
<1> DEFINE c == call[u]
           m == draft[c.row]
           new == [m EXCEPT !.status = Target[c.op]]
<1>0. DOMAIN Target = {"activate", "suspend", "revoke", "expire"}
  BY DEF Target
<1>1. phase[u] = "open" /\ c \in Call /\ c.row \in Rows /\ c.row \notin Nonces
  BY <1>0, Calling DEF TransitionMandate, Ops
<1>2. CASE Seen(u, c.row) # Absent /\ Legal(m.status, Target[c.op])
  <2>1. m \in Row /\ Target[c.op] \in Status
    BY <1>0, <1>1 DEF AuthInv, TypeOK, TransitionMandate, Target, Status
  <2>2. m.status \notin Final
    BY <1>2 DEF Legal, Final
  <2>3. new \in Row
    BY <2>1 DEF Row
  <2>4. Write(u, c.row, new, {}) /\ Lockable(u, c.row)
    BY <1>2 DEF TransitionMandate
  <2> HIDE DEF new
  <2> QED BY <1>1, <2>2, <2>3, <2>4, WriteKeeps
<1>3. CASE ~ (Seen(u, c.row) # Absent /\ Legal(m.status, Target[c.op]))
  BY <1>1, <1>3, RollbackKeeps DEF TransitionMandate
<1> QED BY <1>2, <1>3

(* Starting a call: its row is of the kind its method works on. *)
LEMMA StartKeeps ==
  ASSUME AuthInv, NEW u \in Units, NEW k \in Calls, Start(u, k)
  PROVE  AuthInv'
<1> DEFINE c == [op |-> k[1], row |-> k[2], ctx |-> k[3], at |-> now]
<1>1. /\ k[1] \in Ops /\ k[2] \in Rows /\ k[3] \in Contexts \cup {Nobody}
      /\ k[2] \in Nonces <=> k[1] \in {"issue", "consume"}
  <2>1. DOMAIN Target = {"activate", "suspend", "revoke", "expire"}
    BY DEF Target
  <2> QED BY <2>1, StoreAssumption DEF Calls, Ops, Rows
<1>2. c \in Call /\ c.row = k[2] /\ c.op = k[1]
  BY <1>1 DEF Call, AuthInv, TypeOK
<1>3. call' = [call EXCEPT ![u] = c] /\ phase[u] = "open"
      /\ UNCHANGED <<now, row, draft, holder, phase, passed, memory>> /\ made' = made + 1
  BY DEF Start
<1> HIDE DEF c
<1>4. TypeOK'
  BY <1>2, <1>3 DEF AuthInv, TypeOK
<1>5. Owners' /\ Settled' /\ Holding' /\ Durable' /\ SingleUse'
  BY <1>3 DEF AuthInv, TypeOK, Owners, Settled, Holding, Durable, SingleUse
<1>6. Kinds'
  BY <1>1, <1>2, <1>3 DEF AuthInv, TypeOK, Kinds
<1> QED BY <1>4, <1>5, <1>6 DEF AuthInv

(* Every step keeps the invariant. *)
LEMMA AuthNext == AuthInv /\ [Next]_vars => AuthInv'
<1> SUFFICES ASSUME AuthInv, [Next]_vars PROVE AuthInv'
  OBVIOUS
<1>1. ASSUME NEW u \in Units, Step(u) PROVE AuthInv'
  <2>1. CASE Create(u) BY <2>1, CreateKeeps
  <2>2. CASE Consume(u) BY <2>2, ConsumeKeeps
  <2>3. CASE Check(u) BY <2>3, CheckKeeps
  <2>4. CASE Insert(u) BY <2>4, InsertKeeps
  <2>5. CASE Confirm(u) BY <2>5, ConfirmKeeps
  <2>6. CASE Reject(u)
    <3>1. phase[u] = "open" BY <2>6, Calling DEF Reject, Ops
    <3> QED BY <2>6, <3>1, RollbackKeeps DEF Reject
  <2>7. CASE TransitionMandate(u) BY <2>7, TransitionKeeps
  <2>8. CASE Commit(u) BY <2>8, CommitKeeps
  <2>9. CASE GiveUp(u) BY <2>9, RollbackKeeps DEF GiveUp
  <2> QED BY <1>1, <2>1, <2>2, <2>3, <2>4, <2>5, <2>6, <2>7, <2>8, <2>9 DEF Step
<1>2. ASSUME NEW u \in Units, NEW k \in Calls, Start(u, k) PROVE AuthInv'
  BY <1>2, StartKeeps
<1>3. ASSUME NEW p \in Procs, Restart(p) PROVE AuthInv'
  BY <1>3, RestartKeeps
<1>4. CASE Tick
  BY <1>4 DEF Tick, AuthInv, TypeOK, Owners, Settled, Kinds, Holding, Durable, SingleUse
<1>5. CASE UNCHANGED vars
  BY <1>5 DEF vars, AuthInv, TypeOK, Owners, Settled, Kinds, Holding, Durable, SingleUse
<1> QED BY <1>1, <1>2, <1>3, <1>4, <1>5 DEF Next

(* The inductive invariant holds in every reachable state. *)
THEOREM AuthInvariance == Spec => []AuthInv
  BY AuthInit, AuthNext, PTL DEF Spec

(* A nonce, a replay fingerprint and a challenge let at most one committed *)
(* unit of work go ahead, in however many processes.                       *)
THEOREM RecordsSingleUse == Spec => []SingleUse
<1>1. AuthInv => SingleUse
  BY DEF AuthInv
<1> QED BY <1>1, AuthInvariance, PTL

(* A consumed nonce, a recorded fingerprint, an approved challenge and a   *)
(* revoked or expired mandate stay what they are in the database.          *)
THEOREM RecordsFinal == Spec => VerdictsFinal
<1>1. AuthInv /\ [Next]_vars =>
        [\A r \in Rows : row[r].status \in Final => row'[r] = row[r]]_vars
  <2> SUFFICES ASSUME AuthInv, Next, NEW r \in Rows, row[r].status \in Final
               PROVE  row'[r] = row[r]
    BY DEF vars
  <2>1. draft[r] = row[r]
    BY DEF AuthInv, Settled
  <2>2. ASSUME NEW u \in Units, Commit(u) PROVE row'[r] = row[r]
    BY <2>1, <2>2 DEF Commit
  <2>3. ASSUME NEW u \in Units, Step(u), ~ Commit(u) PROVE row' = row
    BY <2>3 DEF Step, Create, Consume, Check, Insert, Confirm, Reject, TransitionMandate,
       GiveUp, Write, Refuse, Rollback
  <2>4. ASSUME NEW u \in Units, NEW k \in Calls, Start(u, k) PROVE row' = row
    BY <2>4 DEF Start
  <2>5. ASSUME NEW p \in Procs, Restart(p) PROVE row' = row
    BY <2>5 DEF Restart
  <2>6. Tick => row' = row
    BY DEF Tick
  <2> QED BY <2>2, <2>3, <2>4, <2>5, <2>6 DEF Next
<1> QED BY <1>1, AuthInvariance, PTL DEF Spec, VerdictsFinal

---------------------------------------------------------------------------------
(* An approval carries a time before the row's deadline. *)
InTime(x) == x.status = "APPROVED" => x.stamp < x.due

(* Drafts and committed rows alike. *)
Timely == \A r \in Rows : InTime(draft[r]) /\ InTime(row[r])

(* A mandate is only ever the row of a mandate call. *)
MandateCalls ==
  \A u \in Units :
    call[u] # NoCall /\ call[u].row \in Mandates => call[u].op \in {"create", "draft"} \cup DOMAIN Target

(* The dictionary agrees with the draft of an open unit and with the row   *)
(* of a committed one, unless the process restarted in between.            *)
Remembered ==
  \A u \in Units : \A r \in passed[u] :
    /\ r \notin Mandates
    /\ phase[u] = "open" => memory[ProcOf[u]][r] \in {draft[r].status, "ABSENT"}
    /\ phase[u] = "committed" => memory[ProcOf[u]][r] \in {row[r].status, "ABSENT"}

VerdictInv == Timely /\ MandateCalls /\ Remembered

(* The write of a call that passed its checks: the row is not final, an    *)
(* approval is in time, and only a final status of a row that is no        *)
(* mandate tells the unit to go ahead.                                     *)
Writes(u) ==
  \E r \in Rows, new \in Row, told \in SUBSET Rows :
    /\ phase[u] = "open" /\ Write(u, r, new, told)
    /\ told \subseteq {r} /\ draft[r].status \notin Final
    /\ InTime(new) /\ (told # {} => r \notin Mandates)

(* Every call ends in one of four ways: it leaves the rows alone, writes   *)
(* one row, rolls back, or commits.                                        *)
LEMMA StepForms ==
  ASSUME AuthInv, VerdictInv, NEW u \in Units, Step(u)
  PROVE  \/ UNCHANGED <<row, draft, phase, passed, memory>>
         \/ Writes(u)
         \/ phase[u] = "open" /\ Rollback(u)
         \/ Commit(u)
<1> DEFINE c == call[u]
           d == draft[c.row]
<1>0. DOMAIN Target = {"activate", "suspend", "revoke", "expire"}
      /\ DOMAIN FirstStatus = {"issue", "challenge", "create", "draft"}
  BY DEF Target, FirstStatus
<1>a. ASSUME c.op \in Ops
      PROVE  /\ phase[u] = "open" /\ c \in Call /\ c.row \in Rows /\ d \in Row /\ now \in Nat
             /\ c.row \in Nonces <=> c.op \in {"issue", "consume"}
             /\ c.row \in Mandates => c.op \in {"create", "draft"} \cup DOMAIN Target
  <2>1. c # NoCall
    BY <1>a, <1>0 DEF NoCall, Ops
  <2>2. phase[u] = "open" /\ c \in Call /\ c.row \in Rows /\ (c.row \in Nonces <=> c.op \in {"issue", "consume"})
    BY <1>a, Calling
  <2> QED BY <2>1, <2>2 DEF AuthInv, TypeOK, VerdictInv, MandateCalls
<1>1. CASE Create(u)
  <2>1. c.op \in Ops /\ c.op \in DOMAIN FirstStatus
    BY <1>0, <1>1 DEF Create, Ops
  <2>2. CASE d = Absent
    <3>1. FirstStatus[c.op] \in Status /\ FirstStatus[c.op] # "APPROVED"
      BY <1>0, <2>1 DEF FirstStatus, Status
    <3>2. Created(c) \in Row /\ InTime(Created(c))
      BY <1>a, <2>1, <3>1, StoreAssumption DEF Created, Row, Call, InTime
    <3>3. Write(u, c.row, Created(c), {})
      BY <1>1, <2>2 DEF Create
    <3> QED BY <1>a, <2>1, <2>2, <3>2, <3>3, AbsentIsNotFinal DEF Writes
  <2>3. CASE d # Absent
    BY <1>1, <1>a, <2>1, <2>3 DEF Create
  <2> QED BY <2>2, <2>3
<1>2. CASE Consume(u)
  <2> DEFINE new == [d EXCEPT !.status = "CONSUMED", !.stamp = c.at]
  <2>1. c.op = "consume" /\ c.op \in Ops
    BY <1>2 DEF Consume, Ops
  <2>2. CASE Write(u, c.row, new, {c.row}) /\ NonceAllows(c, d)
    <3>1. d.status \in {"ABSENT", "ISSUED", "CONSUMED"}
      BY <1>a, <2>1 DEF AuthInv, Kinds
    <3>2. d.status \notin Final
      BY <2>2, <3>1 DEF NonceAllows, Final
    <3>3. new \in Row /\ InTime(new)
      BY <1>a, <2>1 DEF Row, Status, Call, InTime
    <3>4. c.row \notin Mandates
      BY <1>a, <2>1, StoreAssumption
    <3> HIDE DEF new
    <3> QED BY <1>a, <2>1, <2>2, <3>2, <3>3, <3>4 DEF Writes
  <2>3. CASE ~ (Write(u, c.row, new, {c.row}) /\ NonceAllows(c, d))
    BY <1>2, <2>3 DEF Consume, Refuse
  <2> QED BY <2>2, <2>3
<1>3. CASE Check(u)
  BY <1>3 DEF Check
<1>4. CASE Insert(u)
  <2> DEFINE new == [status |-> "RECORDED", ctx |-> c.ctx, due |-> c.at + Ttl, stamp |-> 0]
  <2>1. c.op = "insert" /\ c.op \in Ops
    BY <1>4 DEF Insert, Ops
  <2>2. CASE d = Absent
    <3>1. new \in Row /\ InTime(new)
      BY <1>a, <2>1, StoreAssumption DEF Row, Status, Call, InTime
    <3>2. Write(u, c.row, new, {c.row}) /\ c.row \notin Mandates
      BY <1>0, <1>4, <1>a, <2>1, <2>2 DEF Insert
    <3> HIDE DEF new
    <3> QED BY <1>a, <2>1, <2>2, <3>1, <3>2, AbsentIsNotFinal DEF Writes
  <2>3. CASE d # Absent
    BY <1>4, <1>a, <2>1, <2>3 DEF Insert
  <2> QED BY <2>2, <2>3
<1>5. CASE Confirm(u)
  <2> DEFINE new == [d EXCEPT !.status = "APPROVED", !.stamp = now]
  <2>1. c.op = "confirm" /\ c.op \in Ops
    BY <1>5 DEF Confirm, Ops
  <2>2. CASE Write(u, c.row, new, {c.row}) /\ Approves(c, d)
    <3>1. d.status \notin Final /\ c.row \notin Mandates
      BY <1>0, <1>a, <2>1, <2>2 DEF Approves, Final
    <3>2. new \in Row /\ InTime(new)
      BY <1>a, <2>1, <2>2 DEF Row, Status, InTime, Approves
    <3> HIDE DEF new
    <3> QED BY <1>a, <2>1, <2>2, <3>1, <3>2 DEF Writes
  <2>3. CASE ~ (Write(u, c.row, new, {c.row}) /\ Approves(c, d))
    BY <1>5, <1>a, <2>1, <2>3 DEF Confirm
  <2> QED BY <2>2, <2>3
<1>6. CASE Reject(u)
  BY <1>6, <1>a DEF Reject, Ops
<1>7. CASE TransitionMandate(u)
  <2> DEFINE new == [d EXCEPT !.status = Target[c.op]]
  <2>1. c.op \in DOMAIN Target /\ c.op \in Ops
    BY <1>7 DEF TransitionMandate, Ops
  <2>2. CASE Write(u, c.row, new, {}) /\ Legal(d.status, Target[c.op])
    <3>1. d.status \notin Final
      BY <2>2 DEF Legal, Final
    <3>2. Target[c.op] \in Status /\ Target[c.op] # "APPROVED"
      BY <1>0, <2>1 DEF Target, Status
    <3>3. new \in Row /\ InTime(new)
      BY <1>a, <2>1, <3>2 DEF Row, InTime
    <3> HIDE DEF new
    <3> QED BY <1>a, <2>1, <2>2, <3>1, <3>3 DEF Writes
  <2>3. CASE ~ (Write(u, c.row, new, {}) /\ Legal(d.status, Target[c.op]))
    BY <1>7, <1>a, <2>1, <2>3 DEF TransitionMandate
  <2> QED BY <2>2, <2>3
<1>8. CASE Commit(u) \/ GiveUp(u)
  BY <1>8 DEF GiveUp
<1> QED BY <1>1, <1>2, <1>3, <1>4, <1>5, <1>6, <1>7, <1>8 DEF Step

(* A unit executes a mandate call only on a mandate: the other calls do    *)
(* not turn into one.                                                      *)
LEMMA MandateCallsKept ==
  ASSUME AuthInv, MandateCalls, [Next]_vars
  PROVE  MandateCalls'
<1>0. DOMAIN Target = {"activate", "suspend", "revoke", "expire"}
  BY DEF Target
<1>1. ASSUME NEW u \in Units, call' = call \/ Return(u) PROVE MandateCalls'
  BY <1>1 DEF MandateCalls, Return, AuthInv, TypeOK
<1>2. ASSUME NEW u \in Units, Check(u) PROVE MandateCalls'
  <2>1. call[u].op = "check" /\ call[u] \in Call /\ call[u].row \in Rows
    BY <1>2, Calling DEF Check, Ops
  <2>2. call[u].row \notin Mandates
    BY <1>0, <2>1 DEF MandateCalls, NoCall
  <2>3. CASE call' = [call EXCEPT ![u].op = "insert"]
    <3>1. call'[u].row = call[u].row
      BY <2>1, <2>3 DEF AuthInv, TypeOK, Call
    <3> QED BY <2>2, <2>3, <3>1 DEF MandateCalls, AuthInv, TypeOK
  <2> QED BY <1>1, <1>2, <2>3 DEF Check
<1>3. ASSUME NEW u \in Units, Step(u), ~ Check(u) PROVE MandateCalls'
  <2>1. call' = call \/ Return(u)
    BY <1>3 DEF Step, Create, Consume, Insert, Confirm, Reject, TransitionMandate, Commit,
       GiveUp, Write, Refuse, Rollback
  <2> QED BY <1>1, <2>1
<1>4. ASSUME NEW u \in Units, NEW k \in Calls, Start(u, k) PROVE MandateCalls'
  <2>1. k[2] \in Mandates => k[1] \in {"create", "draft"} \cup DOMAIN Target
    BY <1>0, StoreAssumption DEF Calls
  <2>2. call'[u].op = k[1] /\ call'[u].row = k[2]
    BY <1>4 DEF Start, AuthInv, TypeOK
  <2> QED BY <1>4, <2>1, <2>2 DEF MandateCalls, Start, AuthInv, TypeOK
<1>5. ASSUME NEW p \in Procs, Restart(p) PROVE MandateCalls'
  BY <1>5 DEF Restart, MandateCalls, AuthInv, TypeOK
<1>6. (Tick \/ UNCHANGED vars) => MandateCalls'
  BY DEF Tick, vars, MandateCalls
<1> QED BY <1>2, <1>3, <1>4, <1>5, <1>6 DEF Next

(* Writing a row: nobody else's verdict is on it, so no dictionary entry   *)
(* and no row another unit relies on is overwritten.                       *)
LEMMA WritesRemember ==
  ASSUME AuthInv, Timely, Remembered, NEW u \in Units, Writes(u)
  PROVE  Timely' /\ Remembered'
<1>1. PICK r \in Rows, new \in Row, told \in SUBSET Rows :
        /\ phase[u] = "open" /\ Write(u, r, new, told)
        /\ told \subseteq {r} /\ draft[r].status \notin Final
        /\ InTime(new) /\ (told # {} => r \notin Mandates)
  BY DEF Writes
<1>2. Timely'
  BY <1>1 DEF Timely, Write, AuthInv, TypeOK
<1>3. Remembered'
  <2> SUFFICES ASSUME NEW v \in Units, NEW q \in passed'[v]
               PROVE  /\ q \notin Mandates
                      /\ phase[v] = "open" => memory'[ProcOf[v]][q] \in {draft'[q].status, "ABSENT"}
                      /\ phase[v] = "committed" => memory'[ProcOf[v]][q] \in {row[q].status, "ABSENT"}
    BY <1>1 DEF Remembered, Write
  <2>0. memory \in [Procs -> [Rows -> Status]] /\ ProcOf \in [Units -> Procs]
        /\ draft \in [Rows -> Row] /\ passed \in [Units -> SUBSET Rows]
    BY StoreAssumption DEF AuthInv, TypeOK
  <2>1. CASE q \in passed[v]
    <3>1. q \in Rows /\ q \notin Mandates
      BY <2>0, <2>1 DEF Remembered
    <3>2. phase[v] \in {"open", "committed"} => q # r
      BY <1>1, <2>1, <3>1 DEF AuthInv, Holding, Durable, Settled
    <3>3. q # r => memory'[ProcOf[v]][q] = memory[ProcOf[v]][q] /\ draft'[q] = draft[q]
      BY <1>1, <2>0, <3>1 DEF Write
    <3> QED BY <2>1, <3>1, <3>2, <3>3 DEF Remembered
  <2>2. CASE q \notin passed[v]
    <3>1. v = u /\ q = r /\ q \notin Mandates
      BY <1>1, <2>0, <2>2 DEF Write
    <3>2. memory'[ProcOf[v]][q] = new.status /\ draft'[q] = new
      BY <1>1, <2>0, <3>1 DEF Write
    <3> QED BY <1>1, <3>1, <3>2
  <2> QED BY <2>1, <2>2
<1> QED BY <1>2, <1>3

(* A rollback takes back only rows of the unit itself. *)
LEMMA RollbackRemembers ==
  ASSUME AuthInv, Timely, Remembered, NEW u \in Units, Rollback(u)
  PROVE  Timely' /\ Remembered'
<1>1. Timely'
  BY DEF Timely, Rollback
<1>2. Remembered'
  <2> SUFFICES ASSUME NEW v \in Units, NEW q \in passed[v]
               PROVE  /\ q \notin Mandates
                      /\ phase'[v] = "open" => memory[ProcOf[v]][q] \in {draft'[q].status, "ABSENT"}
                      /\ phase'[v] = "committed" => memory[ProcOf[v]][q] \in {row[q].status, "ABSENT"}
    BY DEF Remembered, Rollback
  <2>1. q \in Rows /\ (phase'[v] # "rolledback" => v # u /\ phase'[v] = phase[v])
    BY DEF AuthInv, TypeOK, Rollback
  <2>2. phase'[v] = "open" => draft'[q] = draft[q]
    BY <2>1 DEF AuthInv, Holding, Rollback
  <2> QED BY <2>1, <2>2 DEF Remembered
<1> QED BY <1>1, <1>2

(* A commit makes durable exactly what the dictionary already holds. *)
LEMMA CommitRemembers ==
  ASSUME AuthInv, Timely, Remembered, NEW u \in Units, Commit(u)
  PROVE  Timely' /\ Remembered'
<1>1. Timely'
  BY DEF Timely, Commit
<1>2. Remembered'
  <2> SUFFICES ASSUME NEW v \in Units, NEW q \in passed[v]
               PROVE  /\ q \notin Mandates
                      /\ phase'[v] = "open" => memory[ProcOf[v]][q] \in {draft[q].status, "ABSENT"}
                      /\ phase'[v] = "committed" => memory[ProcOf[v]][q] \in {row'[q].status, "ABSENT"}
    BY DEF Remembered, Commit
  <2>0. q \in Rows
    BY DEF AuthInv, TypeOK
  <2>1. CASE v = u
    <3>1. holder[q] = u /\ row'[q] = draft[q] /\ phase[u] = "open" /\ phase'[u] = "committed"
      BY <2>0, <2>1 DEF AuthInv, TypeOK, Holding, Commit
    <3> QED BY <2>1, <3>1 DEF Remembered
  <2>2. CASE v # u
    <3>1. phase'[v] = phase[v] /\ (phase[v] = "committed" => row'[q] = row[q])
      BY <2>0, <2>2 DEF AuthInv, TypeOK, Durable, Settled, Commit
    <3> QED BY <3>1 DEF Remembered
  <2> QED BY <2>1, <2>2
<1> QED BY <1>1, <1>2

(* A restart forgets: the dictionaries of one process become empty. *)
LEMMA RestartRemembers ==
  ASSUME AuthInv, Timely, Remembered, NEW p \in Procs, Restart(p)
  PROVE  Timely' /\ Remembered'
<1>1. Timely'
  BY DEF Timely, Restart
<1>2. Remembered'
  <2> SUFFICES ASSUME NEW v \in Units, NEW q \in passed[v]
               PROVE  /\ q \notin Mandates
                      /\ phase'[v] = "open" => memory'[ProcOf[v]][q] \in {draft'[q].status, "ABSENT"}
                      /\ phase'[v] = "committed" => memory'[ProcOf[v]][q] \in {row[q].status, "ABSENT"}
    BY DEF Remembered, Restart
  <2>1. q \in Rows /\ ProcOf[v] \in Procs /\ (phase'[v] # "rolledback" => phase'[v] = phase[v])
    BY StoreAssumption DEF AuthInv, TypeOK, Restart
  <2>2. memory'[ProcOf[v]][q] \in {memory[ProcOf[v]][q], "ABSENT"}
    BY <2>1 DEF AuthInv, TypeOK, Restart
  <2>3. phase'[v] = "open" => draft'[q] = draft[q]
    BY <2>1 DEF AuthInv, TypeOK, Holding, Restart
  <2> QED BY <2>1, <2>2, <2>3 DEF Remembered
<1> QED BY <1>1, <1>2

(* The second layer is an invariant on top of the first. *)
LEMMA VerdictNext == AuthInv /\ VerdictInv /\ [Next]_vars => VerdictInv'
<1> SUFFICES ASSUME AuthInv, VerdictInv, [Next]_vars PROVE VerdictInv'
  OBVIOUS
<1>0. Timely /\ Remembered /\ MandateCalls
  BY DEF VerdictInv
<1>q. UNCHANGED <<row, draft, phase, passed, memory>> => Timely' /\ Remembered'
  BY <1>0 DEF Timely, Remembered
<1>1. ASSUME NEW u \in Units, Step(u) PROVE Timely' /\ Remembered'
  BY <1>0, <1>1, <1>q, StepForms, WritesRemember, RollbackRemembers, CommitRemembers
<1>2. ASSUME NEW u \in Units, NEW k \in Calls, Start(u, k) PROVE Timely' /\ Remembered'
  BY <1>2, <1>q DEF Start
<1>3. ASSUME NEW p \in Procs, Restart(p) PROVE Timely' /\ Remembered'
  BY <1>0, <1>3, RestartRemembers
<1>4. (Tick \/ UNCHANGED vars) => Timely' /\ Remembered'
  BY <1>q DEF Tick, vars
<1>5. MandateCalls'
  BY <1>0, MandateCallsKept
<1> QED BY <1>1, <1>2, <1>3, <1>4, <1>5 DEF Next, VerdictInv

(* Both layers hold in every reachable state. *)
THEOREM VerdictInvariance == Spec => []VerdictInv
<1>1. Init => VerdictInv
  BY DEF Init, VerdictInv, Timely, InTime, MandateCalls, Remembered, Absent
<1> QED BY <1>1, VerdictNext, AuthInvariance, PTL DEF Spec

(* No challenge is committed as approved with an approval time at or after *)
(* its deadline, however long the confirmation waited for the row.         *)
THEOREM ChallengesApprovedInTime == Spec => []ApprovedInTime
<1>1. VerdictInv => ApprovedInTime
  BY DEF VerdictInv, Timely, InTime, ApprovedInTime, Rows
<1> QED BY <1>1, VerdictInvariance, PTL

(* A process remembers the verdict it took, in the very status that became *)
(* durable, or nothing at all.                                             *)
THEOREM VerdictsRemembered == Spec => []VerdictRemembered
<1>1. VerdictInv => VerdictRemembered
  BY DEF VerdictInv, Remembered, VerdictRemembered
<1> QED BY <1>1, VerdictInvariance, PTL
=================================================================================
