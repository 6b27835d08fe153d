--------------------------- MODULE AuthorizationStore ---------------------------
(***************************************************************************)
(* The persistent authorization records: nonces (nonce_engine.py), replay  *)
(* fingerprints (replay_engine.py), step-up challenges (step_up_engine.py) *)
(* and mandates (mandate_lifecycle.py), over their repositories in         *)
(* db/repository.  A unit of work makes any sequence of calls and is then  *)
(* committed or rolled back; an exception rolls it back.  A call reads the *)
(* clock when it starts, waits for the row it needs, and checks the row    *)
(* with the time it read.                                                  *)
(*                                                                         *)
(* A context is the mandate, transaction and cart a record is bound to;    *)
(* its replay fingerprint is the context itself (SHA-256 is taken to be    *)
(* injective).  Amount and merchant of a confirmation are left out: the    *)
(* persistent method does not compare them.  Lookups change nothing and    *)
(* are left out too; every ttl is the default one.                         *)
(***************************************************************************)
EXTENDS Naturals

CONSTANTS Units, Procs, ProcOf,          \* units of work and the process of each
          Nonces, Challenges, Mandates, Contexts,
          Ttl,                           \* ttl_seconds of nonces, challenges and fingerprints
          MaxTime, MaxCalls,             \* bounds on the clock and on the calls made
          Nobody

Rows == Nonces \cup Challenges \cup Mandates \cup Contexts

ASSUME StoreAssumption ==
  /\ Ttl \in Nat \ {0} /\ MaxTime \in Nat /\ MaxCalls \in Nat
  /\ ProcOf \in [Units -> Procs]
  /\ Nobody \notin Units \cup Contexts
  /\ Nonces \cap (Challenges \cup Mandates \cup Contexts) = {}
  /\ Challenges \cap (Mandates \cup Contexts) = {}
  /\ Mandates \cap Contexts = {}

VARIABLES
  now,     \* the clock
  made,    \* the number of calls made
  row,     \* the committed rows
  draft,   \* the rows as the unit that holds their lock sees them
  holder,  \* the unit that locked, inserted or updated each row
  call,    \* per unit, the call it is executing
  phase,   \* per unit: open, committed or rolledback
  passed,  \* per unit, the rows it was told to go ahead on: nonces
           \* consumed, fingerprints recorded, challenges approved
  memory   \* per process, the status its engines' dictionaries hold

vars == <<now, made, row, draft, holder, call, phase, passed, memory>>

Status == {"ABSENT", "ISSUED", "CONSUMED", "RECORDED", "PENDING", "APPROVED", "REJECTED",
           "DRAFT", "ACTIVE", "SUSPENDED", "REVOKED", "EXPIRED"}

Row == [status : Status, ctx : Contexts \cup {Nobody},
        due : Nat,     \* created_at + ttl, or expires_at
        stamp : Nat]   \* consumed_at or approved_at

Absent == [status |-> "ABSENT", ctx |-> Nobody, due |-> 0, stamp |-> 0]

(* The status that each of the mandate calls asks for. *)
Target == [activate |-> "ACTIVE", suspend |-> "SUSPENDED", revoke |-> "REVOKED", expire |-> "EXPIRED"]

(* The calls a unit can make: the method, the row and the context given. *)
Calls ==
  ({"issue", "consume"} \X Nonces \X Contexts)
    \cup ({"challenge", "confirm"} \X Challenges \X Contexts)
    \cup ({"reject"} \X Challenges \X {Nobody})
    \cup {<<"check", x, x>> : x \in Contexts}
    \cup (({"create", "draft"} \cup DOMAIN Target) \X Mandates \X {Nobody})

Ops == {"issue", "consume", "challenge", "confirm", "reject", "check", "insert", "create", "draft"}
         \cup DOMAIN Target

Call == [op : Ops, row : Rows, ctx : Contexts \cup {Nobody}, at : Nat]
NoCall == [op |-> "none"]

(* Types of the clock, the rows and the units; only rows have a lock holder. *)
TypeOK ==
  /\ now \in Nat /\ made \in Nat
  /\ row \in [Rows -> Row] /\ draft \in [Rows -> Row]
  /\ holder \in [Rows -> Units \cup {Nobody}]
  /\ call \in [Units -> Call \cup {NoCall}]
  /\ phase \in [Units -> {"open", "committed", "rolledback"}]
  /\ passed \in [Units -> SUBSET Rows]
  /\ memory \in [Procs -> [Rows -> Status]]

Init ==
  /\ now = 0 /\ made = 0
  /\ row = [r \in Rows |-> Absent] /\ draft = row
  /\ holder = [r \in Rows |-> Nobody]
  /\ call = [u \in Units |-> NoCall]
  /\ phase = [u \in Units |-> "open"]
  /\ passed = [u \in Units |-> {}]
  /\ memory = [p \in Procs |-> [r \in Rows |-> "ABSENT"]]

---------------------------------------------------------------------------------
(* Locking and transactions.  Reads are READ COMMITTED. *)

(* Fault: the SELECT does not say FOR UPDATE. *)
Lockable_NoLock(u, r) == TRUE

(* SELECT ... FOR UPDATE, and an INSERT of the same primary key, wait for  *)
(* the unit that holds the row.                                            *)
Lockable(u, r) == holder[r] \in {Nobody, u}

(* What a unit sees of a row: its own writes, else what is committed. *)
Seen(u, r) == IF holder[r] = u THEN draft[r] ELSE row[r]

(* The call returns; the unit keeps every lock it has. *)
Return(u) == call' = [call EXCEPT ![u] = NoCall]

(* The locked row is refused: the call returns and writes nothing. *)
Refuse(u, r) ==
  /\ holder' = [holder EXCEPT ![r] = u]
  /\ Return(u)
  /\ UNCHANGED <<now, made, row, draft, phase, passed, memory>>

(* The row is written and flushed, and then the engine's own dictionary. *)
Write(u, r, new, told) ==
  /\ holder' = [holder EXCEPT ![r] = u]
  /\ draft' = [draft EXCEPT ![r] = new]
  /\ memory' = [memory EXCEPT ![ProcOf[u]][r] = IF r \in Mandates THEN @ ELSE new.status]
  /\ passed' = [passed EXCEPT ![u] = @ \cup told]
  /\ Return(u)
  /\ UNCHANGED <<now, made, row, phase>>

(* AsyncUnitOfWork.__aexit__ with an exception, or without a commit. *)
Rollback(u) ==
  /\ draft' = [r \in Rows |-> IF holder[r] = u THEN row[r] ELSE draft[r]]
  /\ holder' = [r \in Rows |-> IF holder[r] = u THEN Nobody ELSE holder[r]]
  /\ phase' = [phase EXCEPT ![u] = "rolledback"]
  /\ Return(u)
  /\ UNCHANGED <<now, made, row, passed, memory>>

(* An exception of the caller, a lost connection, a deadlock victim. *)
GiveUp(u) == phase[u] = "open" /\ Rollback(u)

Commit(u) ==
  /\ phase[u] = "open" /\ call[u] = NoCall
  /\ row' = [r \in Rows |-> IF holder[r] = u THEN draft[r] ELSE row[r]]
  /\ holder' = [r \in Rows |-> IF holder[r] = u THEN Nobody ELSE holder[r]]
  /\ phase' = [phase EXCEPT ![u] = "committed"]
  /\ UNCHANGED <<now, made, draft, call, passed, memory>>

---------------------------------------------------------------------------------
(* A call starts: eval_time is read before the row is locked. *)
Start(u, k) ==
  /\ phase[u] = "open" /\ call[u] = NoCall
  /\ call' = [call EXCEPT ![u] = [op |-> k[1], row |-> k[2], ctx |-> k[3], at |-> now]]
  /\ made < MaxCalls /\ made' = made + 1
  /\ UNCHANGED <<now, row, draft, holder, phase, passed, memory>>

(* The status of a new row, by the call that inserts it. *)
FirstStatus ==
  [issue |-> "ISSUED", challenge |-> "PENDING", create |-> "ACTIVE", draft |-> "DRAFT"]

Created(c) == [status |-> FirstStatus[c.op], ctx |-> c.ctx, due |-> c.at + Ttl, stamp |-> 0]

(* async_issue_nonce, async_create_challenge and async_create_mandate      *)
(* insert a row; an id that is taken is an error.                          *)
Create(u) ==
  LET c == call[u] IN
  /\ c.op \in DOMAIN FirstStatus
  /\ Lockable(u, c.row)
  /\ IF draft[c.row] = Absent
       THEN Write(u, c.row, Created(c), {})
       ELSE Rollback(u)

(* Fault: the status of the nonce is not checked. *)
NonceAllows_AnyStatus(c, n) == n.ctx = c.ctx /\ c.at < n.due

(* The checks of async_validate_and_consume and consume_nonce. *)
NonceAllows(c, n) == n.ctx = c.ctx /\ n.status # "CONSUMED" /\ c.at < n.due

(* async_validate_and_consume *)
Consume(u) ==
  LET c == call[u] n == draft[c.row] IN
  /\ c.op = "consume"
  /\ \/ /\ Seen(u, c.row) = Absent
        /\ Return(u)
        /\ UNCHANGED <<now, made, row, draft, holder, phase, passed, memory>>
     \/ /\ Seen(u, c.row) # Absent
        /\ Lockable(u, c.row)
        /\ IF NonceAllows(c, n)
             THEN Write(u, c.row, [n EXCEPT !.status = "CONSUMED", !.stamp = c.at], {c.row})
             ELSE Refuse(u, c.row)

(* is_fingerprint_replayed *)
Check(u) ==
  LET c == call[u] f == Seen(u, c.row) IN
  /\ c.op = "check"
  /\ IF f # Absent /\ c.at < f.due
       THEN Return(u)
       ELSE call' = [call EXCEPT ![u].op = "insert"]
  /\ UNCHANGED <<now, made, row, draft, holder, phase, passed, memory>>

(* record_replay_fingerprint: a duplicate primary key is a ValueError,     *)
(* whether or not the recorded window is over.                             *)
Insert(u) ==
  LET c == call[u] IN
  /\ c.op = "insert"
  /\ Lockable(u, c.row)
  /\ IF draft[c.row] = Absent
       THEN Write(u, c.row, [status |-> "RECORDED", ctx |-> c.ctx, due |-> c.at + Ttl, stamp |-> 0], {c.row})
       ELSE Rollback(u)

(* Fault: approve_challenge relies on the time the call read. *)
Approves_CallClock(c, ch) == ch.status = "PENDING" /\ c.at < ch.due /\ ch.ctx = c.ctx

(* The checks of async_record_human_confirmation, then approve_challenge,  *)
(* which reads the clock again.                                            *)
Approves(c, ch) == ch.status = "PENDING" /\ c.at < ch.due /\ ch.ctx = c.ctx /\ now < ch.due

(* async_record_human_confirmation *)
Confirm(u) ==
  LET c == call[u] ch == draft[c.row] IN
  /\ c.op = "confirm"
  /\ \/ Seen(u, c.row) = Absent /\ Rollback(u)
     \/ /\ Seen(u, c.row) # Absent
        /\ Lockable(u, c.row)
        /\ IF Approves(c, ch)
             THEN Write(u, c.row, [ch EXCEPT !.status = "APPROVED", !.stamp = now], {c.row})
             ELSE Rollback(u)

(* Fault: the dictionary entry is written before the row is parsed. *)
Reject_MemoryFirst(u) ==
  /\ call[u].op = "reject"
  /\ Seen(u, call[u].row) = Absent \/ Lockable(u, call[u].row)
  /\ memory' = [memory EXCEPT ![ProcOf[u]][call[u].row] = "REJECTED"]
  /\ Return(u)
  /\ UNCHANGED <<now, made, row, draft, holder, phase, passed>>

(* async_reject_challenge: reject_challenge overwrites approver_metadata   *)
(* of the same session object with the reason, which json.loads then       *)
(* refuses to parse, so the call raises whatever the row's status is.      *)
Reject(u) ==
  /\ call[u].op = "reject"
  /\ Seen(u, call[u].row) = Absent \/ Lockable(u, call[u].row)
  /\ Rollback(u)

(* Fault: a revoked mandate can be resumed. *)
Legal_Resume(from, to) ==
  \/ from = "DRAFT" /\ to = "ACTIVE"
  \/ from = "ACTIVE" /\ to \in {"SUSPENDED", "REVOKED", "EXPIRED"}
  \/ from \in {"SUSPENDED", "REVOKED"} /\ to \in {"ACTIVE", "REVOKED", "EXPIRED"}

(* _MANDATE_LEGAL_TRANSITIONS *)
Legal(from, to) ==
  \/ from = "DRAFT" /\ to = "ACTIVE"
  \/ from = "ACTIVE" /\ to \in {"SUSPENDED", "REVOKED", "EXPIRED"}
  \/ from = "SUSPENDED" /\ to \in {"ACTIVE", "REVOKED", "EXPIRED"}

(* async_transition_mandate and transition_mandate_status *)
TransitionMandate(u) ==
  LET c == call[u] m == draft[c.row] IN
  /\ c.op \in DOMAIN Target
  /\ \/ Seen(u, c.row) = Absent /\ Rollback(u)
     \/ /\ Seen(u, c.row) # Absent
        /\ Lockable(u, c.row)
        /\ IF Legal(m.status, Target[c.op])
             THEN Write(u, c.row, [m EXCEPT !.status = Target[c.op]], {})
             ELSE Rollback(u)

(* A process stops and starts again: its units are gone and its engines empty. *)
Restart(p) ==
  LET Lost == {u \in Units : ProcOf[u] = p /\ phase[u] = "open"} IN
  /\ draft' = [r \in Rows |-> IF holder[r] \in Lost THEN row[r] ELSE draft[r]]
  /\ holder' = [r \in Rows |-> IF holder[r] \in Lost THEN Nobody ELSE holder[r]]
  /\ phase' = [u \in Units |-> IF u \in Lost THEN "rolledback" ELSE phase[u]]
  /\ call' = [u \in Units |-> IF u \in Lost THEN NoCall ELSE call[u]]
  /\ memory' = [memory EXCEPT ![p] = [r \in Rows |-> "ABSENT"]]
  /\ UNCHANGED <<now, made, row, passed>>

Tick ==
  /\ now < MaxTime
  /\ now' = now + 1
  /\ UNCHANGED <<made, row, draft, holder, call, phase, passed, memory>>

Step(u) ==
  \/ Create(u) \/ Consume(u) \/ Check(u) \/ Insert(u)
  \/ Confirm(u) \/ Reject(u) \/ TransitionMandate(u)
  \/ Commit(u) \/ GiveUp(u)

Next ==
  \/ \E u \in Units : Step(u) \/ \E k \in Calls : Start(u, k)
  \/ \E p \in Procs : Restart(p)
  \/ Tick

Spec == Init /\ [][Next]_vars

---------------------------------------------------------------------------------
Final == {"CONSUMED", "RECORDED", "APPROVED", "REJECTED", "REVOKED", "EXPIRED"}

(* "A valid nonce may be consumed EXACTLY ONCE", "Second equivalent use -> *)
(* REJECT" and "exact-once approval": of all the units that commit, in any *)
(* process and order, at most one was told to go ahead on a nonce, a       *)
(* replay fingerprint or a challenge.  For fingerprints this holds beyond  *)
(* the protection window too, against the repository's own intent:         *)
(* "Expired records allow new registration" of check_and_record_replay     *)
(* inserts a second row under the primary key of the first.                *)
SingleUse ==
  \A u, v \in Units :
    phase[u] = "committed" /\ phase[v] = "committed" /\ passed[u] \cap passed[v] # {} => u = v

(* "terminal states (REVOKED, EXPIRED) cannot be reactivated", "terminal   *)
(* state immutability" of challenges, and replay records are "immutable    *)
(* security evidence": once such a status is committed, the row never      *)
(* changes again.                                                          *)
VerdictsFinal == [][\A r \in Rows : row[r].status \in Final => row'[r] = row[r]]_vars

(* A challenge is approved before it expires, even when the confirmation   *)
(* arrived in time and then waited for the row lock.                       *)
ApprovedInTime ==
  \A r \in Challenges : row[r].status = "APPROVED" => row[r].stamp < row[r].due

(* The dictionaries are written before the unit commits; nevertheless the  *)
(* process that took a verdict which became durable remembers exactly that *)
(* verdict, until it restarts.                                             *)
VerdictRemembered ==
  \A u \in Units : \A r \in passed[u] :
    phase[u] = "committed" => memory[ProcOf[u]][r] \in {row[r].status, "ABSENT"}
=================================================================================
