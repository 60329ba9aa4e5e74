---------------------------- MODULE AuditChain ----------------------------
(* The append-only, hash-chained audit logs of a carrier: llm_release_audit  *)
(* and submission_events (migrations 064 and 065).  The trigger              *)
(* audit_chain_append links every new row to the one before it; the function *)
(* audit_chain_first_break reads a chain back.  The position of a row comes  *)
(* from one sequence that all carriers share and that no rollback gives back.*)
(*                                                                           *)
(* A hash determines the row it was computed from, so prev_hash is modelled  *)
(* by the position of the row it hashes and the rest of the content of a row *)
(* is left out.  Names that Intake has too are prefixed: the proofs about    *)
(* both are in one module.                                                   *)
EXTENDS Integers, FiniteSets

CONSTANTS Writer,       \* transactions that append
          Carrier,
          Nobody,
          MaxInserts,   \* bound: inserts that reach the database
          MaxClock      \* bound: ticks of the database's clock

ASSUME ChainConstants == /\ Nobody \notin Writer
                         /\ MaxInserts \in Nat
                         /\ MaxClock \in Nat

Genesis == 0            \* prev_hash of the first row of a chain is NULL

VARIABLES entries,      \* committed rows
          drafts,       \* rows of each transaction that has not ended
          tx,           \* where each transaction stands
          lock,         \* holder of the advisory lock of each chain
          sequence,     \* last value the sequence gave out
          inserts,      \* inserts begun so far
          clock

chainVars == <<entries, drafts, tx, lock, sequence, inserts, clock>>

Position == Nat \ {0}
Row == [carrier : Carrier, seq : Position, prev : Position \cup {Genesis},
        at : 0..MaxClock]
Idle == [phase |-> "idle"]
Begun == [phase : {"open", "inserting"}, carrier : Carrier, began : 0..MaxClock,
          arrived : Nat]
Transaction == {Idle} \cup Begun

ChainTypeOK ==
  /\ entries \subseteq Row
  /\ drafts \in [Writer -> SUBSET Row]
  /\ tx \in [Writer -> Transaction]
  /\ lock \in [Carrier -> Writer \cup {Nobody}]
  /\ sequence \in Nat
  /\ inserts \in Nat
  /\ clock \in 0..MaxClock

ChainInit ==
  /\ entries = {}
  /\ drafts = [w \in Writer |-> {}]
  /\ tx = [w \in Writer |-> Idle]
  /\ lock = [c \in Carrier |-> Nobody]
  /\ sequence = 0
  /\ inserts = 0
  /\ clock = 0

---------------------------------------------------------------------------
Chain(rows, c) == {r \in rows : r.carrier = c}
Tip(rows) == IF rows = {} THEN Genesis
              ELSE CHOOSE s \in {r.seq : r \in rows} : \A r \in rows : r.seq <= s

\* What a statement of transaction w sees under READ COMMITTED.
Visible(w) == entries \cup drafts[w]

\* pg_advisory_xact_lock: one appender of a chain until its transaction ends.
MayAppend(w) == lock[tx[w].carrier] \in {w, Nobody}

\* Mutant: the position is the default of the column, taken before the lock,
\* as it was before migration 065.
NextPosition_BeforeLock(w) == tx[w].arrived

\* Mutant: created_at keeps its default now(), the start of the transaction.
Stamp_TransactionStart(w) == tx[w].began

\* The position of a new row, taken while the lock is held.
NextPosition(w) == sequence + 1

\* created_at := clock_timestamp().
Stamp(w) == clock

\* The row the trigger completes.
Linked(w) ==
  [carrier |-> tx[w].carrier, seq |-> NextPosition(w),
   prev |-> Tip(Chain(Visible(w), tx[w].carrier)), at |-> Stamp(w)]

\* audit_chain_first_break: the first position whose row does not name the
\* row before it, or Genesis for a chain that is intact.
FirstBreak(c) ==
  LET chain == Chain(entries, c)
      broken == {r \in chain : r.prev # Tip({q \in chain : q.seq < r.seq})}
  IN  IF broken = {} THEN Genesis
      ELSE CHOOSE s \in {r.seq : r \in broken} : \A r \in broken : s <= r.seq

---------------------------------------------------------------------------
Begin(w, c) ==
  /\ tx[w] = Idle
  /\ tx' = [tx EXCEPT ![w] = [phase |-> "open", carrier |-> c,
                              began |-> clock, arrived |-> 0]]
  /\ UNCHANGED <<entries, drafts, lock, sequence, inserts, clock>>

\* INSERT reaches the database; its trigger asks for the lock of the chain.
Insert(w) ==
  /\ tx[w].phase = "open"
  /\ inserts < MaxInserts
  /\ inserts' = inserts + 1
  /\ tx' = [tx EXCEPT ![w].phase = "inserting", ![w].arrived = inserts + 1]
  /\ UNCHANGED <<entries, drafts, lock, sequence, clock>>

\* The trigger has the lock: it numbers, dates and links the row.
AppendEntry(w) ==
  /\ tx[w].phase = "inserting"
  /\ MayAppend(w)
  /\ lock' = [lock EXCEPT ![tx[w].carrier] = w]
  /\ sequence' = sequence + 1
  /\ drafts' = [drafts EXCEPT ![w] = @ \cup {Linked(w)}]
  /\ tx' = [tx EXCEPT ![w].phase = "open"]
  /\ UNCHANGED <<entries, inserts, clock>>

\* The end of a transaction releases the lock it holds.
End(w) ==
  /\ tx' = [tx EXCEPT ![w] = Idle]
  /\ drafts' = [drafts EXCEPT ![w] = {}]
  /\ lock' = [c \in Carrier |-> IF lock[c] = w THEN Nobody ELSE lock[c]]
  /\ UNCHANGED <<sequence, inserts, clock>>

Commit(w) == tx[w].phase = "open" /\ entries' = entries \cup drafts[w] /\ End(w)

\* The handler throws, or its process or connection dies.
Rollback(w) == tx[w] # Idle /\ UNCHANGED entries /\ End(w)

Tick ==
  /\ clock < MaxClock
  /\ clock' = clock + 1
  /\ UNCHANGED <<entries, drafts, tx, lock, sequence, inserts>>

ChainNext ==
  \/ \E w \in Writer : \/ \E c \in Carrier : Begin(w, c)
                       \/ Insert(w) \/ AppendEntry(w) \/ Commit(w) \/ Rollback(w)
  \/ Tick

ChainSpec == ChainInit /\ [][ChainNext]_chainVars

---------------------------------------------------------------------------
\* Whenever a chain is checked it is intact: entries appended by concurrent
\* transactions, whatever order they wait, commit and roll back in, neither
\* fork the chain nor sort before the entry they are linked to, and the gaps
\* that rollbacks leave in the numbers break nothing (065:3-5, 064:28).
ChainIntact == ChainTypeOK /\ \A c \in Carrier : FirstBreak(c) = Genesis

\* The trail lists entries by created_at (ai-audit.service.ts:115): that is
\* the order of the chain, also when a transaction appended long after it
\* began and others committed in between.
TrailIsChronological ==
  \A r, q \in entries : r.carrier = q.carrier /\ r.seq < q.seq => r.at <= q.at

===========================================================================
