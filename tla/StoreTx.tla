------------------------------ MODULE StoreTx ------------------------------
(***************************************************************************)
(* WriteTx of internal/store/store.go: every write of the daemon is a      *)
(* transaction on the one connection of the writer pool, between BEGIN     *)
(* IMMEDIATE and COMMIT or ROLLBACK, under a context that may be cancelled *)
(* before any of these statements.                                         *)
(*                                                                         *)
(* A statement whose context is over is not sent, and its caller gets an   *)
(* error; one that is sent is carried out, or fails and changes nothing.   *)
(* The engine refuses a BEGIN inside a transaction.  Bound: MaxWrites.     *)
(***************************************************************************)
EXTENDS Naturals

CONSTANTS Callers, NoCaller, MaxWrites

ASSUME StoreTxAssumption == NoCaller \notin Callers /\ MaxWrites \in Nat

VARIABLES
  holder,   \* who holds the connection of the writer pool
  inTx,     \* the connection is inside a transaction
  pending,  \* the writes of that transaction
  database, \* the writes that are committed
  caller,   \* what each caller is doing, the number of its write, its context
  writes

txVars == <<holder, inTx, pending, database, caller, writes>>

Idle == [pc |-> "idle", write |-> 0, over |-> FALSE]

StoreTxTypeOK ==
  /\ holder \in Callers \cup {NoCaller}
  /\ inTx \in BOOLEAN
  /\ pending \subseteq 1..MaxWrites
  /\ database \subseteq 1..MaxWrites
  /\ caller \in [Callers -> [pc : {"idle", "conn", "begin", "fn", "commit", "rollback", "discard", "close ok",
                                   "close error", "ok", "error"},
                             write : 0..MaxWrites, over : BOOLEAN]]
  /\ writes \in 0..MaxWrites

StoreTxInit ==
  /\ holder = NoCaller
  /\ inTx = FALSE
  /\ pending = {} /\ database = {}
  /\ caller = [c \in Callers |-> Idle]
  /\ writes = 0

At(c, pc) == caller[c].pc = pc
Move(c, pc) == caller' = [caller EXCEPT ![c].pc = pc]

CallWriteTx(c) ==
  /\ caller[c].pc \in {"idle", "ok", "error"}
  /\ writes < MaxWrites
  /\ writes' = writes + 1
  /\ caller' = [caller EXCEPT ![c] = [pc |-> "conn", write |-> writes + 1, over |-> FALSE]]
  /\ UNCHANGED <<holder, inTx, pending, database>>

Cancel(c) ==
  /\ ~caller[c].over
  /\ caller[c].pc \notin {"idle", "ok", "error"}
  /\ caller' = [caller EXCEPT ![c].over = TRUE]
  /\ UNCHANGED <<holder, inTx, pending, database, writes>>

Conn(c) ==
  /\ At(c, "conn")
  /\ \/ holder = NoCaller /\ holder' = c /\ Move(c, "begin")
     \/ caller[c].over /\ Move(c, "error") /\ UNCHANGED holder
  /\ UNCHANGED <<inTx, pending, database, writes>>

Sent(c) == ~caller[c].over

BeginImmediate(c) ==
  /\ At(c, "begin")
  /\ \/ Sent(c) /\ ~inTx /\ inTx' = TRUE /\ Move(c, "fn")
     \/ UNCHANGED inTx /\ Move(c, "close error")
  /\ UNCHANGED <<holder, pending, database, writes>>

\* fn writes, or gives up half way.
Fn(c) ==
  /\ At(c, "fn")
  /\ \/ Sent(c) /\ pending' = {caller[c].write} /\ caller' \in {[caller EXCEPT ![c].pc = pc] : pc \in {"commit", "rollback"}}
     \/ UNCHANGED pending /\ Move(c, "rollback")
  /\ UNCHANGED <<holder, inTx, database, writes>>

Commit(c) ==
  /\ At(c, "commit")
  /\ \/ /\ Sent(c)
        /\ inTx' = FALSE /\ database' = database \cup pending /\ pending' = {}
        /\ Move(c, "close ok")
     \/ UNCHANGED <<inTx, database, pending>> /\ Move(c, "rollback")
  /\ UNCHANGED <<holder, writes>>

Rollback_CallersContext(c) ==
  /\ At(c, "rollback")
  /\ \/ Sent(c) /\ inTx' = FALSE /\ pending' = {} /\ Move(c, "close error")
     \/ UNCHANGED <<inTx, pending>> /\ Move(c, "close error")
  /\ UNCHANGED <<holder, database, writes>>

\* ROLLBACK runs under a context of its own.
Rollback(c) ==
  /\ At(c, "rollback")
  /\ \/ inTx' = FALSE /\ pending' = {} /\ Move(c, "close error")
     \/ UNCHANGED <<inTx, pending>> /\ Move(c, "discard")
  /\ UNCHANGED <<holder, database, writes>>

\* The pool opens a new connection in place of one that is marked bad.
Discard(c) ==
  /\ At(c, "discard")
  /\ inTx' = FALSE /\ pending' = {}
  /\ Move(c, "close error")
  /\ UNCHANGED <<holder, database, writes>>

CloseConn(c) ==
  /\ \/ At(c, "close ok") /\ Move(c, "ok")
     \/ At(c, "close error") /\ Move(c, "error")
  /\ holder' = NoCaller
  /\ UNCHANGED <<inTx, pending, database, writes>>

StoreTxNext ==
  \E c \in Callers :
    \/ CallWriteTx(c) \/ Cancel(c) \/ Conn(c) \/ BeginImmediate(c) \/ Fn(c)
    \/ Commit(c) \/ Rollback(c) \/ Discard(c) \/ CloseConn(c)

StoreTxSpec == StoreTxInit /\ [][StoreTxNext]_txVars

-----------------------------------------------------------------------------
(* Properties.                                                             *)

\* However a write ends, and whatever context is cancelled when, the connection goes
\* back to the pool outside a transaction, so that the next write can begin; and a
\* caller that was told of an error has written nothing, one that was not has.
WriterNeverWedged ==
  /\ holder = NoCaller => ~inTx
  /\ \A c \in Callers : At(c, "ok") => caller[c].write \in database
  /\ \A c \in Callers : At(c, "error") => caller[c].write \notin database
=============================================================================
