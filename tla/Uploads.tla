------------------------------ MODULE Uploads ------------------------------
(***************************************************************************)
(* Staged uploads (internal/uploads): the page_content_uploads rows and   *)
(* their chunks, and the transactions that open, fill, read, commit,      *)
(* cancel and reap them.                                                  *)
(*                                                                         *)
(* A transaction is several statements under READ COMMITTED, so its       *)
(* statements interleave with those of the others: Begin fixes now(), a   *)
(* DELETE or SELECT ... FOR UPDATE waits for the row locks in its way and *)
(* sees what is committed then, and the last statement of a transaction   *)
(* commits.  What a transaction deleted (gone) is invisible to it at once *)
(* and to the others when it commits.  Arguments that only the last       *)
(* statement reads are chosen there.  Rollback is every refusal, timeout, *)
(* dropped connection or crash; a client that lost the answer just calls  *)
(* again, which any call may do at any time.                              *)
(***************************************************************************)
EXTENDS Integers, Sequences, FiniteSets

CONSTANTS
  Tokens,            \* API tokens
  Calls,             \* database connections that may run a call
  Loads,             \* bounds: what clients may do and how far, see load
  MaxChunk,          \* MaxChunkBytes
  MaxActiveUploads,  \* the per-token cap
  TTL,               \* UploadTTLHours, in clock units
  StaleAfter,        \* StaleUploadMinutes
  TicketTTL,         \* TicketTTLMinutes
  TxSpan             \* how long statement and lock timeouts let a transaction live

ASSUME LimitsAssumption ==
  /\ MaxActiveUploads \in Nat \ {0} /\ MaxChunk \in Nat \ {0}
  /\ TTL \in Nat /\ StaleAfter \in Nat /\ TicketTTL \in Nat /\ TxSpan \in Nat
  /\ TxSpan < StaleAfter /\ StaleAfter < TTL

AllOps == {"start", "append", "put", "deploy", "cancel", "peek"}

ASSUME LoadsAssumption ==
  \A l \in Loads : /\ l.ops \subseteq AllOps
                   /\ l.docs \subseteq Seq(Int) /\ l.chunks \subseteq Seq(Int)   \* bytes
                   /\ l.rows \in Nat /\ l.time \in Nat /\ l.sequence \in Nat

None  == 0
NoKey == "no key"
Free  == "free"

ASSUME NamesAssumption == (\A l \in Loads : NoKey \notin l.keys) /\ Free \notin Calls

VARIABLES
  load,      \* ops clients call, kinds, docs they declare, chunks and commit keys they
             \* send, and the bounds: rows inserted, sequence numbers sent, time
  clock,     \* the database's clock
  uploads,   \* page_content_uploads with the chunks of each row
  opened,    \* the last upload id handed out
  rowLock,   \* who holds each row's lock
  advisory,  \* who holds each token's advisory lock
  calls,     \* the transaction each connection is in
  effects    \* per upload: what its consumer has committed

Ids == 1..load.rows

vars == <<load, clock, uploads, opened, rowLock, advisory, calls, effects>>

Nobody == [op |-> "none"]

NoRow == [live |-> FALSE]

---------------------------------------------------------------------------
(* Bytes.  A document stands for its bytes and for their SHA-256.          *)

\* storedChunks: the chunks in sequence order, concatenated.
Joined(chunks) ==
  LET upTo[n \in 0..Len(chunks)] == IF n = 0 THEN <<>> ELSE upTo[n - 1] \o chunks[n]
  IN upTo[Len(chunks)]

\* PutTicketContent stores the body as chunks of MaxChunk bytes.
Split(doc) ==
  [k \in 1..((Len(doc) + MaxChunk - 1) \div MaxChunk) |->
     SubSeq(doc, (k - 1) * MaxChunk + 1,
            IF k * MaxChunk < Len(doc) THEN k * MaxChunk ELSE Len(doc))]

\* readVerified: complete, every chunk there, and hashing to the declaration.
Verified(row) ==
  /\ row.received = Len(row.doc)
  /\ Len(row.chunks) = row.next
  /\ Joined(row.chunks) = row.doc

---------------------------------------------------------------------------
(* Transactions.                                                           *)

At(c, pc) == calls[c].op # "none" /\ calls[c].pc = pc

GoTo(c, pc) == calls' = [calls EXCEPT ![c].pc = pc]

\* The rows call c sees: committed ones it has not deleted itself.
Sees(c) == {i \in Ids : uploads[i].live} \ calls[c].gone

MayLock(c, rows) == \A i \in rows : rowLock[i] \in {Free, c}

Begin(c, op, t, i) ==
  /\ calls[c] = Nobody
  /\ calls' = [calls EXCEPT ![c] =
        [op |-> op, pc |-> IF op = "start" THEN "advisory" ELSE "cleanup",
         token |-> t, id |-> i, now |-> clock, gone |-> {}, up |-> NoRow, full |-> FALSE]]
  /\ UNCHANGED <<load, clock, uploads, opened, rowLock, advisory, effects>>

\* Every lock of c is released at the end of its transaction.
Released(c, locks) == [k \in DOMAIN locks |-> IF locks[k] = c THEN Free ELSE locks[k]]

\* COMMIT, with the rows written by the last statement.
Commit(c, written) ==
  /\ uploads' = [i \in Ids |-> IF i \in calls[c].gone THEN NoRow ELSE written[i]]
  /\ rowLock' = Released(c, rowLock)
  /\ advisory' = Released(c, advisory)
  /\ calls' = [calls EXCEPT ![c] = Nobody]
  /\ UNCHANGED <<load, clock>>

Rollback(c) ==
  /\ calls[c] # Nobody
  /\ rowLock' = Released(c, rowLock)
  /\ advisory' = Released(c, advisory)
  /\ calls' = [calls EXCEPT ![c] = Nobody]
  /\ UNCHANGED <<load, clock, uploads, opened, effects>>

\* DELETE ... RETURNING, or the row locks a DELETE leaves behind.
Delete(c, rows, pc) ==
  /\ MayLock(c, rows)
  /\ rowLock' = [i \in Ids |-> IF i \in rows THEN c ELSE rowLock[i]]
  /\ calls' = [calls EXCEPT ![c].gone = @ \cup rows, ![c].pc = pc]
  /\ UNCHANGED <<load, clock, uploads, opened, advisory, effects>>

cleanupExpired(c) ==
  /\ At(c, "cleanup")
  /\ Delete(c, {i \in Sees(c) : uploads[i].expires <= calls[c].now},
            IF calls[c].op = "start" THEN "count" ELSE "lock")

---------------------------------------------------------------------------
(* Opening an upload: reserveUploadSlot, then the INSERT.                  *)

\* pg_advisory_xact_lock(token).
SerializeStarts_Unlocked(c) ==
  /\ At(c, "advisory")
  /\ GoTo(c, "cleanup")
  /\ UNCHANGED <<load, clock, uploads, opened, rowLock, advisory, effects>>
SerializeStarts(c) ==
  /\ At(c, "advisory")
  /\ advisory[calls[c].token] = Free
  /\ advisory' = [advisory EXCEPT ![calls[c].token] = c]
  /\ GoTo(c, "cleanup")
  /\ UNCHANGED <<load, clock, uploads, opened, rowLock, effects>>

Uncommitted(t, rows) == {i \in rows : uploads[i].token = t /\ uploads[i].key = NoKey}

countActive(c) ==
  Cardinality({i \in Uncommitted(calls[c].token, Sees(c)) : uploads[i].expires > calls[c].now})

\* full is history: the cap was in the way.
Count(c) ==
  /\ At(c, "count")
  /\ LET full == countActive(c) >= MaxActiveUploads
     IN calls' = [calls EXCEPT ![c].pc = IF full THEN "reap" ELSE "insert", ![c].full = full]
  /\ UNCHANGED <<load, clock, uploads, opened, rowLock, advisory, effects>>

\* An upload that has been silent for longer than StaleAfter.
Stale(row, now) == row.updated < now - StaleAfter

Reap_None(c) ==
  /\ At(c, "reap")
  /\ Delete(c, {}, "recount")
Reap(c) ==
  /\ At(c, "reap")
  /\ Delete(c, {i \in Uncommitted(calls[c].token, Sees(c)) : Stale(uploads[i], calls[c].now)},
            "recount")

Recount(c) ==
  /\ At(c, "recount")
  /\ countActive(c) < MaxActiveUploads
  /\ GoTo(c, "insert")
  /\ UNCHANGED <<load, clock, uploads, opened, rowLock, advisory, effects>>

\* 409 page_upload_limit: the transaction, reaping included, is rolled back.
LimitReached(c) ==
  /\ At(c, "recount")
  /\ countActive(c) >= MaxActiveUploads
  /\ Rollback(c)

\* Start (no ticket) and CreateTicket.
Insert(c, kind, doc, ticket) ==
  /\ At(c, "insert")
  /\ opened < load.rows
  /\ opened' = opened + 1
  /\ Commit(c, [uploads EXCEPT ![opened + 1] =
        [live |-> TRUE, token |-> calls[c].token, kind |-> kind, doc |-> doc,
         chunks |-> <<>>, received |-> 0, next |-> 0,
         expires |-> calls[c].now + TTL, updated |-> calls[c].now,
         ticket |-> ticket, ticketExpires |-> calls[c].now + TicketTTL, key |-> NoKey]])
  /\ UNCHANGED effects

---------------------------------------------------------------------------
(* Filling, reading, committing and cancelling one upload.                 *)

\* The handle names a row of the caller's token; a PUT knows its ticket only.
Addressed(c, i) ==
  /\ i \in Sees(c)
  /\ IF calls[c].op = "put" THEN uploads[i].ticket # "none"
                            ELSE uploads[i].token = calls[c].token

\* lockUpload, and the SELECT ... FOR UPDATE of PutTicketContent.  (The DELETE
\* of Cancel waits for the same lock before it looks at committed_at.)
lockUpload_NoLock(c) ==
  /\ At(c, "lock")
  /\ Addressed(c, calls[c].id)
  /\ calls' = [calls EXCEPT ![c].pc = "work", ![c].up = uploads[calls[c].id]]
  /\ UNCHANGED <<load, clock, uploads, opened, rowLock, advisory, effects>>
lockUpload(c) ==
  /\ At(c, "lock")
  /\ Addressed(c, calls[c].id)
  /\ MayLock(c, {calls[c].id})
  /\ rowLock' = [rowLock EXCEPT ![calls[c].id] = c]
  /\ calls' = [calls EXCEPT ![c].pc = "work", ![c].up = uploads[calls[c].id]]
  /\ UNCHANGED <<load, clock, uploads, opened, advisory, effects>>

\* Commit with the fields of row i set as in r.
CommitRow(c, r) == Commit(c, [uploads EXCEPT ![calls[c].id] = r])

\* An accepted write pushes the expiry out and marks the row as active.
Touched(c, r) == [r EXCEPT !.expires = calls[c].now + TTL, !.updated = calls[c].now]

Working(c, op) == At(c, "work") /\ calls[c].op = op

\* The whole stream must hash to the declaration before its last chunk counts.
Acceptable(u, chunk) ==
  LET received == u.received + Len(chunk)
  IN /\ received <= Len(u.doc)
     /\ received = Len(u.doc) => Joined(Append(u.chunks, chunk)) = u.doc

AppendChunk(c, sequence, chunk) ==
  /\ Len(chunk) \in 1..MaxChunk
  /\ Working(c, "append")
  /\ LET u == calls[c].up
     IN /\ u.key = NoKey
        /\ \/ /\ sequence < u.next /\ u.chunks[sequence + 1] = chunk   \* a replay
              /\ CommitRow(c, uploads[calls[c].id])
           \/ /\ sequence = u.next
              /\ Acceptable(u, chunk)
              /\ CommitRow(c, Touched(c, [u EXCEPT !.chunks = Append(@, chunk),
                                                   !.received = @ + Len(chunk),
                                                   !.next = sequence + 1]))
  /\ UNCHANGED <<opened, effects>>

\* PutTicketContent.  The primary key of the chunk table refuses the INSERT of
\* chunk 0 when appends already stored one.
PutTicketContent(c, content) ==
  /\ Working(c, "put")
  /\ LET u == calls[c].up
     IN /\ u.key = NoKey
        /\ u.ticketExpires > clock
        /\ content = u.doc
        /\ \/ /\ u.ticket = "used" /\ u.received = Len(u.doc)           \* a replay
              /\ CommitRow(c, uploads[calls[c].id])
           \/ /\ u.ticket = "open" /\ u.chunks = <<>>
              /\ CommitRow(c, Touched(c, [u EXCEPT !.chunks = Split(content),
                                                   !.received = Len(content),
                                                   !.next = Len(Split(content)),
                                                   !.ticket = "used"]))
  /\ UNCHANGED <<opened, effects>>

Peek(c, kind) ==
  /\ Working(c, "peek")
  /\ calls[c].up.kind = kind /\ calls[c].up.key = NoKey /\ Verified(calls[c].up)
  /\ CommitRow(c, uploads[calls[c].id])
  /\ UNCHANGED <<opened, effects>>

\* Deploy: a retry with the same key replays the receipt; the first commit runs
\* the consumer, writes the receipt and drops the chunks, all at once.
Deploy(c, kind, key) ==
  /\ Working(c, "deploy")
  /\ LET u == calls[c].up
         i == calls[c].id
     IN /\ u.kind = kind
        /\ \/ /\ u.key = key                                            \* a replay
              /\ CommitRow(c, uploads[i])
              /\ UNCHANGED effects
           \/ /\ u.key = NoKey /\ Verified(u)
              /\ CommitRow(c, Touched(c, [u EXCEPT !.key = key, !.chunks = <<>>]))
              /\ effects' = [effects EXCEPT ![i] =
                    Append(@, [doc |-> Joined(u.chunks), kind |-> kind, key |-> key])]
  /\ UNCHANGED opened

Cancel(c) ==
  /\ Working(c, "cancel")
  /\ calls[c].up.key = NoKey
  /\ CommitRow(c, NoRow)
  /\ UNCHANGED <<opened, effects>>

\* Cancelling an unknown handle is a no-op that commits the cleanup.
CancelNothing(c) ==
  /\ At(c, "lock") /\ calls[c].op = "cancel" /\ ~Addressed(c, calls[c].id)
  /\ Commit(c, uploads)
  /\ UNCHANGED <<opened, effects>>

---------------------------------------------------------------------------
\* Statement, lock and idle timeouts end a transaction within TxSpan.
Tick ==
  /\ clock < load.time
  /\ \A c \in Calls : calls[c] # Nobody => clock < calls[c].now + TxSpan
  /\ clock' = clock + 1
  /\ UNCHANGED <<load, uploads, opened, rowLock, advisory, calls, effects>>

Init ==
  /\ load \in Loads
  /\ clock = 0
  /\ uploads = [i \in Ids |-> NoRow]
  /\ opened = 0
  /\ rowLock = [i \in Ids |-> Free]
  /\ advisory = [t \in Tokens |-> Free]
  /\ calls = [c \in Calls |-> Nobody]
  /\ effects = [i \in Ids |-> <<>>]

StartStep(c) ==
  \/ SerializeStarts(c)
  \/ Count(c)
  \/ Reap(c)
  \/ Recount(c)
  \/ LimitReached(c)
  \/ \E k \in load.kinds, d \in load.docs, t \in {"none", "open"} : Insert(c, k, d, t)

RowStep(c) ==
  \/ lockUpload(c)
  \/ \E n \in 0..load.sequence, b \in load.chunks : AppendChunk(c, n, b)
  \/ \E b \in load.docs \cup load.chunks : PutTicketContent(c, b)
  \/ \E k \in load.kinds : Peek(c, k)
  \/ \E k \in load.kinds, key \in load.keys : Deploy(c, k, key)
  \/ Cancel(c)
  \/ CancelNothing(c)

Next ==
  \/ \E c \in Calls :
       \/ "start" \in load.ops /\ \E t \in Tokens : Begin(c, "start", t, None)
       \/ \E op \in load.ops \ {"start"}, t \in Tokens, i \in 1..opened : Begin(c, op, t, i)
       \/ cleanupExpired(c)
       \/ StartStep(c)
       \/ RowStep(c)
       \/ Rollback(c)
  \/ Tick

Spec == Init /\ [][Next]_vars

---------------------------------------------------------------------------
(* Properties.                                                             *)

Rows == [live : {TRUE}, token : Tokens, kind : load.kinds, doc : load.docs, chunks : Seq(Seq(Int)),
         received : Nat, next : Nat, expires : Int, updated : 0..load.time,
         ticket : {"none", "open", "used"}, ticketExpires : Int, key : load.keys \cup {NoKey}]
Transactions == [op : load.ops,
                 pc : {"advisory", "cleanup", "count", "reap", "recount", "insert", "lock", "work"},
                 token : Tokens, id : 0..load.rows, now : 0..load.time,
                 gone : SUBSET Ids, up : Rows \cup {NoRow}, full : BOOLEAN]

\* Rows, locks, transactions and committed effects have their types.
TypeOK ==
  /\ clock \in 0..load.time /\ opened \in 0..load.rows
  /\ uploads \in [Ids -> Rows \cup {NoRow}]
  /\ rowLock \in [Ids -> Calls \cup {Free}]
  /\ advisory \in [Tokens -> Calls \cup {Free}]
  /\ calls \in [Calls -> Transactions \cup {Nobody}]
  /\ effects \in [Ids -> Seq([doc : Seq(Int), kind : load.kinds, key : load.keys])]

Present == {i \in Ids : uploads[i].live}

\* No token ever holds more than MaxActiveUploads uncommitted uploads, however
\* its starts interleave with each other and with cleanups, reaps and commits
\* ("without this, concurrent starts could both observe four active uploads").
CapHeld == \A t \in Tokens : Cardinality(Uncommitted(t, Present)) <= MaxActiveUploads

\* An upload is consumed at most once, whatever is retried, raced or crashed;
\* a receipt is stored exactly when the consumer's change is, and what was
\* consumed is the declared content, as the declared kind, under the receipt's
\* options.
ConsumedOnce ==
  \A i \in Ids :
    /\ Len(effects[i]) <= 1
    /\ uploads[i].live =>
         IF uploads[i].key = NoKey THEN effects[i] = <<>>
         ELSE effects[i] = <<[doc |-> uploads[i].doc, kind |-> uploads[i].kind,
                              key |-> uploads[i].key]>>

\* An upload that says it is complete holds exactly the declared bytes, also
\* when appends and a ticket PUT are mixed on one upload.
CompleteIsDeclared ==
  \A i \in Ids : uploads[i].live /\ uploads[i].key = NoKey =>
    /\ uploads[i].received = Len(Joined(uploads[i].chunks))
    /\ uploads[i].next = Len(uploads[i].chunks)
    /\ uploads[i].received = Len(uploads[i].doc) => Joined(uploads[i].chunks) = uploads[i].doc

\* An accepted chunk stays as it was accepted until the upload is consumed or
\* removed, and a receipt never changes ("the saved receipt is immutable").
AcceptedKept ==
  [][ \A i \in Ids : uploads[i].live /\ uploads'[i].live =>
        /\ uploads[i].key # NoKey => uploads'[i] = uploads[i]
        /\ uploads'[i].key = NoKey => \A n \in 1..Len(uploads[i].chunks) :
              n <= Len(uploads'[i].chunks) /\ uploads'[i].chunks[n] = uploads[i].chunks[n] ]_vars

\* A row goes away for a reason only: it expired, its token cancelled it before
\* it was consumed, or it was silent for longer than StaleAfter and a start of
\* its own token had found the cap in the way ("an in-flight upload that simply
\* paused between appends is never destroyed underneath its caller").
RemovedForCause ==
  [][ \A i \in Ids : uploads[i].live /\ ~uploads'[i].live =>
        \/ uploads[i].expires <= clock
        \/ /\ uploads[i].key = NoKey
           /\ \E c \in Calls : /\ calls[c] # Nobody /\ calls[c].token = uploads[i].token
                               /\ \/ calls[c].op = "cancel" /\ calls[c].id = i
                                  \/ /\ calls[c].op = "start" /\ calls[c].full
                                     /\ uploads[i].updated < clock - StaleAfter ]_vars

\* The 409 page_upload_limit tells the truth: the token has that many uploads
\* in flight "and none are stale", so abandoned uploads never lock a token out.
LimitTruthful ==
  [][ \A c \in Calls : LimitReached(c) =>
        Cardinality({i \in Uncommitted(calls[c].token, Present) :
                       uploads[i].updated >= calls[c].now - StaleAfter}) >= MaxActiveUploads ]_vars

\* What an upload holds is what its clients sent and declared, until it is
\* consumed or removed.
ContentKept == []CompleteIsDeclared /\ AcceptedKept

\* A token's slots are taken away, and refused to it, for a reason only.
SlotsFair == RemovedForCause /\ LimitTruthful
=============================================================================
