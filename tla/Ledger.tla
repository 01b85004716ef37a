------------------------------- MODULE Ledger -------------------------------
(***************************************************************************)
(* The hash-chained, append-only ledger of the control plane, as several   *)
(* LedgerClient objects see it: PKG-KERNEL-001/HOT/kernel/ledger_client.py.*)
(*                                                                         *)
(* A client caches the hash of the last entry it knows of, buffers         *)
(* entries, and flushes the buffer line by line to the current segment     *)
(* file, after a possible rotation to a new segment.  The client's file    *)
(* handle is itself buffered: a line reaches the disk at the tell() that   *)
(* precedes the next line, or at close(), while the cached hash and the    *)
(* offset index advance as soon as the line is handed to the handle.       *)
(*                                                                         *)
(* A process crash loses the object; it does not tear a line (that needs   *)
(* a power failure, which is not modelled).                                *)
(***************************************************************************)
EXTENDS Integers, Sequences

CONSTANTS
  Clients,        \* LedgerClient objects on one ledger path
  Subs,           \* values of entry.submission_id
  BatchSize,      \* batch_size, normalised by max(1, batch_size)
  BatchInterval,  \* batch_interval_sec; 0 disables
  RotateBytes,    \* rotate_bytes, counted in lines; 0 disables
  RotateDaily,    \* rotate_daily
  DayLength,      \* seconds in a day
  MaxEntries,     \* bound: LedgerEntry objects created
  MaxNow,         \* bound: seconds that pass
  MaxErrors       \* bound: flushes the disk refuses

ASSUME LedgerAssumption ==
  /\ BatchSize \in Nat \ {0}
  /\ BatchInterval \in Nat
  /\ RotateBytes \in Nat
  /\ RotateDaily \in BOOLEAN
  /\ DayLength \in Nat \ {0}
  /\ MaxEntries \in Nat
  /\ MaxNow \in Nat \ {0}
  /\ MaxErrors \in Nat

VARIABLES
  file,     \* segment -> the lines on disk; segment 0 is the base file
  idx,      \* segment -> its submission index on disk, pairs (sub, line number)
  meta,     \* segments recorded in index.jsonl
  client,   \* client -> the object's state
  now,      \* the clock, in seconds
  created,  \* LedgerEntry objects created so far; an entry's id is its number
  acked,    \* ids of entries whose flush() returned
  errors,   \* flushes the disk has refused
  disturbed \* history: a client was opened beside another, a segment was
            \* rotated or a flush failed

vars == <<file, idx, meta, client, now, created, acked, errors, disturbed>>

\* A segment is named after the second in which it is created; 0 is the base
\* file, "governance.jsonl".
Segments == 0..MaxNow

Hashes == Seq(Nat)

\* Entries in a client's buffer, and the lines written for them.
Entry == [id : Nat, sub : Subs, ts : Nat]
Line  == [id : Nat, sub : Subs, ts : Nat, prev : Hashes]

\* The SHA-256 of an entry covers its content and previous_hash: it is
\* abstracted, without collisions, to the ids along the chain.
HashOf(line) == Append(line.prev, line.id)

-----------------------------------------------------------------------------
(* What a client reads from the disk.                                       *)

\* sorted() puts "governance-<time>.jsonl" before "governance.jsonl", because
\* '-' sorts before '.': rotated segments by age, then the base file.
ListedBefore(s, t) == s # 0 /\ (t = 0 \/ s < t)

LastListed == CHOOSE t \in Segments : \A s \in Segments \ {t} : ListedBefore(s, t)

LastHash(lines) == IF lines = <<>> THEN <<>> ELSE HashOf(lines[Len(lines)])

LastTime(lines) == IF lines = <<>> THEN 0 ELSE lines[Len(lines)].ts

\* The non-empty segments that read_all() reads before segment t.
ReadBefore(t) == {s \in Segments : ListedBefore(s, t) /\ file[s] # <<>>}

Newest(S) == CHOOSE t \in S : \A s \in S \ {t} : ListedBefore(s, t)

\* The hash verify_chain() holds when it reaches line i of segment t.
HashBefore(t, i) ==
  IF i > 1 THEN HashOf(file[t][i - 1])
  ELSE IF ReadBefore(t) = {} THEN <<>> ELSE LastHash(file[Newest(ReadBefore(t))])

Linked(t, i) == file[t][i].prev = HashBefore(t, i)

\* verify_chain(): no line is reported as FAIL.
VerifyChain == \A t \in Segments : \A i \in DOMAIN file[t] : Linked(t, i)

\* Bug: the links between segments are not compared.
VerifyChainParallel_WithinSegments ==
  \A t \in Segments : \A i \in DOMAIN file[t] : i > 1 => Linked(t, i)

\* verify_chain_parallel(): the first line of the first segment is not compared
\* with anything.
VerifyChainParallel ==
  \A t \in Segments : \A i \in DOMAIN file[t] :
    (i > 1 \/ ReadBefore(t) # {}) => Linked(t, i)

\* read_by_submission_fast(): a segment whose index knows sub is read at the
\* offsets of the index and the lines found there are taken as they are; any
\* other segment is scanned.
FastReadSegment(sub, t) ==
  {file[t][p] : p \in {q \in DOMAIN file[t] :
                         IF \E offset \in idx[t] : offset[1] = sub
                           THEN <<sub, q>> \in idx[t]
                           ELSE file[t][q].sub = sub}}

FastRead(sub) == UNION {FastReadSegment(sub, t) : t \in Segments}

-----------------------------------------------------------------------------
(* The state of a client.                                                   *)

\* pc: "down" no object; "idle" between calls; "flush" flush() entered;
\* "append" in its loop; "final" in __del__, after its flush.
Client ==
  [pc : {"down", "idle", "flush", "append", "final"}, closing : BOOLEAN,
   buf : Seq(Entry), k : Nat, pend : Seq(Line), seg : Segments,
   last : Hashes, lastTs : Nat, bytes : Nat, count : Nat,
   offs : SUBSET (Subs \X Nat), flushedAt : Nat]

NoClient ==
  [pc |-> "down", closing |-> FALSE, buf |-> <<>>, k |-> 0, pend |-> <<>>,
   seg |-> 0, last |-> <<>>, lastTs |-> 0, bytes |-> 0, count |-> 0,
   offs |-> {}, flushedAt |-> 0]

\* Bug: the chain head is not read back from the disk.
Opened_HeadForgotten ==
  [NoClient EXCEPT !.pc = "idle", !.seg = LastListed, !.bytes = Len(file[LastListed]),
                   !.lastTs = LastTime(file[LastListed]), !.flushedAt = now]

\* __init__ and _init_state: the cached chain head is that of the last segment
\* listed; count and offsets start from nothing, whatever the segment holds.
Opened ==
  LET lines == file[LastListed]
  IN  [NoClient EXCEPT !.pc = "idle", !.seg = LastListed,
                       !.last = LastHash(lines), !.lastTs = LastTime(lines),
                       !.bytes = Len(lines), !.flushedAt = now]

Day(t) == t \div DayLength

NeedsRotation(c) ==
  \/ RotateBytes > 0 /\ client[c].bytes >= RotateBytes
  \/ RotateDaily /\ client[c].lastTs > 0 /\ Day(now) > Day(client[c].lastTs)

\* The line flush() builds for the next entry of the buffer.
NextLine(c) ==
  LET e == client[c].buf[client[c].k + 1]
  IN  [id |-> e.id, sub |-> e.sub, ts |-> e.ts, prev |-> client[c].last]

\* Bug: the handle is dropped with its pending line.
Landed_PendingLost(c) == file[client[c].seg]

\* The segment file once the handle's pending line has reached the disk.
Landed(c) == file[client[c].seg] \o client[c].pend

\* Bug: the position is taken before the pending line has landed.
Offset_BeforeFlush(c) == Len(file[client[c].seg]) + 1

\* The position tell() yields for the next line.
Offset(c) == Len(Landed(c)) + 1

\* Bug: flush() forgets to clear the buffer.
AfterFlush_BufferKept(c) ==
  [client[c] EXCEPT !.pc = IF client[c].closing THEN "final" ELSE "idle",
                    !.k = 0, !.pend = <<>>, !.flushedAt = now]

\* The client when flush() returns.
AfterFlush(c) ==
  [client[c] EXCEPT !.pc = IF client[c].closing THEN "final" ELSE "idle",
                    !.buf = <<>>, !.k = 0, !.pend = <<>>, !.flushedAt = now]

\* Bug: the next flush goes on where the failed one stopped.
AfterFailure_LoopKept(c) ==
  IF client[c].closing THEN NoClient
  ELSE [client[c] EXCEPT !.pc = "idle", !.pend = <<>>]

\* The client when flush() has raised.
AfterFailure(c) ==
  IF client[c].closing THEN NoClient
  ELSE [client[c] EXCEPT !.pc = "idle", !.k = 0, !.pend = <<>>]

\* What a failed flush may leave of the segment: its lines so far, with or
\* without the pending one.
Remains(c) == {file[client[c].seg], Landed(c)}

Ids(lines) == {lines[i].id : i \in DOMAIN lines}

-----------------------------------------------------------------------------
(* The calls of LedgerClient.                                               *)

Init ==
  /\ file = [t \in Segments |-> <<>>]
  /\ idx = [t \in Segments |-> {}]
  /\ meta = {}
  /\ client = [c \in Clients |-> NoClient]
  /\ now = 1
  /\ created = 0
  /\ acked = {}
  /\ errors = 0
  /\ disturbed = FALSE

\* LedgerClient(path)
Open(c) ==
  /\ client[c].pc = "down"
  /\ disturbed' = (disturbed \/ \E d \in Clients : client[d].pc # "down")
  /\ client' = [client EXCEPT ![c] = Opened]
  /\ UNCHANGED <<file, idx, meta, now, created, acked, errors>>

\* write(entry) up to the decision to flush; with the batch full, or the
\* interval over, the same call goes on into flush().
Write(c, sub) ==
  LET buf == Append(client[c].buf, [id |-> created + 1, sub |-> sub, ts |-> now])
      full == \/ Len(buf) >= BatchSize
              \/ BatchInterval > 0 /\ now - client[c].flushedAt >= BatchInterval
  IN  /\ client[c].pc = "idle"
      /\ created < MaxEntries
      /\ created' = created + 1
      /\ client' = [client EXCEPT ![c].buf = buf,
                                  ![c].pc = IF full THEN "flush" ELSE "idle"]
      /\ UNCHANGED <<file, idx, meta, now, acked, errors, disturbed>>

\* flush() called from outside; it returns at once when the buffer is empty.
Flush(c) ==
  /\ client[c].pc = "idle"
  /\ client[c].buf # <<>>
  /\ client' = [client EXCEPT ![c].pc = "flush"]
  /\ UNCHANGED <<file, idx, meta, now, created, acked, errors, disturbed>>

\* _start_new_segment(): the index of the segment left behind replaces any
\* index that it had; touch() leaves a file of the same name as it is.
StartNewSegment(c) ==
  /\ IF client[c].count > 0
       THEN /\ meta' = meta \union {client[c].seg}
            /\ idx' = [idx EXCEPT ![client[c].seg] = client[c].offs]
       ELSE UNCHANGED <<meta, idx>>
  /\ client' = [client EXCEPT ![c].pc = "append", ![c].seg = now, ![c].count = 0,
                              ![c].bytes = 0, ![c].offs = {}]
  /\ UNCHANGED file

\* flush(): rotate if needed, then open the segment for appending.
StartFlush(c) ==
  /\ client[c].pc = "flush"
  /\ IF NeedsRotation(c)
       THEN StartNewSegment(c)
       ELSE /\ client' = [client EXCEPT ![c].pc = "append"]
            /\ UNCHANGED <<file, idx, meta>>
  /\ disturbed' = (disturbed \/ NeedsRotation(c))
  /\ UNCHANGED <<now, created, acked, errors>>

\* One turn of flush()'s loop: tell() pushes the pending line to the disk and
\* yields the offset, the next line is handed to the handle, the cache moves on.
AppendNext(c) ==
  LET line == NextLine(c)
  IN  /\ client[c].pc = "append"
      /\ client[c].k < Len(client[c].buf)
      /\ file' = [file EXCEPT ![client[c].seg] = Landed(c)]
      /\ client' = [client EXCEPT
           ![c].k = @ + 1, ![c].pend = <<line>>, ![c].last = HashOf(line),
           ![c].lastTs = line.ts, ![c].bytes = @ + 1, ![c].count = @ + 1,
           ![c].offs = @ \union {<<line.sub, Offset(c)>>}]
      /\ UNCHANGED <<idx, meta, now, created, acked, errors, disturbed>>

\* The handle is closed, the buffer cleared, flush() returns.
FinishFlush(c) ==
  /\ client[c].pc = "append"
  /\ client[c].k = Len(client[c].buf)
  /\ file' = [file EXCEPT ![client[c].seg] = Landed(c)]
  /\ acked' = acked \union Ids(client[c].buf)
  /\ client' = [client EXCEPT ![c] = AfterFlush(c)]
  /\ UNCHANGED <<idx, meta, now, created, errors, disturbed>>

\* The disk refuses the open, a tell() or the close: the exception leaves the
\* buffer whole and the cached head where the loop had moved it.  The pending
\* line is lost, unless the close() on the way out writes it after all.
\* __del__ swallows the exception and the object is gone.
FlushFails(c) ==
  /\ client[c].pc = "append"
  /\ errors < MaxErrors
  /\ errors' = errors + 1
  /\ disturbed' = TRUE
  /\ \E lines \in Remains(c) : file' = [file EXCEPT ![client[c].seg] = lines]
  /\ client' = [client EXCEPT ![c] = AfterFailure(c)]
  /\ UNCHANGED <<idx, meta, now, created, acked>>

\* __del__: flush, then describe the active segment.
Close(c) ==
  /\ client[c].pc = "idle"
  /\ client' = [client EXCEPT
       ![c].closing = TRUE,
       ![c].pc = IF client[c].buf = <<>> THEN "final" ELSE "flush"]
  /\ UNCHANGED <<file, idx, meta, now, created, acked, errors, disturbed>>

\* The rest of __del__: metadata and index, unless the segment is recorded.
Finalise(c) ==
  /\ client[c].pc = "final"
  /\ IF client[c].count > 0 /\ client[c].seg \notin meta
       THEN /\ meta' = meta \union {client[c].seg}
            /\ idx' = [idx EXCEPT ![client[c].seg] = client[c].offs]
       ELSE UNCHANGED <<meta, idx>>
  /\ client' = [client EXCEPT ![c] = NoClient]
  /\ UNCHANGED <<file, now, created, acked, errors, disturbed>>

\* The process dies: buffer and pending line are lost, nothing is finalised.
Crash(c) ==
  /\ client[c].pc # "down"
  /\ client' = [client EXCEPT ![c] = NoClient]
  /\ UNCHANGED <<file, idx, meta, now, created, acked, errors, disturbed>>

Tick ==
  /\ now < MaxNow
  /\ now' = now + 1
  /\ UNCHANGED <<file, idx, meta, client, created, acked, errors, disturbed>>

Internal(c) ==
  StartFlush(c) \/ AppendNext(c) \/ FinishFlush(c) \/ Finalise(c)

Next ==
  \/ \E c \in Clients : \/ Open(c)
                        \/ \E sub \in Subs : Write(c, sub)
                        \/ Flush(c)
                        \/ Internal(c)
                        \/ FlushFails(c)
                        \/ Close(c)
                        \/ Crash(c)
  \/ Tick

Spec == Init /\ [][Next]_vars

-----------------------------------------------------------------------------
(* Properties.                                                              *)

FlushOK(r, n) ==
  /\ r.k \in 0..Len(r.buf)
  /\ r.k > 0 => r.pc = "append"
  /\ r.pend # <<>> <=> r.k > 0
  /\ r.pc = "flush" => r.buf # <<>>
  /\ \A i \in DOMAIN r.buf : r.buf[i].id \in 1..n

\* Types, and how the parts of a flush fit together: the loop counter stays
\* inside the buffer, a line is pending only inside the loop, and only entries
\* that exist are buffered or acknowledged.
TypeOK ==
  /\ file \in [Segments -> Seq(Line)]
  /\ idx \in [Segments -> SUBSET (Subs \X Nat)]
  /\ meta \subseteq Segments
  /\ client \in [Clients -> Client]
  /\ now \in 1..MaxNow
  /\ created \in 0..MaxEntries
  /\ acked \subseteq 1..created
  /\ errors \in 0..MaxErrors
  /\ disturbed \in BOOLEAN
  /\ \A c \in Clients : FlushOK(client[c], created)

\* "is_valid: True if no FAIL issues; FAIL (tampered)": nobody tampers with the
\* files here, so verify_chain() must find every link intact in every state,
\* whatever was batched, closed or lost in a crash before, as long as clients
\* take turns, no segment is rotated and no flush fails.
ChainIntact == ~disturbed => VerifyChain

\* The segment-parallel verifier gives the verdict of the sequential one, with
\* several clients and rotations too, as long as no flush fails.
VerifiersAgree == errors = 0 => (VerifyChain <=> VerifyChainParallel)

OnDisk(id) == \E t \in Segments : id \in Ids(file[t])

\* An entry whose flush() has returned is in some segment file, whatever other
\* clients, rotations, failed flushes and crashes did since.
AckedDurable == \A id \in acked : OnDisk(id)

\* An entry is written twice only after a flush that failed.
TwiceOnlyAfterError ==
  \/ errors > 0
  \/ \A s, t \in Segments : \A i \in DOMAIN file[s], j \in DOMAIN file[t] :
       file[s][i].id = file[t][j].id => s = t /\ i = j

\* The offsets of the index lead to lines of the submission asked for, although
\* the fast read does not look at the submission of what it finds there.
FastReadSound ==
  ~disturbed => \A sub \in Subs : \A line \in FastRead(sub) : line.sub = sub

Extends(old, new) ==
  /\ Len(old) <= Len(new)
  /\ \A i \in 1..Len(old) : new[i] = old[i]

\* No step removes or rewrites a line that is on disk, not even a rotation into
\* a segment file that another rotation of the same second has created.
AppendOnly == [][\A t \in Segments : Extends(file[t], file'[t])]_vars

=============================================================================
