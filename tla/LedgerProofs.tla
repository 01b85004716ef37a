---------------------------- MODULE LedgerProofs ----------------------------
(***************************************************************************)
(* What is proved of Ledger for every number of clients, entries and       *)
(* seconds.                                                                *)
(***************************************************************************)
EXTENDS Ledger, WellFoundedInduction, TLAPS

USE LedgerAssumption

-----------------------------------------------------------------------------
(* Types.                                                                   *)

LEMMA HashType == ASSUME NEW line \in Line PROVE HashOf(line) \in Hashes
BY DEF HashOf, Line, Hashes

\* The base file is the last segment that _list_segments() lists.
LEMMA BaseIsLast == LastListed = 0
BY DEF LastListed, ListedBefore, Segments

LEMMA LastHashType ==
  ASSUME NEW lines \in Seq(Line) PROVE LastHash(lines) \in Hashes
<1>1. CASE lines = <<>>
  BY <1>1 DEF LastHash, Hashes
<1>2. CASE lines # <<>>
  <2>1. lines[Len(lines)] \in Line
    BY <1>2
  <2>. QED BY <1>2, <2>1, HashType DEF LastHash
<1>. QED BY <1>1, <1>2

LEMMA LastTimeType ==
  ASSUME NEW lines \in Seq(Line) PROVE LastTime(lines) \in Nat
<1>1. CASE lines = <<>>
  BY <1>1 DEF LastTime
<1>2. CASE lines # <<>>
  <2>1. lines[Len(lines)] \in Line
    BY <1>2
  <2>. QED BY <1>2, <2>1 DEF LastTime, Line
<1>. QED BY <1>1, <1>2

LEMMA NoClientType == NoClient \in Client
BY DEF NoClient, Client, Segments, Hashes

LEMMA OpenedType ==
  ASSUME TypeOK PROVE Opened \in Client
<1>1. file[0] \in Seq(Line)
  BY DEF TypeOK, Segments
<1>2. LastHash(file[0]) \in Hashes /\ LastTime(file[0]) \in Nat
  BY <1>1, LastHashType, LastTimeType
<1>3. Len(file[0]) \in Nat /\ now \in Nat /\ 0 \in Segments
  BY <1>1 DEF TypeOK, Segments
<1>. QED BY ZenonT(30), <1>2, <1>3, BaseIsLast, NoClientType DEF Opened, NoClient, Client

\* What flush() builds and what has landed are well typed.
LEMMA LineType ==
  ASSUME TypeOK, NEW c \in Clients, client[c].k < Len(client[c].buf)
  PROVE  NextLine(c) \in Line
<1>1. client[c] \in Client
  BY DEF TypeOK
<1>2. client[c].buf \in Seq(Entry) /\ client[c].k \in Nat /\ client[c].last \in Hashes
  BY <1>1 DEF Client
<1>3. client[c].buf[client[c].k + 1] \in Entry
  BY <1>2
<1>. QED BY <1>2, <1>3 DEF NextLine, Line, Entry

LEMMA LandedType ==
  ASSUME TypeOK, NEW c \in Clients
  PROVE  /\ client[c].seg \in Segments
         /\ Landed(c) \in Seq(Line)
<1>1. client[c] \in Client
  BY DEF TypeOK
<1>2. client[c].seg \in Segments /\ client[c].pend \in Seq(Line)
  BY <1>1 DEF Client
<1>3. file[client[c].seg] \in Seq(Line)
  BY <1>2 DEF TypeOK
<1>. QED BY <1>2, <1>3 DEF Landed

LEMMA Fields ==
  ASSUME TypeOK, NEW c \in Clients
  PROVE  LET r == client[c]
         IN  /\ r \in Client
             /\ r.pc \in {"down", "idle", "flush", "append", "final"}
             /\ r.closing \in BOOLEAN
             /\ r.buf \in Seq(Entry) /\ Len(r.buf) \in Nat
             /\ r.k \in 0..Len(r.buf)
             /\ r.pend \in Seq(Line)
             /\ r.seg \in Segments
             /\ r.last \in Hashes
             /\ r.lastTs \in Nat /\ r.bytes \in Nat /\ r.count \in Nat /\ r.flushedAt \in Nat
             /\ r.offs \in SUBSET (Subs \X Nat)
             /\ r.k > 0 => r.pc = "append"
             /\ r.pend # <<>> <=> r.k > 0
             /\ r.pc = "flush" => r.buf # <<>>
             /\ \A i \in DOMAIN r.buf : r.buf[i].id \in 1..created
<1>1. client[c] \in Client /\ FlushOK(client[c], created)
  BY DEF TypeOK
<1>. QED BY <1>1 DEF Client, FlushOK

\* Entries created later do not disturb a client.
LEMMA FlushMonotone ==
  ASSUME TypeOK, NEW d \in Clients
  PROVE  FlushOK(client[d], created + 1)
<1>1. created \in Nat /\ FlushOK(client[d], created)
  BY DEF TypeOK
<1>2. \A i \in DOMAIN client[d].buf : client[d].buf[i].id \in 1..(created + 1)
  BY <1>1 DEF FlushOK
<1>. QED BY <1>1, <1>2 DEF FlushOK

\* A step that replaces the record of one client by a well-formed one keeps
\* the client part of TypeOK.
LEMMA ClientStep ==
  ASSUME TypeOK, NEW c \in Clients, NEW r \in Client, FlushOK(r, created),
         client' = [client EXCEPT ![c] = r]
  PROVE  /\ client' \in [Clients -> Client]
         /\ \A d \in Clients : FlushOK(client'[d], created)
<1>1. client \in [Clients -> Client] /\ \A d \in Clients : FlushOK(client[d], created)
  BY DEF TypeOK
<1>2. client' \in [Clients -> Client]
  BY <1>1
<1>3. \A d \in Clients : client'[d] = IF d = c THEN r ELSE client[d]
  BY <1>1
<1>. QED BY <1>1, <1>2, <1>3

LEMMA EmptySeqs == <<>> \in Seq(Line) /\ <<>> \in Seq(Entry)
OBVIOUS

LEMMA TypeInit == Init => TypeOK
<1>1. NoClient \in Client
  BY NoClientType
<1>. QED BY <1>1, SMTT(30) DEF Init, TypeOK, FlushOK, NoClient, Segments

LEMMA NoClientFlush == ASSUME NEW n \in Nat PROVE FlushOK(NoClient, n)
BY DEF NoClient, FlushOK

LEMMA TypeNext == TypeOK /\ [Next]_vars => TypeOK'
<1>. SUFFICES ASSUME TypeOK, [Next]_vars PROVE TypeOK'
  OBVIOUS
<1>0. /\ file \in [Segments -> Seq(Line)]
      /\ idx \in [Segments -> SUBSET (Subs \X Nat)]
      /\ meta \subseteq Segments
      /\ client \in [Clients -> Client]
      /\ now \in 1..MaxNow /\ now \in Nat /\ now \in Segments
      /\ created \in 0..MaxEntries /\ created \in Nat
      /\ acked \subseteq 1..created
      /\ errors \in 0..MaxErrors
      /\ disturbed \in BOOLEAN
  BY DEF TypeOK, Segments
<1>1. ASSUME NEW c \in Clients, Open(c) PROVE TypeOK'
  <2>1. Opened \in Client
    BY OpenedType
  <2>2. FlushOK(Opened, created)
    <3>1. Opened.k = 0 /\ Opened.buf = <<>> /\ Opened.pend = <<>> /\ Opened.pc = "idle"
      BY DEF Opened, NoClient
    <3>. QED BY <3>1 DEF FlushOK
  <2>3. client' = [client EXCEPT ![c] = Opened]
    BY <1>1 DEF Open
  <2>4. client' \in [Clients -> Client] /\ \A d \in Clients : FlushOK(client'[d], created)
    BY <2>1, <2>2, <2>3, ClientStep
  <2>. QED BY <1>0, <1>1, <2>4 DEF Open, TypeOK
<1>2. ASSUME NEW c \in Clients, NEW sub \in Subs, Write(c, sub) PROVE TypeOK'
  <2>. DEFINE e == [id |-> created + 1, sub |-> sub, ts |-> now]
              buf == Append(client[c].buf, e)
  <2>1. PICK next \in {"flush", "idle"} :
          client' = [client EXCEPT ![c] = [client[c] EXCEPT !.buf = buf, !.pc = next]]
    BY <1>0, <1>2 DEF Write
  <2>. DEFINE r == [client[c] EXCEPT !.buf = buf, !.pc = next]
  <2>2. client[c].pc = "idle"
    BY <1>2 DEF Write
  <2>3. /\ client[c] \in Client /\ client[c].buf \in Seq(Entry)
        /\ client[c].k = 0 /\ client[c].pend = <<>>
        /\ \A i \in DOMAIN client[c].buf : client[c].buf[i].id \in 1..created
    BY <2>2, Fields
  <2>4. e \in Entry /\ e.id = created + 1
    BY <1>0 DEF Entry
  <2>. HIDE DEF e
  <2>5. /\ buf \in Seq(Entry) /\ Len(buf) = Len(client[c].buf) + 1 /\ buf # <<>>
        /\ \A i \in 1..Len(client[c].buf) : buf[i] = client[c].buf[i]
        /\ buf[Len(client[c].buf) + 1] = e
    BY <2>3, <2>4
  <2>6. Len(client[c].buf) \in Nat
    BY <2>3
  <2>. HIDE DEF buf
  <2>7. r \in Client
    BY <2>3, <2>5 DEF Client
  <2>8. r.k = 0 /\ r.pend = <<>> /\ r.buf = buf /\ r.pc = next
    BY <2>3 DEF Client
  <2>9. \A i \in DOMAIN buf : buf[i].id \in 1..(created + 1)
    <3>1. \A i \in 1..Len(client[c].buf) : client[c].buf[i].id \in 1..(created + 1)
      BY <1>0, <2>3, <2>6
    <3>2. e.id \in 1..(created + 1)
      BY <1>0, <2>4
    <3>3. DOMAIN buf = 1..(Len(client[c].buf) + 1)
      BY <2>5
    <3>. QED BY SMTT(30), <2>5, <2>6, <3>1, <3>2, <3>3
  <2>. HIDE DEF r
  <2>10. FlushOK(r, created + 1)
    BY <2>5, <2>6, <2>8, <2>9 DEF FlushOK
  <2>11. client' = [client EXCEPT ![c] = r]
    BY <2>1 DEF r
  <2>12. /\ client' \in [Clients -> Client]
         /\ \A d \in Clients : FlushOK(client'[d], created + 1)
    <3>1. client' \in [Clients -> Client]
      BY <1>0, <2>7, <2>11
    <3>2. \A d \in Clients : client'[d] = IF d = c THEN r ELSE client[d]
      BY <1>0, <2>11
    <3>. QED BY <2>10, <3>1, <3>2, FlushMonotone
  <2>13. created' = created + 1 /\ created' \in 0..MaxEntries /\ acked' \subseteq 1..created'
    BY <1>0, <1>2 DEF Write
  <2>. QED BY <1>0, <1>2, <2>12, <2>13 DEF Write, TypeOK
<1>3. ASSUME NEW c \in Clients, Flush(c) PROVE TypeOK'
  <2>. DEFINE r == [client[c] EXCEPT !.pc = "flush"]
  <2>1. client[c].pc = "idle" /\ client[c].buf # <<>>
    BY <1>3 DEF Flush
  <2>2. r \in Client /\ FlushOK(r, created)
    BY ZenonT(30), <2>1, Fields DEF Client, FlushOK
  <2>3. client' = [client EXCEPT ![c] = r]
    BY <1>0, <1>3 DEF Flush
  <2>. HIDE DEF r
  <2>4. client' \in [Clients -> Client] /\ \A d \in Clients : FlushOK(client'[d], created)
    BY <2>2, <2>3, ClientStep
  <2>. QED BY <1>0, <1>3, <2>4 DEF Flush, TypeOK
<1>4. ASSUME NEW c \in Clients, StartFlush(c) PROVE TypeOK'
  <2>1. client[c].pc = "flush"
    BY <1>4 DEF StartFlush
  <2>. DEFINE plain == [client[c] EXCEPT !.pc = "append"]
              fresh == [client[c] EXCEPT !.pc = "append", !.seg = now, !.count = 0,
                                         !.bytes = 0, !.offs = {}]
  <2>2. plain \in Client /\ FlushOK(plain, created)
    BY ZenonT(30), <2>1, Fields DEF Client, FlushOK
  <2>3. fresh \in Client /\ FlushOK(fresh, created)
    <3>1. client[c] \in Client /\ now \in Segments /\ FlushOK(client[c], created)
      BY <1>0 DEF TypeOK
    <3>2. fresh \in Client
      BY <3>1 DEF Client
    <3>3. /\ fresh.k = client[c].k /\ fresh.buf = client[c].buf
          /\ fresh.pend = client[c].pend /\ fresh.pc = "append"
      BY <3>1 DEF Client
    <3>4. client[c].k = 0
      BY <2>1, <3>1 DEF FlushOK
    <3>. HIDE DEF fresh
    <3>5. FlushOK(fresh, created)
      BY <3>1, <3>3, <3>4 DEF FlushOK
    <3>. QED BY <3>2, <3>5
  <2>4. \/ client' = [client EXCEPT ![c] = plain]
        \/ client' = [client EXCEPT ![c] = fresh]
    BY <1>0, <1>4 DEF StartFlush, StartNewSegment
  <2>. HIDE DEF plain, fresh
  <2>5. client' \in [Clients -> Client] /\ \A d \in Clients : FlushOK(client'[d], created)
    BY <2>2, <2>3, <2>4, ClientStep
  <2>6. client[c].seg \in Segments /\ client[c].offs \in SUBSET (Subs \X Nat)
    BY Fields
  <2>7. /\ meta' \subseteq Segments
        /\ idx' \in [Segments -> SUBSET (Subs \X Nat)]
        /\ file' = file
    <3>1. CASE NeedsRotation(c)
      <4>1. StartNewSegment(c)
        BY <1>4, <3>1 DEF StartFlush
      <4>2. CASE client[c].count > 0
        BY <1>0, <2>6, <4>1, <4>2 DEF StartNewSegment
      <4>3. CASE ~(client[c].count > 0)
        BY <1>0, <4>1, <4>3 DEF StartNewSegment
      <4>. QED BY <4>2, <4>3
    <3>2. CASE ~NeedsRotation(c)
      BY <1>0, <1>4, <3>2 DEF StartFlush
    <3>. QED BY <3>1, <3>2
  <2>. QED BY <1>0, <1>4, <2>5, <2>7 DEF StartFlush, TypeOK
<1>5. ASSUME NEW c \in Clients, AppendNext(c) PROVE TypeOK'
  <2>. DEFINE line == NextLine(c)
              offs == client[c].offs \union {<<line.sub, Len(Landed(c)) + 1>>}
              r == [client[c] EXCEPT
                      !.k = @ + 1, !.pend = <<line>>, !.last = HashOf(line),
                      !.lastTs = line.ts, !.bytes = @ + 1, !.count = @ + 1,
                      !.offs = offs]
  <2>0. client[c].pc = "append" /\ client[c].k < Len(client[c].buf)
    BY <1>5 DEF AppendNext, Offset
  <2>1. line \in Line /\ HashOf(line) \in Hashes
    BY <2>0, LineType, HashType
  <2>2. client[c].seg \in Segments /\ Landed(c) \in Seq(Line)
    BY LandedType
  <2>3. file' \in [Segments -> Seq(Line)]
    BY <1>0, <1>5, <2>2 DEF AppendNext, Offset
  <2>4. client' = [client EXCEPT ![c] = r]
    BY <1>0, <1>5 DEF AppendNext, Offset
  <2>5. line.sub \in Subs /\ line.ts \in Nat /\ Len(Landed(c)) + 1 \in Nat
    BY <2>1, <2>2 DEF Line
  <2>6. <<line>> \in Seq(Line) /\ <<line>> # <<>>
    BY <2>1
  <2>. HIDE DEF line
  <2>7. offs \in SUBSET (Subs \X Nat)
    BY <2>5, Fields
  <2>. HIDE DEF offs
  <2>8. r \in Client
    <3>1. client[c].k + 1 \in Nat /\ client[c].bytes + 1 \in Nat /\ client[c].count + 1 \in Nat
      BY Fields
    <3>. QED BY ZenonT(30), <2>1, <2>5, <2>6, <2>7, <3>1, Fields DEF Client
  <2>9. FlushOK(r, created)
    BY SMTT(60), <2>0, <2>6, Fields DEF FlushOK, Client
  <2>. HIDE DEF r
  <2>10. client' \in [Clients -> Client] /\ \A d \in Clients : FlushOK(client'[d], created)
    BY <2>4, <2>8, <2>9, ClientStep
  <2>. QED BY <1>0, <1>5, <2>3, <2>10 DEF AppendNext, Offset, TypeOK
<1>6. ASSUME NEW c \in Clients, FinishFlush(c) PROVE TypeOK'
  <2>. DEFINE r == [client[c] EXCEPT
                      !.pc = IF client[c].closing THEN "final" ELSE "idle",
                      !.buf = <<>>, !.k = 0, !.pend = <<>>, !.flushedAt = now]
  <2>1. client[c].seg \in Segments /\ Landed(c) \in Seq(Line)
    BY LandedType
  <2>2. file' \in [Segments -> Seq(Line)]
    BY <1>0, <1>6, <2>1 DEF FinishFlush
  <2>3. r \in Client
    <3>. DEFINE done(p) == [client[c] EXCEPT !.pc = p, !.buf = <<>>, !.k = 0, !.pend = <<>>,
                                             !.flushedAt = now]
    <3>0. client[c] \in Client /\ now \in Nat
      BY <1>0, Fields
    <3>1. done("final") \in Client /\ done("idle") \in Client
      <4>1. done("final") \in Client
        BY <3>0, EmptySeqs DEF Client
      <4>2. done("idle") \in Client
        BY <3>0, EmptySeqs DEF Client
      <4>. QED BY <4>1, <4>2
    <3>2. r = done("final") \/ r = done("idle")
      OBVIOUS
    <3>. QED BY <3>1, <3>2
  <2>4. FlushOK(r, created)
    BY Fields DEF FlushOK, Client
  <2>5. client' = [client EXCEPT ![c] = r]
    BY <1>0, <1>6 DEF FinishFlush, AfterFlush
  <2>. HIDE DEF r
  <2>6. client' \in [Clients -> Client] /\ \A d \in Clients : FlushOK(client'[d], created)
    BY <2>3, <2>4, <2>5, ClientStep
  <2>7. acked' \subseteq 1..created
    BY <1>0, <1>6, Fields DEF FinishFlush, Ids
  <2>. QED BY <1>0, <1>6, <2>2, <2>6, <2>7 DEF FinishFlush, TypeOK
<1>7. ASSUME NEW c \in Clients, FlushFails(c) PROVE TypeOK'
  <2>. DEFINE kept == [client[c] EXCEPT !.pc = "idle", !.k = 0, !.pend = <<>>]
  <2>1. client[c].seg \in Segments /\ Landed(c) \in Seq(Line)
    BY LandedType
  <2>2. file' \in [Segments -> Seq(Line)]
    BY <1>0, <1>7, <2>1 DEF FlushFails, Remains, TypeOK
  <2>3. kept \in Client
    BY ZenonT(30), EmptySeqs, Fields DEF Client
  <2>4. FlushOK(kept, created)
    BY Fields DEF FlushOK, Client
  <2>5. \/ client' = [client EXCEPT ![c] = NoClient]
        \/ client' = [client EXCEPT ![c] = kept]
    BY <1>0, <1>7 DEF FlushFails, AfterFailure
  <2>. HIDE DEF kept
  <2>6. client' \in [Clients -> Client] /\ \A d \in Clients : FlushOK(client'[d], created)
    BY <2>3, <2>4, <2>5, <1>0, NoClientType, NoClientFlush, ClientStep
  <2>. QED BY <1>0, <1>7, <2>2, <2>6 DEF FlushFails, TypeOK
<1>8. ASSUME NEW c \in Clients, Close(c) PROVE TypeOK'
  <2>. DEFINE r == [client[c] EXCEPT !.closing = TRUE,
                      !.pc = IF client[c].buf = <<>> THEN "final" ELSE "flush"]
  <2>1. client[c].pc = "idle"
    BY <1>8 DEF Close
  <2>2. r \in Client
    BY ZenonT(30), Fields DEF Client
  <2>3. FlushOK(r, created)
    BY <2>1, Fields DEF FlushOK, Client
  <2>4. client' = [client EXCEPT ![c] = r]
    BY <1>0, <1>8 DEF Close
  <2>. HIDE DEF r
  <2>5. client' \in [Clients -> Client] /\ \A d \in Clients : FlushOK(client'[d], created)
    BY <2>2, <2>3, <2>4, ClientStep
  <2>. QED BY <1>0, <1>8, <2>5 DEF Close, TypeOK
<1>9. ASSUME NEW c \in Clients, Finalise(c) PROVE TypeOK'
  <2>1. client' = [client EXCEPT ![c] = NoClient]
    BY <1>9 DEF Finalise
  <2>2. client' \in [Clients -> Client] /\ \A d \in Clients : FlushOK(client'[d], created)
    BY <2>1, <1>0, NoClientType, NoClientFlush, ClientStep
  <2>3. client[c].seg \in Segments /\ client[c].offs \in SUBSET (Subs \X Nat)
    BY Fields
  <2>4. meta' \subseteq Segments /\ idx' \in [Segments -> SUBSET (Subs \X Nat)]
    BY <1>0, <1>9, <2>3 DEF Finalise
  <2>. QED BY <1>0, <1>9, <2>2, <2>4 DEF Finalise, TypeOK
<1>10. ASSUME NEW c \in Clients, Crash(c) PROVE TypeOK'
  <2>1. client' = [client EXCEPT ![c] = NoClient]
    BY <1>10 DEF Crash
  <2>2. client' \in [Clients -> Client] /\ \A d \in Clients : FlushOK(client'[d], created)
    BY <2>1, <1>0, NoClientType, NoClientFlush, ClientStep
  <2>. QED BY <1>0, <1>10, <2>2 DEF Crash, TypeOK
<1>11. CASE Tick
  <2>1. now' \in 1..MaxNow
    BY <1>0, <1>11 DEF Tick
  <2>. QED BY <1>0, <1>11, <2>1 DEF Tick, TypeOK
<1>12. CASE UNCHANGED vars
  BY <1>12 DEF vars, TypeOK
<1>. QED
  BY <1>1, <1>2, <1>3, <1>4, <1>5, <1>6, <1>7, <1>8, <1>9, <1>10, <1>11, <1>12
     DEF Next, Internal

\* Type correctness, with any clients, batches, rotations, errors and crashes.
THEOREM TypeCorrect == Spec => []TypeOK
BY TypeInit, TypeNext, PTL DEF Spec

-----------------------------------------------------------------------------
(* The segment files only grow.                                             *)

LEMMA ConcatExtends ==
  ASSUME NEW s \in Seq(Line), NEW t \in Seq(Line)
  PROVE  Extends(s, s \o t)
BY DEF Extends

LEMMA SameExtends == ASSUME NEW s \in Seq(Line) PROVE Extends(s, s)
BY DEF Extends

\* A step leaves the files alone or lets the pending line of one client land.
LEMMA FileStep ==
  ASSUME TypeOK, [Next]_vars
  PROVE  \/ file' = file
         \/ \E c \in Clients : file' = [file EXCEPT ![client[c].seg] = Landed(c)]
<1>1. CASE UNCHANGED vars
  BY <1>1 DEF vars
<1>2. CASE Tick
  BY <1>2 DEF Tick
<1>3. ASSUME NEW c \in Clients,
             \/ Open(c) \/ (\E sub \in Subs : Write(c, sub)) \/ Flush(c)
             \/ StartFlush(c) \/ Finalise(c) \/ Close(c) \/ Crash(c)
      PROVE  file' = file
  BY <1>3 DEF Open, Write, Flush, StartFlush, StartNewSegment, Finalise, Close, Crash
<1>4. ASSUME NEW c \in Clients, AppendNext(c) \/ FinishFlush(c) \/ FlushFails(c)
      PROVE  file' = file \/ file' = [file EXCEPT ![client[c].seg] = Landed(c)]
  BY <1>4 DEF AppendNext, FinishFlush, FlushFails, Remains, TypeOK
<1>. QED
  BY <1>1, <1>2, <1>3, <1>4 DEF Next, Internal

LEMMA FilesExtend ==
  ASSUME TypeOK, [Next]_vars, NEW t \in Segments
  PROVE  Extends(file[t], file'[t])
<1>1. file \in [Segments -> Seq(Line)] /\ file[t] \in Seq(Line)
  BY DEF TypeOK
<1>2. CASE file' = file
  BY <1>1, <1>2, SameExtends
<1>3. ASSUME NEW c \in Clients, file' = [file EXCEPT ![client[c].seg] = Landed(c)]
      PROVE  Extends(file[t], file'[t])
  <2>1. client[c].pend \in Seq(Line)
    BY Fields
  <2>2. CASE t = client[c].seg
    <3>1. file'[t] = file[t] \o client[c].pend
      BY <1>1, <1>3, <2>2 DEF Landed
    <3>. QED BY <1>1, <2>1, <3>1, ConcatExtends
  <2>3. CASE t # client[c].seg
    BY <1>1, <1>3, <2>3, SameExtends
  <2>. QED BY <2>2, <2>3
<1>. QED BY <1>2, <1>3, FileStep

\* No line on disk is ever removed or rewritten, whoever flushes, rotates, fails
\* or crashes.
THEOREM FilesAreAppendOnly == Spec => AppendOnly
<1>1. TypeOK /\ [Next]_vars => [\A t \in Segments : Extends(file[t], file'[t])]_vars
  BY FilesExtend
<1>. QED BY <1>1, TypeCorrect, PTL DEF Spec, AppendOnly

-----------------------------------------------------------------------------
(* Acknowledged entries are durable.                                        *)

\* While a flush runs, each entry its loop has passed is on disk, except the
\* last one, which is the handle's pending line.
PassedOnDisk ==
  \A c \in Clients : \A i \in 1..client[c].k :
    \/ OnDisk(client[c].buf[i].id)
    \/ i = client[c].k /\ client[c].pend[1].id = client[c].buf[i].id

DurableInv == TypeOK /\ PassedOnDisk /\ AckedDurable

LEMMA OnDiskStays ==
  ASSUME TypeOK, [Next]_vars, NEW id, OnDisk(id)
  PROVE  \E t \in Segments : id \in Ids(file'[t])
<1>1. PICK t \in Segments : \E i \in DOMAIN file[t] : file[t][i].id = id
  BY DEF OnDisk, Ids
<1>2. PICK i \in DOMAIN file[t] : file[t][i].id = id
  BY <1>1
<1>3. file[t] \in Seq(Line) /\ file'[t] \in Seq(Line)
  BY TypeNext DEF TypeOK
<1>4. Extends(file[t], file'[t])
  BY FilesExtend
<1>5. i \in DOMAIN file'[t] /\ file'[t][i] = file[t][i]
  BY <1>2, <1>3, <1>4 DEF Extends
<1>. QED BY <1>2, <1>5 DEF Ids

\* Once the pending line has landed, every passed entry is on disk.
LEMMA AllPassedLand ==
  ASSUME TypeOK, [Next]_vars, PassedOnDisk, NEW c \in Clients,
         file' = [file EXCEPT ![client[c].seg] = Landed(c)],
         NEW i \in 1..client[c].k
  PROVE  \E t \in Segments : client[c].buf[i].id \in Ids(file'[t])
<1>1. CASE OnDisk(client[c].buf[i].id)
  BY <1>1, OnDiskStays
<1>2. CASE i = client[c].k /\ client[c].pend[1].id = client[c].buf[i].id
  <2>. DEFINE seg == client[c].seg
              old == file[seg]
              pend == client[c].pend
  <2>1. /\ seg \in Segments /\ pend \in Seq(Line) /\ pend # <<>>
        /\ file \in [Segments -> Seq(Line)]
    BY Fields DEF TypeOK
  <2>2. old \in Seq(Line)
    BY <2>1
  <2>3. file'[seg] = old \o pend
    BY <2>1 DEF Landed
  <2>. HIDE DEF old, pend
  <2>4. Len(old) + 1 \in DOMAIN (old \o pend) /\ (old \o pend)[Len(old) + 1] = pend[1]
    BY <2>1, <2>2
  <2>5. pend[1].id \in Ids(old \o pend)
    BY <2>4 DEF Ids
  <2>. QED BY <1>2, <2>1, <2>3, <2>5 DEF pend
<1>. QED BY <1>1, <1>2 DEF PassedOnDisk

\* The other clients' entries stay where they are.
LEMMA OthersStay ==
  ASSUME TypeOK, [Next]_vars, PassedOnDisk, NEW d \in Clients, client'[d] = client[d],
         NEW i \in 1..client'[d].k
  PROVE  \/ OnDisk(client[d].buf[i].id)'
         \/ i = client'[d].k /\ client'[d].pend[1].id = client'[d].buf[i].id
<1>1. CASE OnDisk(client[d].buf[i].id)
  BY <1>1, OnDiskStays DEF OnDisk
<1>2. CASE i = client[d].k /\ client[d].pend[1].id = client[d].buf[i].id
  BY <1>2
<1>. QED BY <1>1, <1>2 DEF PassedOnDisk

LEMMA PassedNext ==
  ASSUME DurableInv, [Next]_vars
  PROVE  PassedOnDisk'
<1>. USE DEF DurableInv
<1>0. TypeOK' /\ client \in [Clients -> Client]
  BY TypeNext DEF TypeOK
<1>. SUFFICES ASSUME NEW d \in Clients, NEW i \in 1..client'[d].k
              PROVE  \/ OnDisk(client[d].buf[i].id)'
                     \/ i = client'[d].k /\ client'[d].pend[1].id = client'[d].buf[i].id
  BY DEF PassedOnDisk
<1>1. CASE client'[d] = client[d]
  BY <1>1, OthersStay
<1>2. CASE AppendNext(d)
  <2>1. /\ client[d].k < Len(client[d].buf) /\ client[d].k \in Nat
        /\ client'[d].k = client[d].k + 1
        /\ client'[d].buf = client[d].buf
        /\ client'[d].pend = <<NextLine(d)>>
        /\ file' = [file EXCEPT ![client[d].seg] = Landed(d)]
    BY SMTT(30), <1>0, <1>2, Fields DEF AppendNext, Offset, Client
  <2>2. CASE i \in 1..client[d].k
    BY <2>1, <2>2, AllPassedLand DEF OnDisk
  <2>3. CASE i = client[d].k + 1
    <3>1. client'[d].pend[1].id = client[d].buf[i].id
      BY <2>1, <2>3 DEF NextLine
    <3>. QED BY <2>1, <2>3, <3>1
  <2>. QED BY <2>1, <2>2, <2>3
<1>3. CASE client'[d].k = 0
  BY <1>3
<1>4. \/ client'[d] = client[d]
      \/ AppendNext(d)
      \/ client'[d].k = 0
  <2>1. client[d].pc # "append" => client[d].k = 0
    BY Fields
  <2>2. ASSUME NEW c \in Clients, Open(c) \/ Finalise(c) \/ Crash(c)
        PROVE  client'[d] = client[d] \/ client'[d].k = 0
    <3>1. Opened.k = 0 /\ NoClient.k = 0
      BY DEF Opened, NoClient
    <3>. QED BY <1>0, <2>2, <3>1 DEF Open, Finalise, Crash
  <2>3. ASSUME NEW c \in Clients, \/ \E sub \in Subs : Write(c, sub)
                                  \/ Flush(c) \/ Close(c)
        PROVE  client'[d] = client[d] \/ client'[d].k = 0
    <3>1. client[c].pc = "idle"
      BY <2>3 DEF Write, Flush, Close
    <3>2. c # d => client'[d] = client[d]
      BY <1>0, <2>3 DEF Write, Flush, Close
    <3>3. client'[c].k = client[c].k
      <4>1. client[c] \in Client
        BY Fields
      <4>2. CASE Flush(c)
        BY <1>0, <4>1, <4>2 DEF Flush, Client
      <4>3. CASE Close(c)
        BY <1>0, <4>1, <4>3 DEF Close, Client
      <4>4. ASSUME NEW sub \in Subs, Write(c, sub)
            PROVE  client'[c].k = client[c].k
        <5>1. \E b, p : client' = [client EXCEPT ![c] = [client[c] EXCEPT !.buf = b, !.pc = p]]
          BY <1>0, <4>4 DEF Write
        <5>. QED BY <1>0, <4>1, <5>1 DEF Client
      <4>. QED BY <2>3, <4>2, <4>3, <4>4
    <3>. QED BY <2>1, <3>1, <3>2, <3>3
  <2>4. ASSUME NEW c \in Clients, StartFlush(c)
        PROVE  client'[d] = client[d] \/ client'[d].k = 0
    <3>1. client[c].pc = "flush"
      BY <2>4 DEF StartFlush
    <3>2. c # d => client'[d] = client[d]
      BY <1>0, <2>4 DEF StartFlush, StartNewSegment
    <3>3. client'[c].k = client[c].k
      <4>1. client[c] \in Client
        BY Fields
      <4>2. CASE NeedsRotation(c)
        BY <1>0, <2>4, <4>1, <4>2 DEF StartFlush, StartNewSegment, Client
      <4>3. CASE ~NeedsRotation(c)
        BY <1>0, <2>4, <4>1, <4>3 DEF StartFlush, Client
      <4>. QED BY <4>2, <4>3
    <3>. QED BY <2>1, <3>1, <3>2, <3>3
  <2>5. ASSUME NEW c \in Clients, FinishFlush(c)
        PROVE  client'[d] = client[d] \/ client'[d].k = 0
    BY <1>0, <2>5, Fields DEF FinishFlush, AfterFlush, Client
  <2>6. ASSUME NEW c \in Clients, FlushFails(c)
        PROVE  client'[d] = client[d] \/ client'[d].k = 0
    <3>1. NoClient.k = 0
      BY DEF NoClient
    <3>. QED BY <1>0, <2>6, <3>1, Fields DEF FlushFails, AfterFailure, Client
  <2>7. ASSUME NEW c \in Clients, AppendNext(c)
        PROVE  client'[d] = client[d] \/ AppendNext(d)
    BY <1>0, <2>7 DEF AppendNext, Offset
  <2>8. CASE Tick \/ UNCHANGED vars
    BY <2>8 DEF Tick, vars
  <2>. QED BY <2>2, <2>3, <2>4, <2>5, <2>6, <2>7, <2>8 DEF Next, Internal
<1>. QED BY <1>1, <1>2, <1>3, <1>4

LEMMA AckedNext ==
  ASSUME DurableInv, [Next]_vars
  PROVE  AckedDurable'
<1>. USE DEF DurableInv
<1>. SUFFICES ASSUME NEW id \in acked' PROVE \E t \in Segments : id \in Ids(file'[t])
  BY DEF AckedDurable, OnDisk
<1>1. CASE id \in acked
  BY <1>1, OnDiskStays DEF AckedDurable
<1>2. ASSUME NEW c \in Clients, FinishFlush(c), id \in Ids(client[c].buf)
      PROVE  \E t \in Segments : id \in Ids(file'[t])
  <2>1. PICK i \in DOMAIN client[c].buf : client[c].buf[i].id = id
    BY <1>2 DEF Ids
  <2>2. /\ i \in 1..client[c].k
        /\ file' = [file EXCEPT ![client[c].seg] = Landed(c)]
    BY <1>2, <2>1, Fields DEF FinishFlush
  <2>. QED BY <2>1, <2>2, AllPassedLand
<1>3. id \in acked \/ \E c \in Clients : FinishFlush(c) /\ id \in Ids(client[c].buf)
  <2>1. acked' = acked \/ \E c \in Clients : FinishFlush(c)
    <3>1. ASSUME NEW c \in Clients,
                 \/ Open(c) \/ (\E sub \in Subs : Write(c, sub)) \/ Flush(c)
                 \/ StartFlush(c) \/ AppendNext(c) \/ FlushFails(c)
                 \/ Finalise(c) \/ Close(c) \/ Crash(c)
          PROVE  acked' = acked
      BY <3>1 DEF Open, Write, Flush, StartFlush, AppendNext, FlushFails, Finalise,
                  Close, Crash
    <3>2. CASE Tick \/ UNCHANGED vars
      BY <3>2 DEF Tick, vars
    <3>. QED BY <3>1, <3>2 DEF Next, Internal
  <2>. QED BY <2>1 DEF FinishFlush
<1>. QED BY <1>1, <1>2, <1>3

\* An entry whose flush() returned stays on disk: through any interleaving of
\* clients, with rotations, failed flushes and crashes.
THEOREM AckedEntriesAreDurable == Spec => []AckedDurable
<1>1. Init => DurableInv
  <2>1. Init => PassedOnDisk
    BY DEF Init, PassedOnDisk, NoClient
  <2>2. Init => AckedDurable
    BY DEF Init, AckedDurable
  <2>. QED BY <2>1, <2>2, TypeInit DEF DurableInv
<1>2. DurableInv /\ [Next]_vars => DurableInv'
  BY TypeNext, PassedNext, AckedNext DEF DurableInv
<1>3. DurableInv => AckedDurable
  BY DEF DurableInv
<1>. QED BY <1>1, <1>2, <1>3, PTL DEF Spec

-----------------------------------------------------------------------------
(* The chain of a ledger that is written in turn, never rotated and whose   *)
(* disk does not fail.                                                      *)

\* lines is a chain on its own.
Chained(lines) ==
  \A i \in 1..Len(lines) :
    lines[i].prev = IF i > 1 THEN HashOf(lines[i - 1]) ELSE <<>>

\* The cached head is the hash of the line that will be the last one on disk
\* once the pending line has landed.
HeadOK(r) ==
  r.pc # "down" => /\ r.seg = 0
                   /\ r.last = LastHash(file[0] \o r.pend)
                   /\ Chained(file[0] \o r.pend)
                   /\ r.pend = <<>> \/ \E line \in Line : r.pend = <<line>>

OneUp ==
  \A c, d \in Clients : client[c].pc # "down" /\ client[d].pc # "down" => c = d

Plain ==
  /\ \A t \in Segments \ {0} : file[t] = <<>>
  /\ Chained(file[0])
  /\ OneUp
  /\ \A c \in Clients : HeadOK(client[c])

LEMMA ChainedAppend ==
  ASSUME NEW lines \in Seq(Line), Chained(lines),
         NEW line \in Line, line.prev = LastHash(lines)
  PROVE  /\ Chained(lines \o <<line>>)
         /\ LastHash(lines \o <<line>>) = HashOf(line)
<1>. DEFINE new == lines \o <<line>>
            n == Len(lines)
<1>1. /\ new \in Seq(Line) /\ n \in Nat /\ Len(new) = n + 1
      /\ \A i \in 1..n : new[i] = lines[i]
      /\ new[n + 1] = line
  OBVIOUS
<1>. HIDE DEF new
<1>2. LastHash(new) = HashOf(line)
  BY <1>1 DEF LastHash
<1>3. ASSUME NEW i \in 1..(n + 1)
      PROVE  new[i].prev = IF i > 1 THEN HashOf(new[i - 1]) ELSE <<>>
  <2>1. CASE i \in 1..n
    <3>1. new[i] = lines[i] /\ i \in 1..Len(lines)
      BY <1>1, <2>1
    <3>2. ASSUME i > 1
          PROVE  new[i - 1] = lines[i - 1]
      <4>1. i - 1 \in 1..n
        BY <1>1, <2>1, <3>2
      <4>. QED BY <4>1, <1>1
    <3>3. lines[i].prev = IF i > 1 THEN HashOf(lines[i - 1]) ELSE <<>>
      BY <3>1 DEF Chained
    <3>4. CASE i > 1
      BY <3>1, <3>2, <3>3, <3>4
    <3>5. CASE ~(i > 1)
      BY <3>1, <3>3, <3>5
    <3>. QED BY <3>4, <3>5
  <2>2. CASE i = n + 1 /\ n > 0
    <3>1. lines # <<>> /\ new[i - 1] = lines[n]
      BY <1>1, <2>2
    <3>. QED BY <1>1, <2>2, <3>1 DEF LastHash
  <2>3. CASE i = n + 1 /\ n = 0
    <3>1. lines = <<>>
      BY <1>1, <2>3
    <3>. QED BY <1>1, <2>3, <3>1 DEF LastHash
  <2>. QED BY <1>1, <2>1, <2>2, <2>3
<1>. QED BY <1>1, <1>2, <1>3 DEF Chained, new

LEMMA BaseSegment == 0 \in Segments
BY DEF Segments

LEMMA ChainedEmpty == Chained(<<>>)
BY DEF Chained

LEMMA ConcatEmpty == ASSUME NEW s \in Seq(Line) PROVE s \o <<>> = s
OBVIOUS

\* A chain in the base file alone is what verify_chain() accepts.
LEMMA ChainedIsIntact ==
  ASSUME TypeOK, \A t \in Segments \ {0} : file[t] = <<>>, Chained(file[0])
  PROVE  VerifyChain
<1>1. file[0] \in Seq(Line) /\ ReadBefore(0) = {}
  BY BaseSegment DEF TypeOK, ReadBefore, ListedBefore
<1>2. ASSUME NEW t \in Segments, NEW i \in DOMAIN file[t] PROVE Linked(t, i)
  <2>1. t = 0 /\ i \in 1..Len(file[0])
    BY <1>1, <1>2
  <2>2. CASE i > 1
    BY <2>1, <2>2 DEF Linked, HashBefore, Chained
  <2>3. CASE ~(i > 1)
    BY <1>1, <2>1, <2>3 DEF Linked, HashBefore, Chained
  <2>. QED BY <2>2, <2>3
<1>. QED BY <1>2 DEF VerifyChain

\* What disturbs a ledger is remembered.
LEMMA DisturbedStays ==
  ASSUME [Next]_vars, ~disturbed'
  PROVE  ~disturbed
<1>1. ASSUME NEW c \in Clients, Open(c) \/ StartFlush(c) \/ FlushFails(c)
      PROVE  ~disturbed
  BY <1>1 DEF Open, StartFlush, FlushFails
<1>2. ASSUME NEW c \in Clients,
             \/ (\E sub \in Subs : Write(c, sub)) \/ Flush(c) \/ AppendNext(c)
             \/ FinishFlush(c) \/ Finalise(c) \/ Close(c) \/ Crash(c)
      PROVE  ~disturbed
  BY <1>2 DEF Write, Flush, AppendNext, FinishFlush, Finalise, Close, Crash
<1>3. CASE Tick \/ UNCHANGED vars
  BY <1>3 DEF Tick, vars
<1>. QED BY <1>1, <1>2, <1>3 DEF Next, Internal

LEMMA PlainNext ==
  ASSUME TypeOK, Plain, [Next]_vars, ~disturbed'
  PROVE  Plain'
<1>. USE DEF Plain
<1>0. /\ TypeOK' /\ client \in [Clients -> Client] /\ file \in [Segments -> Seq(Line)]
      /\ 0 \in Segments /\ file[0] \in Seq(Line)
  BY TypeNext, BaseSegment DEF TypeOK
<1>1. \A c \in Clients : /\ StartFlush(c) => ~NeedsRotation(c)
                         /\ ~FlushFails(c)
                         /\ Open(c) => \A d \in Clients : client[d].pc = "down"
  BY DEF StartFlush, FlushFails, Open
<1>2. ASSUME NEW c \in Clients, Open(c) PROVE Plain'
  <2>1. /\ file' = file
        /\ client' = [client EXCEPT ![c] = Opened]
        /\ \A d \in Clients : client[d].pc = "down"
    BY <1>1, <1>2 DEF Open
  <2>2. \A d \in Clients : client'[d] = IF d = c THEN Opened ELSE client[d]
    BY <1>0, <2>1
  <2>3. /\ Opened.seg = 0 /\ Opened.pend = <<>>
        /\ Opened.last = LastHash(file[0])
    BY BaseIsLast DEF Opened, NoClient
  <2>4. HeadOK(Opened)
    BY <1>0, <2>3, ConcatEmpty DEF HeadOK
  <2>5. \A d \in Clients : HeadOK(client[d])'
    BY <2>1, <2>2, <2>4 DEF HeadOK
  <2>6. OneUp'
    BY <2>1, <2>2 DEF OneUp
  <2>. QED BY <1>0, <2>1, <2>5, <2>6
<1>3. ASSUME NEW c \in Clients,
             \/ \E sub \in Subs : Write(c, sub)
             \/ Flush(c) \/ StartFlush(c) \/ Close(c)
      PROVE  Plain'
  <2>1. file' = file /\ client[c].pc # "down" /\ client[c] \in Client
    BY <1>1, <1>3, Fields DEF Write, Flush, StartFlush, Close
  <2>. DEFINE r == client'[c]
  <2>2. /\ r.seg = client[c].seg /\ r.pend = client[c].pend /\ r.last = client[c].last
        /\ r.pc # "down"
        /\ \A d \in Clients \ {c} : client'[d] = client[d]
    <3>1. CASE Flush(c)
      BY <1>0, <2>1, <3>1 DEF Flush, Client
    <3>2. CASE Close(c)
      BY <1>0, <2>1, <3>2 DEF Close, Client
    <3>3. CASE StartFlush(c)
      <4>1. ~NeedsRotation(c)
        BY <1>1, <3>3, Zenon
      <4>2. client' = [client EXCEPT ![c] = [client[c] EXCEPT !.pc = "append"]]
        BY <1>0, <3>3, <4>1 DEF StartFlush
      <4>. QED BY <1>0, <2>1, <4>2 DEF Client
    <3>4. ASSUME NEW sub \in Subs, Write(c, sub)
          PROVE  /\ r.seg = client[c].seg /\ r.pend = client[c].pend
                 /\ r.last = client[c].last /\ r.pc # "down"
                 /\ \A d \in Clients \ {c} : client'[d] = client[d]
      <4>1. PICK b : \E p \in {"flush", "idle"} :
                client' = [client EXCEPT ![c] = [client[c] EXCEPT !.buf = b, !.pc = p]]
        BY <1>0, <3>4 DEF Write
      <4>2. PICK p \in {"flush", "idle"} :
                client' = [client EXCEPT ![c] = [client[c] EXCEPT !.buf = b, !.pc = p]]
        BY <4>1
      <4> DEFINE next == [client[c] EXCEPT !.buf = b, !.pc = p]
      <4>3. /\ next.seg = client[c].seg /\ next.pend = client[c].pend
            /\ next.last = client[c].last /\ next.pc # "down"
        BY <2>1, <4>2 DEF Client
      <4>4. client' = [client EXCEPT ![c] = next]
        BY <4>2
      <4> HIDE DEF next
      <4>. QED BY <1>0, <4>3, <4>4
    <3>. QED BY <1>3, <3>1, <3>2, <3>3, <3>4
  <2>3. \A d \in Clients : client'[d] = IF d = c THEN r ELSE client[d]
    BY <2>2
  <2>. HIDE DEF r
  <2>4. HeadOK(r)
    BY <2>1, <2>2 DEF HeadOK
  <2>5. \A d \in Clients : HeadOK(client[d])'
    BY <2>1, <2>3, <2>4 DEF HeadOK
  <2>6. OneUp'
    BY <2>1, <2>3 DEF OneUp
  <2>. QED BY <1>0, <2>1, <2>5, <2>6
<1>4. ASSUME NEW c \in Clients, AppendNext(c) PROVE Plain'
  <2>1. /\ client[c] \in Client /\ client[c].pc = "append" /\ client[c].seg = 0
        /\ client[c].pend \in Seq(Line) /\ HeadOK(client[c])
    BY <1>4, Fields DEF AppendNext, Offset, HeadOK
  <2>2. /\ file' = [file EXCEPT ![0] = file[0] \o client[c].pend]
        /\ file'[0] = file[0] \o client[c].pend
        /\ file'[0] \in Seq(Line)
        /\ \A t \in Segments \ {0} : file'[t] = <<>>
    <3>1. file' = [file EXCEPT ![client[c].seg] = Landed(c)]
      BY <1>4 DEF AppendNext, Offset
    <3>2. Landed(c) = file[0] \o client[c].pend
      BY <2>1 DEF Landed
    <3>3. Landed(c) \in Seq(Line)
      BY <1>0, <2>1, <3>2
    <3>4. file' = [file EXCEPT ![0] = Landed(c)]
      BY <2>1, <3>1
    <3>. QED BY <1>0, <3>2, <3>3, <3>4
  <2>3. Chained(file'[0]) /\ client[c].last = LastHash(file'[0])
    BY <2>1, <2>2 DEF HeadOK
  <2>. DEFINE line == NextLine(c)
  <2>4. line \in Line /\ line.prev = client[c].last
    <3>1. client[c].k < Len(client[c].buf)
      BY <1>4 DEF AppendNext
    <3>2. line \in Line
      BY <2>1, <3>1, LineType
    <3>. QED BY <3>2 DEF NextLine
  <2>5. /\ client'[c].pc = "append" /\ client'[c].seg = 0
        /\ client'[c].pend = <<line>> /\ client'[c].last = HashOf(line)
        /\ \A d \in Clients \ {c} : client'[d] = client[d] /\ client'[d].pc = "down"
    <3> DEFINE next == [client[c] EXCEPT
               !.k = @ + 1, !.pend = <<line>>, !.last = HashOf(line),
               !.lastTs = line.ts, !.bytes = @ + 1, !.count = @ + 1,
               !.offs = @ \union {<<line.sub, Offset(c)>>}]
    <3> HIDE DEF line
    <3>1. client' = [client EXCEPT ![c] = next]
      BY ZenonT(30), <1>4 DEF AppendNext, line
    <3>2. /\ next.pc = client[c].pc /\ next.seg = client[c].seg
          /\ next.pend = <<line>> /\ next.last = HashOf(line)
      BY <2>1 DEF Client
    <3> HIDE DEF next
    <3>3. client'[c] = next /\ \A d \in Clients \ {c} : client'[d] = client[d]
      BY <1>0, <3>1
    <3>4. \A d \in Clients \ {c} : client[d].pc = "down"
      BY <1>0, <2>1 DEF OneUp
    <3>. QED BY <2>1, <3>2, <3>3, <3>4
  <2>. HIDE DEF line
  <2>6. Chained(file'[0] \o <<line>>) /\ LastHash(file'[0] \o <<line>>) = HashOf(line)
    BY <2>2, <2>3, <2>4, ChainedAppend
  <2>7. \A d \in Clients : HeadOK(client[d])'
    BY <2>4, <2>5, <2>6 DEF HeadOK
  <2>8. OneUp'
    BY <2>5 DEF OneUp
  <2>. QED BY <1>0, <2>2, <2>3, <2>7, <2>8
<1>5. ASSUME NEW c \in Clients, FinishFlush(c) PROVE Plain'
  <2>1. /\ client[c] \in Client /\ client[c].pc = "append" /\ client[c].seg = 0
        /\ client[c].pend \in Seq(Line) /\ HeadOK(client[c])
    BY <1>5, Fields DEF FinishFlush, HeadOK
  <2>2. /\ file' = [file EXCEPT ![0] = file[0] \o client[c].pend]
        /\ file'[0] = file[0] \o client[c].pend
        /\ file'[0] \in Seq(Line)
        /\ \A t \in Segments \ {0} : file'[t] = <<>>
    <3>1. file' = [file EXCEPT ![client[c].seg] = Landed(c)]
      BY <1>5 DEF FinishFlush
    <3>2. Landed(c) = file[0] \o client[c].pend
      BY <2>1 DEF Landed
    <3>3. Landed(c) \in Seq(Line)
      BY <1>0, <2>1, <3>2
    <3>4. file' = [file EXCEPT ![0] = Landed(c)]
      BY <2>1, <3>1
    <3>. QED BY <1>0, <3>2, <3>3, <3>4
  <2>3. Chained(file'[0]) /\ client[c].last = LastHash(file'[0])
    BY <2>1, <2>2 DEF HeadOK
  <2>5. /\ client'[c].pc # "down" /\ client'[c].seg = 0
        /\ client'[c].pend = <<>> /\ client'[c].last = client[c].last
        /\ \A d \in Clients \ {c} : client'[d] = client[d] /\ client'[d].pc = "down"
    BY <1>0, <1>5, <2>1 DEF FinishFlush, AfterFlush, Client, OneUp
  <2>6. file'[0] \o <<>> = file'[0]
    BY <2>2, ConcatEmpty
  <2>7. \A d \in Clients : HeadOK(client[d])'
    BY <2>3, <2>5, <2>6 DEF HeadOK
  <2>8. OneUp'
    BY <2>5 DEF OneUp
  <2>. QED BY <1>0, <2>2, <2>3, <2>7, <2>8
<1>6. ASSUME NEW c \in Clients, Finalise(c) \/ Crash(c) PROVE Plain'
  <2>1. file' = file /\ client' = [client EXCEPT ![c] = NoClient] /\ NoClient.pc = "down"
    BY <1>6 DEF Finalise, Crash, NoClient
  <2>2. \A d \in Clients : client'[d] = IF d = c THEN NoClient ELSE client[d]
    BY <1>0, <2>1
  <2>3. \A d \in Clients : HeadOK(client[d])'
    BY <2>1, <2>2 DEF HeadOK
  <2>4. OneUp'
    BY <2>1, <2>2 DEF OneUp
  <2>. QED BY <1>0, <2>1, <2>3, <2>4
<1>7. CASE Tick \/ UNCHANGED vars
  BY <1>0, <1>7 DEF Tick, vars, OneUp, HeadOK
<1>8. \/ Tick \/ UNCHANGED vars
      \/ \E c \in Clients :
            \/ Open(c) \/ (\E sub \in Subs : Write(c, sub)) \/ Flush(c) \/ Close(c)
            \/ StartFlush(c) \/ AppendNext(c) \/ FinishFlush(c)
            \/ Finalise(c) \/ Crash(c)
  <2>1. \A c \in Clients : ~FlushFails(c)
    BY <1>1, Zenon
  <2>. QED BY <2>1, Zenon DEF Next, Internal
<1>. QED BY <1>2, <1>3, <1>4, <1>5, <1>6, <1>7, <1>8, Zenon

\* As long as clients take turns, nothing is rotated and no flush fails, the
\* ledger verifies in every state: while a flush is half done, after a crash in
\* its middle, and after the reopening that follows.
THEOREM SerialChainIsIntact == Spec => []ChainIntact
<1>. DEFINE ChainInv == TypeOK /\ (~disturbed => Plain)
<1>1. Init => ChainInv
  <2>1. Init => /\ \A t \in Segments : file[t] = <<>>
                /\ \A c \in Clients : client[c].pc = "down"
    BY DEF Init, NoClient
  <2>2. Init => file[0] = <<>>
    BY <2>1, BaseSegment
  <2>. QED BY <2>1, <2>2, TypeInit, ChainedEmpty DEF Plain, OneUp, HeadOK
<1>2. ChainInv /\ [Next]_vars => ChainInv'
  <2>. SUFFICES ASSUME TypeOK, ~disturbed => Plain, [Next]_vars
                PROVE  TypeOK' /\ (~disturbed' => Plain')
    OBVIOUS
  <2>1. TypeOK'
    BY TypeNext
  <2>2. ~disturbed' => Plain'
    BY DisturbedStays, PlainNext
  <2>. QED BY <2>1, <2>2
<1>3. ChainInv => ChainIntact
  BY ChainedIsIntact DEF Plain, ChainIntact
<1>. QED BY <1>1, <1>2, <1>3, PTL DEF Spec

-----------------------------------------------------------------------------
(* What the calls of a client leave alone.                                  *)

\* Until its loop runs, a call changes neither the files nor what the client
\* remembers of them; only a rotation changes the client's offsets.
LEMMA BeforeLoop ==
  ASSUME TypeOK, NEW c \in Clients,
         (\E sub \in Subs : Write(c, sub)) \/ Flush(c) \/ Close(c) \/ StartFlush(c)
  PROVE  LET r == client'[c]
         IN  /\ file' = file /\ errors' = errors
             /\ r.k = client[c].k /\ r.pend = client[c].pend /\ r.last = client[c].last
             /\ r.pc # "down" /\ client[c].pc # "down"
             /\ \A d \in Clients \ {c} : client'[d] = client[d]
             /\ ~disturbed' => r.offs = client[c].offs /\ idx' = idx
             /\ \/ r.buf = client[c].buf /\ created' = created
                \/ \E sub \in Subs : Write(c, sub)
<1>0. client \in [Clients -> Client] /\ client[c] \in Client
  BY Fields DEF TypeOK
<1>1. CASE Flush(c)
  BY <1>0, <1>1 DEF Flush, Client
<1>2. CASE Close(c)
  BY <1>0, <1>2 DEF Close, Client
<1>3. CASE StartFlush(c) /\ ~NeedsRotation(c)
  <2>1. client' = [client EXCEPT ![c] = [client[c] EXCEPT !.pc = "append"]]
    BY <1>0, <1>3 DEF StartFlush
  <2>. QED BY <1>0, <1>3, <2>1 DEF StartFlush, Client
<1>4. CASE StartFlush(c) /\ NeedsRotation(c)
  <2>1. StartNewSegment(c) /\ disturbed' = TRUE
    BY <1>4 DEF StartFlush
  <2>2. file' = file /\ client' = [client EXCEPT ![c] = [client[c] EXCEPT
           !.pc = "append", !.seg = now, !.count = 0, !.bytes = 0, !.offs = {}]]
    BY <1>0, <2>1 DEF StartNewSegment
  <2>. QED BY <1>0, <1>4, <2>1, <2>2 DEF StartFlush, Client
<1>5. ASSUME NEW sub \in Subs, Write(c, sub)
      PROVE  LET r == client'[c]
             IN  /\ file' = file /\ errors' = errors /\ idx' = idx
                 /\ r.k = client[c].k /\ r.pend = client[c].pend /\ r.last = client[c].last
                 /\ r.pc # "down" /\ client[c].pc # "down" /\ r.offs = client[c].offs
                 /\ \A d \in Clients \ {c} : client'[d] = client[d]
  <2>1. PICK b : \E p \in {"flush", "idle"} :
            client' = [client EXCEPT ![c] = [client[c] EXCEPT !.buf = b, !.pc = p]]
    BY <1>0, <1>5 DEF Write
  <2>2. file' = file /\ errors' = errors /\ idx' = idx /\ client[c].pc # "down"
    BY <1>5 DEF Write
  <2>. QED BY SMTT(30), <1>0, <2>1, <2>2 DEF Client
<1>. QED BY <1>1, <1>2, <1>3, <1>4, <1>5

\* Every step is one of these.
LEMMA StepCases ==
  ASSUME [Next]_vars
  PROVE  \/ Tick \/ UNCHANGED vars
         \/ \E c \in Clients :
              \/ Open(c)
              \/ (\E sub \in Subs : Write(c, sub)) \/ Flush(c) \/ Close(c) \/ StartFlush(c)
              \/ AppendNext(c)
              \/ FinishFlush(c)
              \/ FlushFails(c)
              \/ Finalise(c)
              \/ Crash(c)
BY Zenon DEF Next, Internal

\* One turn of the loop: the pending line lands, the next one takes its place.
LEMMA LoopStep ==
  ASSUME TypeOK, NEW c \in Clients, AppendNext(c)
  PROVE  LET r == client'[c]
             line == NextLine(c)
         IN  /\ client[c].k < Len(client[c].buf)
             /\ r.k = client[c].k + 1 /\ r.buf = client[c].buf /\ r.pend = <<line>>
             /\ r.last = HashOf(line) /\ r.pc = "append" /\ client[c].pc = "append"
             /\ r.offs = client[c].offs \union {<<line.sub, Len(Landed(c)) + 1>>}
             /\ line \in Line /\ line.prev = client[c].last
             /\ line.id = client[c].buf[client[c].k + 1].id
             /\ file' = [file EXCEPT ![client[c].seg] = Landed(c)]
             /\ \A d \in Clients \ {c} : client'[d] = client[d]
             /\ idx' = idx /\ errors' = errors /\ created' = created
<1>0. client \in [Clients -> Client] /\ client[c] \in Client
  BY Fields DEF TypeOK
<1>1. client[c].k < Len(client[c].buf)
  BY DEF AppendNext
<1>2. NextLine(c) \in Line
  BY <1>1, LineType
<1>3. NextLine(c).prev = client[c].last /\ NextLine(c).id = client[c].buf[client[c].k + 1].id
  BY DEF NextLine
<1>. DEFINE line == NextLine(c)
            new == [client[c] EXCEPT
                      !.k = @ + 1, !.pend = <<line>>, !.last = HashOf(line),
                      !.lastTs = line.ts, !.bytes = @ + 1, !.count = @ + 1,
                      !.offs = @ \union {<<line.sub, Len(Landed(c)) + 1>>}]
<1>4. client' = [client EXCEPT ![c] = new]
  BY <1>0 DEF AppendNext, Offset
<1>. HIDE DEF line
<1>5. /\ new.k = client[c].k + 1 /\ new.buf = client[c].buf /\ new.pend = <<line>>
      /\ new.last = HashOf(line) /\ new.pc = client[c].pc
      /\ new.offs = client[c].offs \union {<<line.sub, Len(Landed(c)) + 1>>}
  BY <1>0 DEF Client
<1>. HIDE DEF new
<1>6. client'[c] = new /\ \A d \in Clients \ {c} : client'[d] = client[d]
  BY <1>0, <1>4
<1>7. /\ client[c].pc = "append" /\ file' = [file EXCEPT ![client[c].seg] = Landed(c)]
      /\ idx' = idx /\ errors' = errors /\ created' = created
  BY DEF AppendNext
<1>. QED BY <1>1, <1>2, <1>3, <1>5, <1>6, <1>7 DEF line

\* The end of the loop: the pending line lands and the buffer is cleared.
LEMMA ReturnStep ==
  ASSUME TypeOK, NEW c \in Clients, FinishFlush(c)
  PROVE  LET r == client'[c]
         IN  /\ r.k = 0 /\ r.buf = <<>> /\ r.pend = <<>> /\ r.last = client[c].last
             /\ r.offs = client[c].offs /\ r.pc # "down" /\ client[c].pc = "append"
             /\ file' = [file EXCEPT ![client[c].seg] = Landed(c)]
             /\ \A d \in Clients \ {c} : client'[d] = client[d]
             /\ idx' = idx /\ errors' = errors /\ created' = created
<1>0. client \in [Clients -> Client] /\ client[c] \in Client
  BY Fields DEF TypeOK
<1>. QED BY SMTT(30), <1>0 DEF FinishFlush, AfterFlush, Client

\* An object is gone, or one is made from what the files say.
LEMMA ObjectStep ==
  ASSUME TypeOK, NEW c \in Clients, Open(c) \/ Finalise(c) \/ Crash(c)
  PROVE  LET r == client'[c]
         IN  /\ r.k = 0 /\ r.buf = <<>> /\ r.pend = <<>> /\ r.offs = {}
             /\ Open(c) => /\ r.last = LastHash(file[0]) /\ r.pc = "idle"
                           /\ idx' = idx
             /\ ~Open(c) => r.pc = "down" /\ r.last = <<>>
             /\ file' = file /\ errors' = errors /\ created' = created
             /\ \A d \in Clients \ {c} : client'[d] = client[d]
<1>0. client \in [Clients -> Client]
  BY DEF TypeOK
<1>1. CASE Open(c)
  <2>1. client'[c] = Opened
    BY <1>0, <1>1 DEF Open
  <2>2. /\ Opened.k = 0 /\ Opened.buf = <<>> /\ Opened.pend = <<>> /\ Opened.offs = {}
        /\ Opened.last = LastHash(file[0]) /\ Opened.pc = "idle"
    BY BaseIsLast DEF Opened, NoClient
  <2>. QED BY <1>0, <1>1, <2>1, <2>2 DEF Open
<1>2. CASE ~Open(c)
  <2>1. client'[c] = NoClient /\ NoClient.offs = {}
    BY <1>0, <1>2 DEF Finalise, Crash, NoClient
  <2>2. /\ NoClient.k = 0 /\ NoClient.buf = <<>> /\ NoClient.pend = <<>>
        /\ NoClient.last = <<>> /\ NoClient.pc = "down"
    BY DEF NoClient
  <2>. QED BY <1>0, <1>2, <2>1, <2>2 DEF Finalise, Crash
<1>. QED BY <1>1, <1>2

-----------------------------------------------------------------------------
(* The fast read of a ledger that is written in turn.                       *)

\* The offsets lead to lines of the submissions they are listed for.
Leads(offsets, lines) ==
  \A o \in offsets : o[2] \in DOMAIN lines /\ lines[o[2]].sub = o[1]

\* So do those of the index on disk and, once the pending line has landed, those
\* a client has collected for it.
Indexed ==
  /\ Leads(idx[0], file[0])
  /\ \A c \in Clients :
       client[c].pc # "down" => Leads(client[c].offs, file[0] \o client[c].pend)

LEMMA LeadsFurther ==
  ASSUME NEW s \in Seq(Line), NEW t \in Seq(Line), NEW offsets, Leads(offsets, s)
  PROVE  Leads(offsets, s \o t)
<1>. SUFFICES ASSUME NEW o \in offsets
              PROVE  o[2] \in DOMAIN (s \o t) /\ (s \o t)[o[2]].sub = o[1]
  BY DEF Leads
<1>1. o[2] \in 1..Len(s) /\ s[o[2]].sub = o[1]
  BY DEF Leads
<1>2. o[2] \in DOMAIN (s \o t) /\ (s \o t)[o[2]] = s[o[2]]
  BY <1>1
<1>. QED BY <1>1, <1>2

\* The offset that tell() yields is that of the line written next.
LEMMA LeadsToNext ==
  ASSUME NEW s \in Seq(Line), NEW line \in Line, NEW offsets, Leads(offsets, s)
  PROVE  Leads(offsets \union {<<line.sub, Len(s) + 1>>}, s \o <<line>>)
<1>1. <<line>> \in Seq(Line)
  OBVIOUS
<1>2. Leads(offsets, s \o <<line>>)
  BY <1>1, LeadsFurther
<1>3. Len(s) + 1 \in DOMAIN (s \o <<line>>) /\ (s \o <<line>>)[Len(s) + 1] = line
  OBVIOUS
<1>4. Leads({<<line.sub, Len(s) + 1>>}, s \o <<line>>)
  BY <1>3 DEF Leads
<1>. QED BY <1>2, <1>4 DEF Leads

\* A client that has no offsets yet, or none any more, does not disturb the others.
LEMMA NoOffsets ==
  ASSUME Indexed, NEW c \in Clients, file' = file, client'[c].offs = {},
         \A d \in Clients \ {c} : client'[d] = client[d]
  PROVE  \A d \in Clients :
           client'[d].pc # "down" => Leads(client'[d].offs, file'[0] \o client'[d].pend)
<1>1. Leads({}, file'[0] \o client'[c].pend)
  BY DEF Leads
<1>2. ASSUME NEW d \in Clients \ {c}, client'[d].pc # "down"
      PROVE  Leads(client'[d].offs, file'[0] \o client'[d].pend)
  BY <1>2 DEF Indexed
<1>. QED BY <1>1, <1>2

LEMMA IndexedNext ==
  ASSUME TypeOK, Plain, Indexed, [Next]_vars, ~disturbed'
  PROVE  Indexed'
<1>0. /\ client \in [Clients -> Client] /\ file \in [Segments -> Seq(Line)]
      /\ 0 \in Segments /\ file[0] \in Seq(Line)
      /\ idx \in [Segments -> SUBSET (Subs \X Nat)]
  BY BaseSegment DEF TypeOK
<1>1. ASSUME NEW c \in Clients,
             \/ (\E sub \in Subs : Write(c, sub)) \/ Flush(c) \/ Close(c)
             \/ StartFlush(c)
      PROVE  Indexed'
  <2>1. /\ file' = file /\ idx' = idx
        /\ client[c].pc # "down"
        /\ client'[c].offs = client[c].offs /\ client'[c].pend = client[c].pend
        /\ \A d \in Clients \ {c} : client'[d] = client[d]
    BY <1>1, BeforeLoop
  <2>. QED BY <2>1 DEF Indexed
<1>2. ASSUME NEW c \in Clients, Open(c) \/ Crash(c) PROVE Indexed'
  <2>1. /\ file' = file /\ client'[c].offs = {}
        /\ \A d \in Clients \ {c} : client'[d] = client[d]
    BY <1>2, ObjectStep
  <2>2. idx' = idx
    BY <1>2 DEF Open, Crash
  <2>. QED BY <2>1, <2>2, NoOffsets DEF Indexed
<1>3. ASSUME NEW c \in Clients, Finalise(c) PROVE Indexed'
  <2>1. /\ file' = file /\ client'[c].offs = {}
        /\ \A d \in Clients \ {c} : client'[d] = client[d]
    BY <1>3, ObjectStep
  <2>2. client[c].pc = "final" /\ client[c].pend = <<>> /\ client[c].seg = 0
    BY <1>3, Fields DEF Finalise, Plain, HeadOK
  <2>3. Leads(client[c].offs, file[0])
    BY <1>0, <2>2, ConcatEmpty DEF Indexed
  <2>4. idx'[0] = idx[0] \/ idx'[0] = client[c].offs
    BY <1>0, <1>3, <2>2 DEF Finalise
  <2>5. Leads(idx[0], file[0])
    BY DEF Indexed
  <2>6. Leads(idx'[0], file'[0])
    BY <2>1, <2>3, <2>4, <2>5
  <2>. QED BY <2>1, <2>6, NoOffsets DEF Indexed
<1>4. ASSUME NEW c \in Clients, AppendNext(c) \/ FinishFlush(c) PROVE Indexed'
  <2>. DEFINE landed == file[0] \o client[c].pend
  <2>1. /\ client[c].pc = "append" /\ client[c].seg = 0 /\ client[c].pend \in Seq(Line)
        /\ \A d \in Clients \ {c} : client[d].pc = "down"
    BY <1>4, Fields DEF AppendNext, FinishFlush, Plain, HeadOK, OneUp
  <2>2. Landed(c) = landed /\ landed \in Seq(Line)
    BY <1>0, <2>1 DEF Landed
  <2>3. /\ file'[0] = landed /\ idx' = idx
        /\ \A d \in Clients \ {c} : client'[d] = client[d]
    <3>1. file' = [file EXCEPT ![0] = landed]
      BY <1>4, <2>1, <2>2, LoopStep, ReturnStep
    <3>. QED BY <1>0, <1>4, <3>1, LoopStep, ReturnStep
  <2>4. Leads(idx[0], landed)
    BY <1>0, <2>1, LeadsFurther DEF Indexed
  <2>5. Leads(client[c].offs, landed)
    BY <2>1 DEF Indexed
  <2>6. Leads(client'[c].offs, landed \o client'[c].pend)
    <3>1. CASE AppendNext(c)
      <4>. DEFINE line == NextLine(c)
      <4>1. /\ client'[c].offs = client[c].offs \union {<<line.sub, Len(landed) + 1>>}
            /\ client'[c].pend = <<line>> /\ line \in Line
        BY <2>2, <3>1, LoopStep
      <4>. HIDE DEF landed, line
      <4>. QED BY <2>2, <2>5, <4>1, LeadsToNext
    <3>2. CASE FinishFlush(c)
      <4>1. client'[c].offs = client[c].offs /\ client'[c].pend = <<>>
        BY <3>2, ReturnStep
      <4>. QED BY <2>2, <2>5, <4>1, ConcatEmpty
    <3>. QED BY <1>4, <3>1, <3>2
  <2>. HIDE DEF landed
  <2>. QED BY <2>1, <2>3, <2>4, <2>6 DEF Indexed
<1>5. ASSUME NEW c \in Clients, FlushFails(c) PROVE FALSE
  BY <1>5 DEF FlushFails
<1>6. CASE Tick \/ UNCHANGED vars
  BY <1>6 DEF Tick, vars, Indexed
<1>. QED BY <1>1, <1>2, <1>3, <1>4, <1>5, <1>6, StepCases, Zenon

\* What the index names is what the fast read returns.
LEMMA IndexedIsSound ==
  ASSUME TypeOK, Plain, Indexed, NEW sub \in Subs, NEW line \in FastRead(sub)
  PROVE  line.sub = sub
<1>1. PICK t \in Segments : line \in FastReadSegment(sub, t)
  BY DEF FastRead
<1>2. PICK p \in DOMAIN file[t] :
        /\ line = file[t][p]
        /\ IF \E offset \in idx[t] : offset[1] = sub THEN <<sub, p>> \in idx[t]
                                                     ELSE file[t][p].sub = sub
  BY <1>1 DEF FastReadSegment
<1>3. t = 0
  BY <1>2 DEF Plain
<1>4. <<sub, p>> \in idx[0] => file[0][p].sub = sub
  BY DEF Indexed, Leads
<1>. QED BY <1>2, <1>3, <1>4

\* The fast read never returns a line of another submission while clients take
\* turns, nothing is rotated and no flush fails: it does not look at the lines it
\* finds, so this rests on every offset in the index being the right one, also
\* after a crash between the lines of a flush.
THEOREM FastReadIsSound == Spec => []FastReadSound
<1>. DEFINE Inv == TypeOK /\ (~disturbed => Plain /\ Indexed)
<1>1. Init => Inv
  <2>1. Init => /\ \A t \in Segments : file[t] = <<>> /\ idx[t] = {}
                /\ \A c \in Clients : client[c].pc = "down"
    BY DEF Init, NoClient
  <2>2. Init => file[0] = <<>> /\ idx[0] = {}
    BY <2>1, BaseSegment
  <2>3. Init => Plain
    BY <2>1, <2>2, ChainedEmpty DEF Plain, OneUp, HeadOK
  <2>4. Init => Indexed
    BY <2>1, <2>2 DEF Indexed, Leads
  <2>. QED BY <2>3, <2>4, TypeInit
<1>2. Inv /\ [Next]_vars => Inv'
  <2>. SUFFICES ASSUME TypeOK, ~disturbed => Plain /\ Indexed, [Next]_vars
                PROVE  TypeOK' /\ (~disturbed' => Plain' /\ Indexed')
    OBVIOUS
  <2>. QED BY TypeNext, DisturbedStays, PlainNext, IndexedNext
<1>3. Inv => FastReadSound
  BY IndexedIsSound DEF FastReadSound
<1>. QED BY <1>1, <1>2, <1>3, PTL DEF Spec

-----------------------------------------------------------------------------
(* No entry is written twice while no flush fails.                          *)

\* No two lines on disk have the same id.
Apart ==
  \A s, t \in Segments : \A i \in DOMAIN file[s], j \in DOMAIN file[t] :
    file[s][i].id = file[t][j].id => s = t /\ i = j

\* The id of what is pending is that of the entry the loop has passed last; it and
\* those behind it are not on disk, and no other buffer has them.
Awaited ==
  /\ \A c, d \in Clients : \A i \in DOMAIN client[c].buf, j \in DOMAIN client[d].buf :
       client[c].buf[i].id = client[d].buf[j].id => c = d /\ i = j
  /\ \A c \in Clients : \A i \in DOMAIN client[c].buf :
       i >= client[c].k => ~OnDisk(client[c].buf[i].id)
  /\ \A c \in Clients : client[c].k > 0 =>
       \E line \in Line : /\ client[c].pend = <<line>>
                          /\ line.id = client[c].buf[client[c].k].id

\* Only entries that exist are on disk.
Known == \A t \in Segments : \A i \in DOMAIN file[t] : file[t][i].id \in 1..created

Once == Apart /\ Awaited /\ Known

LEMMA ErrorStays ==
  ASSUME [Next]_vars, TypeOK, errors' = 0
  PROVE  errors = 0 /\ \A c \in Clients : ~FlushFails(c)
<1>0. errors \in Nat
  BY DEF TypeOK
<1>1. ASSUME NEW c \in Clients, FlushFails(c) PROVE FALSE
  BY <1>0, <1>1 DEF FlushFails
<1>2. ASSUME NEW c \in Clients, Open(c) \/ Finalise(c) \/ Crash(c) PROVE errors' = errors
  BY <1>2, ObjectStep
<1>3. ASSUME NEW c \in Clients, AppendNext(c) \/ FinishFlush(c) PROVE errors' = errors
  BY <1>3 DEF AppendNext, FinishFlush
<1>4. ASSUME NEW c \in Clients,
             (\E sub \in Subs : Write(c, sub)) \/ Flush(c) \/ Close(c) \/ StartFlush(c)
      PROVE  errors' = errors
  BY <1>4, BeforeLoop
<1>5. ASSUME Tick \/ UNCHANGED vars PROVE errors' = errors
  BY <1>5 DEF Tick, vars
<1>6. errors' = errors
  BY <1>1, <1>2, <1>3, <1>4, <1>5, StepCases, Zenon
<1>. QED BY <1>1, <1>6

\* The lines on disk once the pending lines of c have landed.
LEMMA LandedLines ==
  ASSUME TypeOK, NEW c \in Clients, file' = [file EXCEPT ![client[c].seg] = Landed(c)],
         client[c].pend = <<>> \/ \E line \in Line : client[c].pend = <<line>>,
         NEW t \in Segments, NEW i \in DOMAIN file'[t]
  PROVE  \/ i \in DOMAIN file[t] /\ file'[t][i] = file[t][i]
         \/ /\ t = client[c].seg /\ i = Len(file[t]) + 1 /\ client[c].pend # <<>>
            /\ file'[t][i] = client[c].pend[1]
<1>1. /\ file \in [Segments -> Seq(Line)] /\ file[t] \in Seq(Line)
      /\ client[c].seg \in Segments /\ client[c].pend \in Seq(Line)
  BY Fields DEF TypeOK
<1>2. CASE t # client[c].seg
  BY <1>1, <1>2
<1>3. CASE t = client[c].seg
  <2>1. file'[t] = file[t] \o client[c].pend
    BY <1>1, <1>3 DEF Landed
  <2>2. CASE client[c].pend = <<>>
    BY <1>1, <2>1, <2>2, ConcatEmpty
  <2>3. ASSUME NEW line \in Line, client[c].pend = <<line>>
        PROVE  \/ i \in DOMAIN file[t] /\ file'[t][i] = file[t][i]
               \/ i = Len(file[t]) + 1 /\ file'[t][i] = line
    <3>. DEFINE lines == file[t]
    <3>1. lines \in Seq(Line) /\ file'[t] = lines \o <<line>> /\ i \in DOMAIN (lines \o <<line>>)
      BY <1>1, <2>1, <2>3
    <3>. HIDE DEF lines
    <3>2. /\ Len(lines) \in Nat /\ i \in 1..(Len(lines) + 1)
          /\ \A j \in 1..Len(lines) : (lines \o <<line>>)[j] = lines[j]
          /\ (lines \o <<line>>)[Len(lines) + 1] = line
      BY <3>1
    <3>3. CASE i \in 1..Len(lines)
      BY <3>1, <3>2, <3>3 DEF lines
    <3>4. CASE i = Len(lines) + 1
      BY <3>1, <3>2, <3>4 DEF lines
    <3>. QED BY <3>2, <3>3, <3>4
  <2>4. ASSUME NEW line \in Line, client[c].pend = <<line>>
        PROVE  client[c].pend # <<>> /\ client[c].pend[1] = line
    BY <2>4
  <2>. QED BY <1>3, <2>2, <2>3, <2>4
<1>. QED BY <1>2, <1>3

\* The pending line is one that the disk does not have yet.
LEMMA LandsOnce ==
  ASSUME TypeOK, Once, NEW c \in Clients,
         file' = [file EXCEPT ![client[c].seg] = Landed(c)], created' = created
  PROVE  /\ Apart' /\ Known'
         /\ \A id : OnDisk(id)' =>
              OnDisk(id) \/ (client[c].k > 0 /\ id = client[c].buf[client[c].k].id)
<1>0. /\ client[c].k \in 0..Len(client[c].buf) /\ client[c].buf \in Seq(Entry)
      /\ Len(client[c].buf) \in Nat
      /\ client[c].pend # <<>> <=> client[c].k > 0
      /\ \A i \in DOMAIN client[c].buf : client[c].buf[i].id \in 1..created
  BY Fields
<1>1. client[c].pend = <<>> \/ \E line \in Line : client[c].pend = <<line>>
  BY <1>0 DEF Once, Awaited
<1>2. client[c].k > 0 => /\ client[c].k \in DOMAIN client[c].buf
                         /\ client[c].pend[1].id = client[c].buf[client[c].k].id
                         /\ ~OnDisk(client[c].buf[client[c].k].id)
  <2>1. client[c].k > 0 => client[c].k \in DOMAIN client[c].buf
    BY <1>0
  <2>2. client[c].k >= client[c].k
    BY <1>0
  <2>3. client[c].k > 0 => client[c].pend[1].id = client[c].buf[client[c].k].id
    BY DEF Once, Awaited
  <2>. QED BY <2>1, <2>2, <2>3 DEF Once, Awaited
<1>3. ASSUME NEW t \in Segments, NEW i \in DOMAIN file'[t]
      PROVE  \/ i \in DOMAIN file[t] /\ file'[t][i] = file[t][i]
             \/ /\ t = client[c].seg /\ i = Len(file[t]) + 1 /\ client[c].k > 0
                /\ file'[t][i].id = client[c].buf[client[c].k].id
  <2>1. \/ i \in DOMAIN file[t] /\ file'[t][i] = file[t][i]
        \/ /\ t = client[c].seg /\ i = Len(file[t]) + 1 /\ client[c].pend # <<>>
           /\ file'[t][i] = client[c].pend[1]
    BY ZenonT(30), <1>1, <1>3, LandedLines
  <2>. QED BY <1>0, <1>2, <2>1
<1>4. ASSUME NEW t \in Segments, NEW i \in DOMAIN file[t] PROVE OnDisk(file[t][i].id)
  BY <1>4 DEF OnDisk, Ids
<1>5. Apart'
  <2>. SUFFICES ASSUME NEW s \in Segments, NEW t \in Segments,
                       NEW i \in DOMAIN file'[s], NEW j \in DOMAIN file'[t],
                       file'[s][i].id = file'[t][j].id
                PROVE  s = t /\ i = j
    BY DEF Apart
  <2>1. CASE i \in DOMAIN file[s] /\ file'[s][i] = file[s][i]
    <3>1. OnDisk(file'[s][i].id)
      BY <1>4, <2>1
    <3>2. j \in DOMAIN file[t] /\ file'[t][j] = file[t][j]
      BY <1>2, <1>3, <3>1
    <3>. QED BY <2>1, <3>2 DEF Once, Apart
  <2>2. CASE /\ s = client[c].seg /\ i = Len(file[s]) + 1 /\ client[c].k > 0
             /\ file'[s][i].id = client[c].buf[client[c].k].id
    <3>1. ~(j \in DOMAIN file[t] /\ file'[t][j] = file[t][j])
      BY <1>2, <1>4, <2>2
    <3>. QED BY <1>3, <2>2, <3>1
  <2>. QED BY <1>3, <2>1, <2>2
<1>6. Known'
  BY <1>0, <1>2, <1>3 DEF Once, Known
<1>7. \A id : OnDisk(id)' =>
        OnDisk(id) \/ (client[c].k > 0 /\ id = client[c].buf[client[c].k].id)
  <2>. SUFFICES ASSUME NEW id, NEW t \in Segments, NEW i \in DOMAIN file'[t],
                       file'[t][i].id = id
                PROVE  OnDisk(id) \/ (client[c].k > 0 /\ id = client[c].buf[client[c].k].id)
    BY DEF OnDisk, Ids
  <2>. QED BY <1>3, <1>4
<1>. QED BY <1>5, <1>6, <1>7

LEMMA OnceNext ==
  ASSUME TypeOK, Once, [Next]_vars, errors' = 0
  PROVE  Once'
<1>0. client \in [Clients -> Client] /\ created \in Nat
  BY DEF TypeOK
<1>1. ASSUME file' = file PROVE Apart' /\ \A id : OnDisk(id)' = OnDisk(id)
  BY <1>1 DEF Once, Apart, OnDisk, Ids
<1>2. ASSUME NEW c \in Clients, NEW sub \in Subs, Write(c, sub) PROVE Once'
  <2>. DEFINE e == [id |-> created + 1, sub |-> sub, ts |-> now]
              old == client[c].buf
  <2>1. /\ file' = file /\ client'[c].k = 0 /\ client[c].k = 0
        /\ \A d \in Clients \ {c} : client'[d] = client[d]
    <3>1. client[c].pc = "idle"
      BY <1>2 DEF Write
    <3>2. client[c].k = 0
      BY <3>1, Fields
    <3>. QED BY <1>2, <3>2, BeforeLoop
  <2>2. client'[c].buf = Append(old, e) /\ created' = created + 1
    BY <1>0, <1>2, Fields DEF Write, Client
  <2>3. old \in Seq(Entry) /\ Len(old) \in Nat
    BY Fields
  <2>4. e.id = created + 1
    OBVIOUS
  <2>. HIDE DEF e, old
  <2>5. /\ DOMAIN client'[c].buf = 1..(Len(old) + 1)
        /\ \A i \in 1..Len(old) : client'[c].buf[i] = old[i]
        /\ client'[c].buf[Len(old) + 1] = e
    BY <2>2, <2>3
  <2>6. \A d \in Clients : \A i \in DOMAIN client[d].buf : client[d].buf[i].id \in 1..created
    BY Fields
  <2>7. \A d \in Clients : \A i \in DOMAIN client'[d].buf :
          \/ i \in DOMAIN client[d].buf /\ client'[d].buf[i] = client[d].buf[i]
          \/ d = c /\ i = Len(old) + 1 /\ client'[d].buf[i].id = created + 1
    <3>. SUFFICES ASSUME NEW d \in Clients, NEW i \in DOMAIN client'[d].buf
                  PROVE  \/ i \in DOMAIN client[d].buf /\ client'[d].buf[i] = client[d].buf[i]
                         \/ d = c /\ i = Len(old) + 1 /\ client'[d].buf[i].id = created + 1
      OBVIOUS
    <3>1. CASE d # c
      BY <2>1, <3>1
    <3>2. CASE d = c /\ i = Len(old) + 1
      BY <2>4, <2>5, <3>2
    <3>3. CASE d = c /\ i \in 1..Len(old)
      <4>1. DOMAIN client[c].buf = 1..Len(old)
        BY <2>3 DEF old
      <4>. QED BY <2>5, <3>3, <4>1 DEF old
    <3>. QED BY <2>3, <2>5, <3>1, <3>2, <3>3
  <2>8. Apart' /\ \A id : OnDisk(id)' = OnDisk(id)
    BY <1>1, <2>1
  <2>9. ~OnDisk(created + 1)
    BY <1>0 DEF Once, Known, OnDisk, Ids
  <2>10. Known'
    BY <1>0, <2>1, <2>2 DEF Once, Known
  <2>11. \A a, d \in Clients : \A i \in DOMAIN client'[a].buf, j \in DOMAIN client'[d].buf :
           client'[a].buf[i].id = client'[d].buf[j].id => a = d /\ i = j
    <3>. SUFFICES ASSUME NEW a \in Clients, NEW d \in Clients,
                         NEW i \in DOMAIN client'[a].buf, NEW j \in DOMAIN client'[d].buf,
                         client'[a].buf[i].id = client'[d].buf[j].id
                  PROVE  a = d /\ i = j
      OBVIOUS
    <3>1. created + 1 \notin 1..created
      BY <1>0
    <3>. QED BY <2>6, <2>7, <3>1 DEF Once, Awaited
  <2>12. \A d \in Clients : \A i \in DOMAIN client'[d].buf :
           i >= client'[d].k => ~OnDisk(client[d].buf[i].id)'
    <3>. SUFFICES ASSUME NEW d \in Clients, NEW i \in DOMAIN client'[d].buf,
                         i >= client'[d].k
                  PROVE  ~OnDisk(client'[d].buf[i].id)
      BY <2>8
    <3>1. client'[d].k = client[d].k
      BY <2>1
    <3>. QED BY <2>7, <2>9, <3>1 DEF Once, Awaited
  <2>13. \A d \in Clients : client'[d].k > 0 => client'[d] = client[d]
    BY <2>1
  <2>. QED BY <2>8, <2>10, <2>11, <2>12, <2>13 DEF Once, Awaited
<1>3. ASSUME NEW c \in Clients, Flush(c) \/ Close(c) \/ StartFlush(c) PROVE Once'
  <2>1. ~ \E sub \in Subs : Write(c, sub)
    <3>1. Flush(c) \/ Close(c) \/ StartFlush(c) => created' = created
      BY DEF Flush, Close, StartFlush
    <3>2. ASSUME NEW sub \in Subs, Write(c, sub) PROVE created' = created + 1
      BY <3>2 DEF Write
    <3>. QED BY <1>0, <1>3, <3>1, <3>2
  <2>2. /\ file' = file /\ created' = created
        /\ client'[c].k = client[c].k /\ client'[c].pend = client[c].pend
        /\ client'[c].buf = client[c].buf
        /\ \A d \in Clients \ {c} : client'[d] = client[d]
    BY <1>3, <2>1, BeforeLoop
  <2>3. \A d \in Clients : /\ client'[d].k = client[d].k /\ client'[d].pend = client[d].pend
                           /\ client'[d].buf = client[d].buf
    BY <2>2
  <2>4. Apart' /\ \A id : OnDisk(id)' = OnDisk(id)
    BY <1>1, <2>2
  <2>5. Known'
    BY <2>2 DEF Once, Known
  <2>6. Awaited'
    BY <2>3, <2>4 DEF Once, Awaited
  <2>. QED BY <2>4, <2>5, <2>6 DEF Once
<1>4. ASSUME NEW c \in Clients, Open(c) \/ Finalise(c) \/ Crash(c) PROVE Once'
  <2>1. /\ file' = file /\ created' = created
        /\ client'[c].k = 0 /\ client'[c].buf = <<>>
        /\ \A d \in Clients \ {c} : client'[d] = client[d]
    BY <1>4, ObjectStep
  <2>2. Apart' /\ \A id : OnDisk(id)' = OnDisk(id)
    BY <1>1, <2>1
  <2>3. Known'
    BY <2>1 DEF Once, Known
  <2>4. Awaited'
    BY <2>1, <2>2 DEF Once, Awaited
  <2>. QED BY <2>2, <2>3, <2>4 DEF Once
<1>5. ASSUME NEW c \in Clients, AppendNext(c) \/ FinishFlush(c) PROVE Once'
  <2>1. /\ file' = [file EXCEPT ![client[c].seg] = Landed(c)] /\ created' = created
        /\ \A d \in Clients \ {c} : client'[d] = client[d]
    BY <1>5, LoopStep, ReturnStep
  <2>2. /\ Apart' /\ Known'
        /\ \A id : OnDisk(id)' =>
             OnDisk(id) \/ (client[c].k > 0 /\ id = client[c].buf[client[c].k].id)
    BY <2>1, LandsOnce
  <2>3. \/ client'[c].k = 0 /\ client'[c].buf = <<>>
        \/ /\ client[c].k < Len(client[c].buf)
           /\ client'[c].k = client[c].k + 1 /\ client'[c].buf = client[c].buf
           /\ \E line \in Line : /\ client'[c].pend = <<line>>
                                 /\ line.id = client[c].buf[client[c].k + 1].id
    BY <1>5, LoopStep, ReturnStep
  <2>4. /\ client[c].k \in Nat /\ client[c].k \in 0..Len(client[c].buf)
        /\ client[c].k > 0 => client[c].k \in DOMAIN client[c].buf
    BY Fields
  <2>5. \A d \in Clients : \A i \in DOMAIN client'[d].buf :
          i \in DOMAIN client[d].buf /\ client'[d].buf[i] = client[d].buf[i]
    BY <2>1, <2>3
  <2>6. \A d \in Clients : \A i \in DOMAIN client'[d].buf :
          i >= client'[d].k => ~OnDisk(client[d].buf[i].id)'
    <3>. SUFFICES ASSUME NEW d \in Clients, NEW i \in DOMAIN client'[d].buf,
                         i >= client'[d].k, OnDisk(client[d].buf[i].id)'
                  PROVE  FALSE
      OBVIOUS
    <3>1. i \in DOMAIN client[d].buf /\ client'[d].buf[i] = client[d].buf[i] /\ i \in Nat
      BY <2>5, Fields
    <3>2. i >= client[d].k /\ (d = c => i > client[c].k)
      <4>1. CASE d = c
        BY <2>3, <2>4, <3>1, <4>1
      <4>2. CASE d # c
        BY <2>1, <4>2
      <4>. QED BY <4>1, <4>2
    <3>3. ~OnDisk(client[d].buf[i].id)
      BY <3>1, <3>2 DEF Once, Awaited
    <3>4. client[c].k > 0 /\ client[d].buf[i].id = client[c].buf[client[c].k].id
      BY <2>2, <3>1, <3>3
    <3>5. d = c /\ i = client[c].k
      BY <2>4, <3>1, <3>4 DEF Once, Awaited
    <3>. QED BY <2>4, <3>2, <3>5
  <2>7. \A a, d \in Clients : \A i \in DOMAIN client'[a].buf, j \in DOMAIN client'[d].buf :
          client'[a].buf[i].id = client'[d].buf[j].id => a = d /\ i = j
    BY <2>5 DEF Once, Awaited
  <2>8. \A d \in Clients : client'[d].k > 0 =>
          \E line \in Line : /\ client'[d].pend = <<line>>
                             /\ line.id = client'[d].buf[client'[d].k].id
    BY <2>1, <2>3 DEF Once, Awaited
  <2>. QED BY <2>2, <2>6, <2>7, <2>8 DEF Once, Awaited
<1>6. CASE Tick \/ UNCHANGED vars
  <2>1. file' = file /\ client' = client /\ created' = created
    BY <1>6 DEF Tick, vars
  <2>. QED BY <2>1 DEF Once, Apart, Awaited, Known, OnDisk
<1>7. \A c \in Clients : ~FlushFails(c)
  BY ErrorStays
<1>. QED BY <1>2, <1>3, <1>4, <1>5, <1>6, <1>7, StepCases, Zenon

\* As long as no flush fails, no entry is written twice: not by two clients on one
\* segment, not by a flush that is cut by a crash and followed by another, and not
\* around a rotation.
THEOREM WrittenOnce == Spec => []TwiceOnlyAfterError
<1>. DEFINE Inv == TypeOK /\ (errors = 0 => Once)
<1>1. Init => Inv
  <2>1. Init => /\ \A t \in Segments : file[t] = <<>>
                /\ \A c \in Clients : client[c].buf = <<>> /\ client[c].k = 0
    BY DEF Init, NoClient
  <2>. QED BY <2>1, TypeInit DEF Once, Apart, Awaited, Known
<1>2. Inv /\ [Next]_vars => Inv'
  <2>. SUFFICES ASSUME TypeOK, errors = 0 => Once, [Next]_vars
                PROVE  TypeOK' /\ (errors' = 0 => Once')
    OBVIOUS
  <2>. QED BY TypeNext, ErrorStays, OnceNext
<1>3. Inv => TwiceOnlyAfterError
  BY DEF TypeOK, Once, Apart, TwiceOnlyAfterError
<1>. QED BY <1>1, <1>2, <1>3, PTL DEF Spec

-----------------------------------------------------------------------------
(* The two verifiers, with several clients and rotations.                   *)

\* Some line on disk was written by a client that knew of none before it.
Root == \E t \in Segments : \E i \in DOMAIN file[t] : file[t][i].prev = <<>>

\* The pending line of the client is such a line.
RootPending(r) == \E line \in Line : r.pend = <<line>> /\ line.prev = <<>>

\* Whatever a client builds on has its root on disk, or pending in its own handle;
\* so has what it is about to let land.
Rooted ==
  /\ (\E t \in Segments : file[t] # <<>>) => Root
  /\ \A c \in Clients :
       /\ client[c].last = <<>> \/ RootPending(client[c]) \/ Root
       /\ client[c].pend = <<>> \/ RootPending(client[c]) \/ Root

\* A hash is never the empty one that a first line is linked to.
LEMMA HashNotEmpty == ASSUME NEW line \in Line PROVE HashOf(line) # <<>>
<1>1. line.prev \in Seq(Nat) /\ line.id \in Nat
  BY DEF Line, Hashes
<1>2. Len(Append(line.prev, line.id)) = Len(line.prev) + 1 /\ Len(line.prev) \in Nat
  BY <1>1
<1>3. Len(<<>>) = 0
  OBVIOUS
<1>4. Append(line.prev, line.id) # <<>>
  <2>. SUFFICES ASSUME Append(line.prev, line.id) = <<>> PROVE FALSE
    OBVIOUS
  <2>1. Len(Append(line.prev, line.id)) = 0
    BY <1>3, Zenon
  <2>. QED BY <1>2, <2>1
<1>. QED BY <1>4 DEF HashOf

LEMMA RootStays ==
  ASSUME TypeOK, [Next]_vars, Root
  PROVE  Root'
<1>1. PICK t \in Segments : \E i \in DOMAIN file[t] : file[t][i].prev = <<>>
  BY DEF Root
<1>2. PICK i \in DOMAIN file[t] : file[t][i].prev = <<>>
  BY <1>1
<1>3. file[t] \in Seq(Line) /\ file'[t] \in Seq(Line)
  BY TypeNext DEF TypeOK
<1>4. i \in DOMAIN file'[t] /\ file'[t][i] = file[t][i]
  BY <1>2, <1>3, FilesExtend DEF Extends
<1>. QED BY <1>2, <1>4 DEF Root

\* Once the pending line has landed, whatever the client builds on has its root on
\* disk.
LEMMA RootLands ==
  ASSUME TypeOK, [Next]_vars, Rooted, NEW c \in Clients,
         file' = [file EXCEPT ![client[c].seg] = Landed(c)]
  PROVE  /\ client[c].last = <<>> \/ Root'
         /\ (\E t \in Segments : file'[t] # <<>>) => Root'
<1>0. /\ file \in [Segments -> Seq(Line)] /\ client[c].seg \in Segments
      /\ file[client[c].seg] \in Seq(Line)
  BY Fields DEF TypeOK
<1>1. CASE Root
  BY <1>1, RootStays
<1>2. CASE RootPending(client[c])
  <2>. DEFINE lines == file[client[c].seg]
  <2>1. PICK line \in Line : client[c].pend = <<line>> /\ line.prev = <<>>
    BY <1>2 DEF RootPending
  <2>2. file'[client[c].seg] = lines \o <<line>> /\ lines \in Seq(Line)
    BY <1>0, <2>1 DEF Landed
  <2>. HIDE DEF lines
  <2>3. /\ Len(lines) + 1 \in DOMAIN (lines \o <<line>>)
        /\ (lines \o <<line>>)[Len(lines) + 1] = line
    BY <2>2
  <2>. QED BY <1>0, <2>1, <2>2, <2>3 DEF Root
<1>3. CASE ~Root /\ ~RootPending(client[c])
  <2>1. client[c].last = <<>> /\ client[c].pend = <<>> /\ \A t \in Segments : file[t] = <<>>
    BY <1>3 DEF Rooted
  <2>2. file'[client[c].seg] = <<>>
    BY <1>0, <2>1, ConcatEmpty DEF Landed
  <2>3. \A t \in Segments : file'[t] = <<>>
    BY <1>0, <2>1, <2>2
  <2>. QED BY <2>1, <2>3
<1>. QED BY <1>1, <1>2, <1>3

LEMMA RootedNext ==
  ASSUME TypeOK, Rooted, [Next]_vars, errors' = 0
  PROVE  Rooted'
<1>0. Root => Root'
  BY RootStays
<1>1. ASSUME NEW c \in Clients,
             \/ (\E sub \in Subs : Write(c, sub)) \/ Flush(c) \/ Close(c)
             \/ StartFlush(c)
      PROVE  Rooted'
  <2>1. /\ file' = file
        /\ client'[c].last = client[c].last /\ client'[c].pend = client[c].pend
        /\ \A d \in Clients \ {c} : client'[d] = client[d]
    BY <1>1, BeforeLoop
  <2>. QED BY <2>1 DEF Rooted, RootPending, Root
<1>2. ASSUME NEW c \in Clients, Open(c) \/ Finalise(c) \/ Crash(c) PROVE Rooted'
  <2>1. /\ file' = file /\ client'[c].pend = <<>>
        /\ client'[c].last = <<>> \/ client'[c].last = LastHash(file[0])
        /\ \A d \in Clients \ {c} : client'[d] = client[d]
    BY <1>2, ObjectStep
  <2>2. LastHash(file[0]) # <<>> => Root
    BY BaseSegment DEF LastHash, Rooted
  <2>. QED BY <1>0, <2>1, <2>2 DEF Rooted, RootPending
<1>3. ASSUME NEW c \in Clients, AppendNext(c) \/ FinishFlush(c) PROVE Rooted'
  <2>1. /\ file' = [file EXCEPT ![client[c].seg] = Landed(c)]
        /\ \A d \in Clients \ {c} : client'[d] = client[d]
    BY <1>3, LoopStep, ReturnStep
  <2>2. /\ client[c].last = <<>> \/ Root'
        /\ (\E t \in Segments : file'[t] # <<>>) => Root'
    BY <2>1, RootLands
  <2>3. /\ client'[c].last = <<>> \/ RootPending(client'[c]) \/ Root'
        /\ client'[c].pend = <<>> \/ RootPending(client'[c]) \/ Root'
    <3>1. CASE FinishFlush(c)
      BY <2>2, <3>1, ReturnStep
    <3>2. CASE AppendNext(c)
      <4>1. NextLine(c) \in Line /\ NextLine(c).prev = client[c].last
            /\ client'[c].pend = <<NextLine(c)>>
        BY <3>2, LoopStep
      <4>. QED BY <2>2, <4>1 DEF RootPending
    <3>. QED BY <1>3, <3>1, <3>2
  <2>4. \A d \in Clients \ {c} :
          /\ client'[d].last = <<>> \/ RootPending(client'[d]) \/ Root'
          /\ client'[d].pend = <<>> \/ RootPending(client'[d]) \/ Root'
    BY <1>0, <2>1 DEF Rooted
  <2>. QED BY <2>2, <2>3, <2>4 DEF Rooted, RootPending
<1>4. CASE Tick \/ UNCHANGED vars
  <2>1. file' = file /\ client' = client
    BY <1>4 DEF Tick, vars
  <2>. QED BY <2>1 DEF Rooted, RootPending, Root
<1>5. \A c \in Clients : ~FlushFails(c)
  BY ErrorStays
<1>. QED BY <1>1, <1>2, <1>3, <1>4, <1>5, StepCases, Zenon

\* Among segments there is one that is listed after the others.
LEMMA NewestExists ==
  ASSUME NEW S \in SUBSET Segments, S # {}
  PROVE  Newest(S) \in S
<1>1. \E t \in S : \A s \in S \ {t} : ListedBefore(s, t)
  <2>1. CASE 0 \in S
    BY <2>1 DEF ListedBefore
  <2>2. CASE 0 \notin S
    <3>. DEFINE R == OpToRel(<, Nat)
                T == {k \in Nat : MaxNow - k \in S}
    <3>1. IsWellFoundedOn(R, Nat)
      BY NatLessThanWellFounded
    <3>2. T # {}
      <4>1. PICK x \in S : TRUE
        OBVIOUS
      <4>2. MaxNow - x \in T
        BY <4>1 DEF Segments
      <4>. QED BY <4>2
    <3>3. PICK m \in T : \A y \in T : ~ (<<y, m>> \in R)
      <4>. HIDE DEF R
      <4>. QED BY <3>1, <3>2, WFMin
    <3>4. \A y \in T : ~ (y < m)
      BY <3>3 DEF OpToRel
    <3>5. MaxNow - m \in S /\ \A s \in S \ {MaxNow - m} : s # 0 /\ s < MaxNow - m
      <4>1. ASSUME NEW s \in S PROVE MaxNow - s \in T
        BY DEF Segments
      <4>. QED BY <2>2, <3>4, <4>1 DEF Segments
    <3>. QED BY <3>5 DEF ListedBefore
  <2>. QED BY <2>1, <2>2
<1>. QED BY <1>1 DEF Newest

\* What links to a line before it is no root.
LEMMA LinkedIsNoRoot ==
  ASSUME TypeOK, NEW t \in Segments, NEW i \in DOMAIN file[t],
         i > 1 \/ ReadBefore(t) # {}, Linked(t, i)
  PROVE  file[t][i].prev # <<>>
<1>1. file \in [Segments -> Seq(Line)]
  BY DEF TypeOK
<1>2. CASE i > 1
  <2>1. file[t] \in Seq(Line) /\ i - 1 \in 1..Len(file[t])
    BY <1>1, <1>2
  <2>2. file[t][i - 1] \in Line
    BY <2>1
  <2>. QED BY <1>2, <2>2, HashNotEmpty DEF Linked, HashBefore
<1>3. CASE ~(i > 1)
  <2>. DEFINE s == Newest(ReadBefore(t))
  <2>1. ReadBefore(t) \in SUBSET Segments /\ ReadBefore(t) # {}
    BY <1>3 DEF ReadBefore
  <2>2. s \in ReadBefore(t)
    BY <2>1, NewestExists
  <2>3. s \in Segments /\ file[s] # <<>>
    BY <2>2 DEF ReadBefore
  <2>. HIDE DEF s
  <2>4. file[s] \in Seq(Line) /\ Len(file[s]) \in 1..Len(file[s])
    BY <1>1, <2>3
  <2>5. file[s][Len(file[s])] \in Line
    BY <2>4
  <2>6. LastHash(file[s]) # <<>>
    BY <2>3, <2>5, HashNotEmpty DEF LastHash
  <2>7. HashBefore(t, i) = LastHash(file[s])
    BY <1>3, <2>1 DEF HashBefore, s
  <2>. QED BY <2>6, <2>7 DEF Linked
<1>. QED BY <1>2, <1>3

\* The parallel verifier compares the first line of all with nothing.  If that
\* line is no root, the root is further on, where it is linked to nothing.
LEMMA ParallelIsEnough ==
  ASSUME TypeOK, Rooted, VerifyChainParallel
  PROVE  VerifyChain
<1>0. file \in [Segments -> Seq(Line)]
  BY DEF TypeOK
<1>1. SUFFICES ASSUME NEW t \in Segments, NEW i \in DOMAIN file[t] PROVE Linked(t, i)
  BY DEF VerifyChain
<1>2. CASE i > 1 \/ ReadBefore(t) # {}
  BY <1>2 DEF VerifyChainParallel
<1>3. CASE ~(i > 1) /\ ReadBefore(t) = {}
  <2>1. file[t] # <<>> /\ i = 1
    BY <1>0, <1>3
  <2>2. PICK r \in Segments : \E j \in DOMAIN file[r] : file[r][j].prev = <<>>
    BY <2>1 DEF Rooted, Root
  <2>3. PICK j \in DOMAIN file[r] : file[r][j].prev = <<>>
    BY <2>2
  <2>4. ~(j > 1) /\ ReadBefore(r) = {}
    BY <2>3, LinkedIsNoRoot DEF VerifyChainParallel
  <2>5. file[r] # <<>> /\ j = 1
    BY <1>0, <2>3, <2>4
  <2>6. r = t
    BY <1>3, <2>1, <2>4, <2>5 DEF ReadBefore, ListedBefore, Segments
  <2>. QED BY <1>3, <2>1, <2>3, <2>5, <2>6 DEF Linked, HashBefore
<1>. QED BY <1>2, <1>3

\* The segment-parallel verifier, which skips the very first line, gives the verdict
\* of the sequential one: with any number of clients that write over each other's
\* cached heads, rotations and crashes, as long as no flush fails.
THEOREM VerifiersAlwaysAgree == Spec => []VerifiersAgree
<1>. DEFINE Inv == TypeOK /\ (errors = 0 => Rooted)
<1>1. Init => Inv
  <2>1. Init => /\ \A t \in Segments : file[t] = <<>>
                /\ \A c \in Clients : client[c].last = <<>> /\ client[c].pend = <<>>
    BY DEF Init, NoClient
  <2>. QED BY <2>1, TypeInit DEF Rooted
<1>2. Inv /\ [Next]_vars => Inv'
  <2>. SUFFICES ASSUME TypeOK, errors = 0 => Rooted, [Next]_vars
                PROVE  TypeOK' /\ (errors' = 0 => Rooted')
    OBVIOUS
  <2>. QED BY TypeNext, ErrorStays, RootedNext
<1>3. Inv => VerifiersAgree
  <2>1. VerifyChain => VerifyChainParallel
    BY DEF VerifyChain, VerifyChainParallel
  <2>. QED BY <2>1, ParallelIsEnough DEF VerifiersAgree
<1>. QED BY <1>1, <1>2, <1>3, PTL DEF Spec

=============================================================================
