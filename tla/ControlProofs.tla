--------------------------- MODULE ControlProofs ---------------------------
(***************************************************************************)
(* The audit log, the allowlist and the drafts, for any number of writers, *)
(* calls, recipients, files and boots, of drafts and clients.              *)
(*                                                                         *)
(* The log.  A line goes on only if it is the last of its file and was     *)
(* cut, and a row that begins a line carries the hash of the line before:  *)
(* the open log keeps the hash of the last line as long as that line is    *)
(* complete (ChainInv), unless a panic took the file away; a first row may *)
(* then go on a chain from elsewhere.  Both halves of VerifyTells follow   *)
(* for one file at a time (LogFile), and what is written is taken out of a *)
(* file by a rename in its second or a panic alone, which is AckedIsKept.  *)
(*                                                                         *)
(* The allowlist.  Memory and file may differ only while something is on   *)
(* its way: a notification, the timer, a call, or a reload that read what  *)
(* the file still holds (Settling); a reload that nothing overlapped has   *)
(* read the file, or another one is due (SureInv).                         *)
(*                                                                         *)
(* The drafts.  The table implements Review: a step of the store maps to   *)
(* one step of Review or to a stutter, from DraftInv: a call that will     *)
(* create a draft has an id that no row and no other such call has, and no *)
(* time a call or a sweep brings to the store is later than the clock.     *)
(***************************************************************************)
EXTENDS Control, FiniteSetTheorems, TLAPS

-----------------------------------------------------------------------------
(* The invariant of the log *)

Hashes == Seq(Nat)
Writes == {w \in [row : Nat, prev : Hashes, mac : Hashes, cut : Cuts \cup {"no"}] :
             w.mac = Append(w.prev, w.row)}
Lines == Seq(Seq(Writes))

HashBefore(file, i) == IF i = 1 THEN Genesis ELSE HashAfter(file[i - 1])

\* Lines are not empty, only the last may be cut, and a line of one write carries
\* the hash of the line before, the first perhaps one of sev.
LogFile(file, sev) ==
    /\ file \in Lines
    /\ \A i \in DOMAIN file :
         /\ file[i] # <<>>
         /\ i < Len(file) => Complete(file[i])
         /\ Len(file[i]) = 1 => \/ file[i][1].prev = HashBefore(file, i)
                                \/ i = 1 /\ file[1][1].prev \in sev

StoreTypes == [running : BOOLEAN, open : BOOLEAN, linked : BOOLEAN, panicDone : BOOLEAN,
               last : Hashes, lastTS : Nat]

LogTypes ==
    /\ store \in StoreTypes
    /\ event \in [Callers -> Nat] /\ rows \in Nat
    /\ Genesis \notin severed

FilesInv == LogFile(live, severed) /\ \A s \in DOMAIN rotated : LogFile(rotated[s], severed)

\* The hash the next line of the file must carry, or may if it is the first.
Goes(last, file, sev) == last = tailLastHMAC(file) \/ (file = <<>> /\ last \in sev)

\* The open log has the hash the next line must carry, and nothing is at the path
\* when the open file is not.
ChainInv ==
    /\ store.open /\ store.linked /\ (live = <<>> \/ Complete(Last(live)))
          => Goes(store.last, live, severed)
    /\ store.open /\ ~store.linked => live = <<>>

LogInv == LogTypes /\ FilesInv /\ ChainInv /\ AckedIsKept

-----------------------------------------------------------------------------
(* One file *)

LEMMA WriteFields ==
    ASSUME NEW w \in Writes
    PROVE  /\ w.row \in Nat /\ w.prev \in Hashes /\ w.mac \in Hashes
           /\ w.mac = Append(w.prev, w.row) /\ w.cut \in Cuts \cup {"no"}
BY DEF Writes

\* What is written under the lock.
LEMMA WrittenFields ==
    ASSUME NEW row \in Nat, NEW prev \in Hashes, NEW cut \in Cuts \cup {"no"}
    PROVE  LET w == Written(row, prev, cut)
           IN  w \in Writes /\ w.row = row /\ w.prev = prev /\ w.cut = cut
               /\ w.mac = Mac(prev, row)
<1>1. Append(prev, row) \in Hashes
    BY DEF Hashes
<1> QED BY <1>1 DEF Written, Mac, Writes

\* The hash of a complete line is the one its last write recorded.
LEMMA CompleteLine ==
    ASSUME NEW line \in Seq(Writes), line # <<>>, Complete(line)
    PROVE  /\ ~PreChain(line)
           /\ HashAfter(line) = line[Len(line)].mac
           /\ HashAfter(line) \in Hashes
           /\ Len(line) \in DOMAIN line
<1>1. Len(line) \in DOMAIN line /\ line[Len(line)].cut = "no" /\ DOMAIN line = 1..Len(line)
      /\ Len(line) \in Nat
    BY DEF Complete, Last
<1>2. Len(line) \in Tagged(line)
    BY <1>1 DEF Tagged
<1>3. Tagged(line) \subseteq DOMAIN line
    BY DEF Tagged
<1>4. \A m \in Tagged(line) : m <= Len(line)
    BY <1>1, <1>3
<1>5. LastTag(line) \in Tagged(line) /\ Len(line) <= LastTag(line)
  <2>1. \E k \in Tagged(line) : \A m \in Tagged(line) : m <= k
    BY <1>2, <1>4
  <2> QED BY <1>2, <2>1 DEF LastTag
<1>6. LastTag(line) = Len(line)
    BY <1>1, <1>3, <1>4, <1>5
<1>7. ~PreChain(line) /\ HashAfter(line) = line[Len(line)].mac
    BY <1>2, <1>6 DEF PreChain, HashAfter
<1>8. line[Len(line)] \in Writes
    BY <1>1
<1> QED BY <1>1, <1>7, <1>8, WriteFields

LEMMA TailHash ==
    ASSUME NEW file, NEW sev, LogFile(file, sev)
    PROVE  tailLastHMAC(file) \in Hashes
<1>1. CASE file = <<>> \/ ~Complete(Last(file))
    BY <1>1 DEF tailLastHMAC, Genesis, Hashes
<1>2. CASE file # <<>> /\ Complete(Last(file))
  <2>1. Len(file) \in DOMAIN file
    BY <1>2 DEF LogFile, Lines
  <2>2. Last(file) \in Seq(Writes) /\ Last(file) # <<>>
    BY <2>1 DEF Last, LogFile, Lines
  <2> QED BY <1>2, <2>2, CompleteLine DEF tailLastHMAC
<1> QED BY <1>1, <1>2

\* What is in a file, write by write.
LEMMA RowOf ==
    ASSUME NEW file, NEW i \in DOMAIN file, NEW k \in DOMAIN file[i]
    PROVE  file[i][k].row \in RowsOf(file)
BY DEF RowsOf, Range

LEMMA RowIn ==
    ASSUME NEW file, NEW r \in RowsOf(file)
    PROVE  \E i \in DOMAIN file : \E k \in DOMAIN file[i] : file[i][k].row = r
BY DEF RowsOf, Range

\* A write that begins a line.
LEMMA NewLine ==
    ASSUME NEW file, NEW sev, LogFile(file, sev), NEW w \in Writes,
           file = <<>> \/ Complete(Last(file)),
           Goes(w.prev, file, sev)
    PROVE  LET f == Append(file, <<w>>)
           IN  /\ LogFile(f, sev) /\ f # <<>> /\ Last(f) \in Seq(Writes) /\ Last(f) # <<>>
               /\ Last(Last(f)) = w
               /\ RowsOf(file) \cup {w.row} \subseteq RowsOf(f)
<1> DEFINE f == Append(file, <<w>>)
<1>1. /\ file \in Seq(Seq(Writes)) /\ <<w>> \in Seq(Writes)
      /\ Len(<<w>>) = 1 /\ <<w>>[1] = w /\ <<w>> # <<>> /\ 1 \in DOMAIN <<w>>
    BY DEF LogFile, Lines
<1>2. /\ f \in Seq(Seq(Writes)) /\ Len(f) = Len(file) + 1 /\ Len(file) \in Nat
      /\ DOMAIN f = 1..(Len(file) + 1) /\ DOMAIN file = 1..Len(file)
      /\ f[Len(file) + 1] = <<w>>
      /\ \A i \in DOMAIN file : f[i] = file[i]
    BY <1>1
<1> HIDE DEF f
<1>3. ASSUME NEW i \in DOMAIN f
      PROVE  /\ f[i] # <<>> /\ (i < Len(f) => Complete(f[i]))
             /\ Len(f[i]) = 1 => \/ f[i][1].prev = HashBefore(f, i)
                                 \/ i = 1 /\ f[1][1].prev \in sev
  <2>1. CASE i \in DOMAIN file
    <3>1. HashBefore(f, i) = HashBefore(file, i)
        BY <1>2, <2>1 DEF HashBefore
    <3>2. i < Len(file) \/ i = Len(file)
        BY <1>2, <2>1
    <3>3. i = Len(file) => Complete(f[i])
        BY <1>2, <2>1 DEF Last
    <3>4. Len(file[i]) = 1 => \/ file[i][1].prev = HashBefore(file, i)
                              \/ i = 1 /\ file[1][1].prev \in sev
        BY <2>1 DEF LogFile
    <3> QED BY <1>2, <2>1, <3>1, <3>2, <3>3, <3>4 DEF LogFile
  <2>2. CASE i = Len(file) + 1
    <3>1. HashBefore(f, i) = tailLastHMAC(file)
      <4>1. CASE file = <<>>
        BY <2>2, <4>1 DEF HashBefore, tailLastHMAC
      <4>2. CASE file # <<>>
        <5>1. Len(file) \in DOMAIN file /\ i # 1 /\ i - 1 = Len(file)
            BY <1>1, <1>2, <2>2, <4>2
        <5> QED BY <1>2, <4>2, <5>1 DEF HashBefore, tailLastHMAC, Last
      <4> QED BY <4>1, <4>2
    <3>2. file = <<>> => i = 1
        BY <2>2
    <3> QED BY <1>1, <1>2, <2>2, <3>1, <3>2 DEF Goes
  <2> QED BY <1>2, <2>1, <2>2
<1>4. LogFile(f, sev)
    BY <1>2, <1>3 DEF LogFile, Lines
<1>5. f # <<>> /\ Last(f) = <<w>>
    BY <1>2 DEF Last
<1>6. Last(Last(f)) = w
    BY <1>1, <1>5 DEF Last
<1>7. w.row \in RowsOf(f)
    BY <1>1, <1>2, RowOf
<1>8. RowsOf(file) \subseteq RowsOf(f)
  <2> SUFFICES ASSUME NEW r \in RowsOf(file) PROVE r \in RowsOf(f)
    OBVIOUS
  <2>0. PICK i \in DOMAIN file : \E k \in DOMAIN file[i] : file[i][k].row = r
    BY RowIn
  <2>1. PICK k \in DOMAIN file[i] : file[i][k].row = r
    BY <2>0
  <2>2. i \in DOMAIN f /\ f[i] = file[i]
    BY <1>2
  <2> QED BY <2>1, <2>2, RowOf
<1> QED BY <1>1, <1>4, <1>5, <1>6, <1>7, <1>8 DEF f

\* A write that goes on with a cut line.
LEMMA OldLine ==
    ASSUME NEW file, NEW sev, LogFile(file, sev), NEW w \in Writes, file # <<>>
    PROVE  LET f == Append(Front(file), Append(Last(file), w))
           IN  /\ LogFile(f, sev) /\ f # <<>> /\ Last(f) \in Seq(Writes) /\ Last(f) # <<>>
               /\ Last(Last(f)) = w
               /\ RowsOf(file) \cup {w.row} \subseteq RowsOf(f)
<1> DEFINE n == Len(file)
           g == Append(Last(file), w)
           f == Append(Front(file), g)
<1>1. /\ file \in Seq(Seq(Writes)) /\ n \in Nat \ {0} /\ n \in DOMAIN file
      /\ DOMAIN file = 1..n
    BY DEF LogFile, Lines
<1>2. Last(file) = file[n] /\ file[n] \in Seq(Writes) /\ file[n] # <<>>
  <2>1. Last(file) = file[n]
    BY DEF Last
  <2>2. file[n] # <<>>
    BY <1>1 DEF LogFile
  <2> QED BY <1>1, <2>1, <2>2
<1>3. /\ g \in Seq(Writes) /\ Len(g) = Len(file[n]) + 1 /\ Len(file[n]) \in Nat \ {0}
      /\ g[Len(g)] = w /\ Len(g) \in DOMAIN g /\ g # <<>> /\ Len(g) # 1
      /\ \A k \in DOMAIN file[n] : k \in DOMAIN g /\ g[k] = file[n][k]
    BY <1>2
<1> HIDE DEF g
<1>4. /\ Front(file) \in Seq(Seq(Writes)) /\ Len(Front(file)) = n - 1
      /\ \A i \in 1..(n - 1) : Front(file)[i] = file[i]
    BY <1>1 DEF Front
<1>5. /\ f \in Seq(Seq(Writes)) /\ Len(f) = n /\ DOMAIN f = 1..n /\ f[n] = g
      /\ \A i \in 1..(n - 1) : f[i] = file[i]
  <2>1. PICK h : h = Front(file)
    OBVIOUS
  <2>0. h \in Seq(Seq(Writes)) /\ Len(h) = n - 1 /\ n \in Nat \ {0}
    BY <1>1, <1>4, <2>1
  <2> HIDE DEF n
  <2>2. h \in Seq(Seq(Writes)) /\ Len(h) = n - 1 /\ Len(h) \in Nat /\ n = Len(h) + 1
    BY <2>0
  <2>3. /\ Append(h, g) \in Seq(Seq(Writes)) /\ Len(Append(h, g)) = Len(h) + 1
        /\ DOMAIN Append(h, g) = 1..(Len(h) + 1) /\ Append(h, g)[Len(h) + 1] = g
        /\ \A i \in 1..Len(h) : Append(h, g)[i] = h[i]
    BY <1>3, <2>2
  <2> QED BY <1>4, <2>1, <2>2, <2>3
<1> HIDE DEF f
<1>6. ASSUME NEW i \in DOMAIN f
      PROVE  /\ f[i] # <<>> /\ (i < Len(f) => Complete(f[i]))
             /\ Len(f[i]) = 1 => \/ f[i][1].prev = HashBefore(f, i)
                                 \/ i = 1 /\ f[1][1].prev \in sev
  <2>1. CASE i \in 1..(n - 1)
    <3>1. HashBefore(f, i) = HashBefore(file, i)
        BY <1>1, <1>5, <2>1 DEF HashBefore
    <3>2. i \in DOMAIN file /\ i < n /\ f[i] = file[i]
        BY <1>1, <1>5, <2>1
    <3>3. i = 1 => f[1] = file[1]
        BY <3>2
    <3> QED BY <1>5, <3>1, <3>2, <3>3 DEF LogFile
  <2>2. CASE i = n
    <3>1. f[i] = g /\ ~(i < Len(f))
        BY <1>1, <1>5, <2>2
    <3> QED BY <1>3, <3>1
  <2> QED BY <1>1, <1>5, <2>1, <2>2
<1>7. LogFile(f, sev)
    BY <1>5, <1>6 DEF LogFile, Lines
<1>8. f # <<>> /\ Last(f) = g /\ Last(g) = w
    BY <1>1, <1>3, <1>5 DEF Last
<1>9. w.row \in RowsOf(f)
    BY <1>1, <1>3, <1>5, RowOf
<1>10. RowsOf(file) \subseteq RowsOf(f)
  <2> SUFFICES ASSUME NEW r \in RowsOf(file) PROVE r \in RowsOf(f)
    OBVIOUS
  <2>0. PICK i \in DOMAIN file : \E k \in DOMAIN file[i] : file[i][k].row = r
    BY RowIn
  <2>1. PICK k \in DOMAIN file[i] : file[i][k].row = r
    BY <2>0
  <2>2. i \in DOMAIN f /\ k \in DOMAIN f[i] /\ f[i][k] = file[i][k]
    <3>1. i = n \/ i \in 1..(n - 1)
        BY <1>1
    <3>2. i \in DOMAIN f
        BY <1>1, <1>5
    <3> QED BY <1>3, <1>5, <3>1, <3>2
  <2> QED BY <2>1, <2>2, RowOf
<1> QED BY <1>3, <1>7, <1>8, <1>9, <1>10 DEF f, g

\* A write keeps a file in order and loses no row of it.
LEMMA WriteKept ==
    ASSUME NEW file, NEW sev, LogFile(file, sev), NEW w \in Writes,
           file = <<>> \/ Complete(Last(file)) => Goes(w.prev, file, sev)
    PROVE  LET f == AppendTo(file, w)
           IN  /\ LogFile(f, sev)
               /\ RowsOf(file) \cup {w.row} \subseteq RowsOf(f)
               /\ f # <<>>
               /\ w.cut = "no" => Complete(Last(f)) /\ tailLastHMAC(f) = w.mac
               /\ w.cut # "no" => ~Complete(Last(f))
<1>1. PICK f : f = AppendTo(file, w)
    OBVIOUS
<1>2. /\ LogFile(f, sev) /\ f # <<>> /\ Last(f) \in Seq(Writes) /\ Last(f) # <<>>
      /\ Last(Last(f)) = w
      /\ RowsOf(file) \cup {w.row} \subseteq RowsOf(f)
  <2>1. CASE file = <<>> \/ Complete(Last(file))
    BY <1>1, <2>1, NewLine DEF AppendTo
  <2>2. CASE ~(file = <<>> \/ Complete(Last(file)))
    BY <1>1, <2>2, OldLine DEF AppendTo
  <2> QED BY <2>1, <2>2
<1>3. ASSUME w.cut = "no" PROVE Complete(Last(f)) /\ tailLastHMAC(f) = w.mac
  <2>1. Complete(Last(f))
    BY <1>2, <1>3 DEF Complete
  <2>2. HashAfter(Last(f)) = Last(Last(f)).mac
    BY <1>2, <2>1, CompleteLine DEF Last
  <2> QED BY <1>2, <2>1, <2>2 DEF tailLastHMAC
<1>4. ASSUME w.cut # "no" PROVE ~Complete(Last(f))
    BY <1>2, <1>4 DEF Complete
<1> QED BY <1>1, <1>2, <1>3, <1>4

\* The sequence without its i-th element.
LEMMA Removed ==
    ASSUME NEW S, NEW s \in Seq(S), NEW i \in DOMAIN s
    PROVE  /\ Len(RemoveAt(s, i)) = Len(s) - 1 /\ DOMAIN RemoveAt(s, i) = 1..(Len(s) - 1)
           /\ \A k \in 1..(i - 1) : RemoveAt(s, i)[k] = s[k]
           /\ \A k \in i..(Len(s) - 1) : RemoveAt(s, i)[k] = s[k + 1]
<1> DEFINE a == SubSeq(s, 1, i - 1)
           b == SubSeq(s, i + 1, Len(s))
<1>1. i \in 1..Len(s) /\ Len(s) \in Nat
    OBVIOUS
<1>2. a \in Seq(S) /\ Len(a) = i - 1 /\ \A k \in 1..(i - 1) : a[k] = s[k]
    BY <1>1
<1>3. b \in Seq(S) /\ Len(b) = Len(s) - i /\ \A k \in 1..(Len(s) - i) : b[k] = s[k + i]
    BY <1>1
<1> HIDE DEF a, b
<1>4. /\ Len(a \o b) = Len(a) + Len(b) /\ DOMAIN (a \o b) = 1..(Len(a) + Len(b))
      /\ \A k \in 1..Len(a) : (a \o b)[k] = a[k]
      /\ \A k \in (Len(a) + 1)..(Len(a) + Len(b)) : (a \o b)[k] = b[k - Len(a)]
  <2>1. a \in Seq(S) /\ b \in Seq(S) /\ Len(a) \in Nat /\ Len(b) \in Nat
    BY <1>2, <1>3
  <2>2. Len(a \o b) = Len(a) + Len(b) /\ a \o b \in Seq(S)
    BY <2>1
  <2>3. DOMAIN (a \o b) = 1..(Len(a) + Len(b))
    BY <2>2
  <2>4. \A k \in 1..Len(a) : (a \o b)[k] = a[k]
    BY <2>1
  <2>5. \A k \in (Len(a) + 1)..(Len(a) + Len(b)) : (a \o b)[k] = b[k - Len(a)]
    BY <2>1
  <2> QED BY <2>2, <2>3, <2>4, <2>5
<1>5. RemoveAt(s, i) = a \o b
    BY DEF RemoveAt, a, b
<1>6. Len(a) + Len(b) = Len(s) - 1
    BY <1>1, <1>2, <1>3
<1>7. ASSUME NEW k \in i..(Len(s) - 1) PROVE (a \o b)[k] = s[k + 1]
  <2>1. k \in (Len(a) + 1)..(Len(a) + Len(b)) /\ k - Len(a) = k - i + 1
        /\ k - i + 1 \in 1..(Len(s) - i) /\ k - i + 1 + i = k + 1
    BY <1>1, <1>2, <1>3
  <2> QED BY <1>3, <1>4, <2>1
<1> QED BY <1>1, <1>2, <1>4, <1>5, <1>6, <1>7

LEMMA OneElement ==
    ASSUME NEW S, NEW s \in Seq(S), Len(s) = 1
    PROVE  1 \in DOMAIN s /\ DOMAIN s = {1} /\ s[1] \in S
<1>1. DOMAIN s = 1..1
    OBVIOUS
<1>2. DOMAIN s = {1} /\ 1 \in DOMAIN s
    BY <1>1
<1> QED BY <1>2

\* What verify makes of a file in order.
LEMMA FileTells ==
    ASSUME NEW file, LogFile(file, severed), Genesis \notin severed
    PROVE  /\ VerifyChain(file) <=> Undamaged(file)
           /\ VerifyChain(file) =>
                \A i \in DOMAIN file :
                    (\E j \in DOMAIN file : j > i /\ ~PreChain(file[j]))
                        => ~VerifyChain(RemoveAt(file, i))
<1>1. /\ file \in Seq(Seq(Writes)) /\ DOMAIN file = 1..Len(file) /\ Len(file) \in Nat
      /\ \A i \in DOMAIN file : file[i] \in Seq(Writes)
    BY DEF LogFile, Lines
<1>2. VerifyChain(file) <=> \A i \in DOMAIN file :
           PreChain(file[i]) \/ Chained(file[i], HashBefore(file, i))
    BY DEF VerifyChain, HashBefore
<1>3. ASSUME NEW i \in DOMAIN file
      PROVE  PreChain(file[i]) <=> \A k \in DOMAIN file[i] : file[i][k].cut = "text"
    BY DEF PreChain, Tagged
<1>4. ASSUME NEW i \in DOMAIN file, Len(file[i]) = 1
      PROVE  /\ 1 \in DOMAIN file[i] /\ DOMAIN file[i] = {1}
             /\ file[i][1].cut \in {"text", "hashes", "newline", "no"}
  <2>0. file[i] \in Seq(Writes)
    BY <1>1
  <2>1. 1 \in DOMAIN file[i] /\ DOMAIN file[i] = {1} /\ file[i][1] \in Writes
    BY <1>4, <2>0, OneElement
  <2> QED BY <2>1, WriteFields DEF Cuts
<1>5. VerifyChain(file) => Undamaged(file)
  <2> SUFFICES ASSUME VerifyChain(file) PROVE Undamaged(file)
    OBVIOUS
  <2>1. ASSUME NEW i \in DOMAIN file
        PROVE  \/ Len(file[i]) = 1 /\ file[i][1].cut # "hashes"
               \/ \A k \in DOMAIN file[i] : file[i][k].cut = "text"
    BY <1>2, <1>3 DEF Chained
  <2>2. ~Severed(file)
    <3> SUFFICES ASSUME Severed(file) PROVE FALSE
        OBVIOUS
    <3>1. /\ 1 \in DOMAIN file /\ Len(file[1]) = 1
          /\ file[1][1].cut # "text" /\ file[1][1].prev \in severed
        BY <1>1 DEF Severed
    <3>2. ~PreChain(file[1])
        BY <1>3, <1>4, <3>1
    <3> QED BY <1>2, <3>1, <3>2 DEF Chained, HashBefore
  <2> QED BY <2>1, <2>2 DEF Undamaged
<1>6. Undamaged(file) => VerifyChain(file)
  <2> SUFFICES ASSUME Undamaged(file), NEW i \in DOMAIN file, ~PreChain(file[i])
               PROVE  Chained(file[i], HashBefore(file, i))
    BY <1>2
  <2>1. Len(file[i]) = 1 /\ file[i][1].cut # "hashes"
    BY <1>3 DEF Undamaged
  <2>2. file[i][1].cut # "text"
    BY <1>3, <1>4, <2>1
  <2>3. file[i][1].prev = HashBefore(file, i)
    BY <2>1, <2>2 DEF LogFile, Undamaged, Severed
  <2> QED BY <1>4, <2>1, <2>2, <2>3 DEF Chained
<1>7. ASSUME VerifyChain(file), NEW i \in DOMAIN file,
             NEW j \in DOMAIN file, j > i, ~PreChain(file[j])
      PROVE  ~VerifyChain(RemoveAt(file, i))
  <2> DEFINE f == RemoveAt(file, i)
  <2>1. /\ i + 1 \in DOMAIN file /\ i < Len(file) /\ (i + 1 = j \/ i + 1 < Len(file))
        /\ i \in Nat /\ i >= 1
    BY <1>1, <1>7
  <2>2. ~PreChain(file[i + 1]) /\ ~PreChain(file[i])
    <3>1. Complete(file[i]) /\ (i + 1 < Len(file) => Complete(file[i + 1]))
          /\ file[i] # <<>> /\ file[i + 1] # <<>>
        BY <2>1 DEF LogFile
    <3> QED BY <1>1, <1>7, <2>1, <3>1, CompleteLine
  <2>3. /\ Chained(file[i + 1], HashBefore(file, i + 1))
        /\ Chained(file[i], HashBefore(file, i))
    BY <1>2, <1>7, <2>1, <2>2
  <2>4. /\ file[i + 1][1].prev = HashAfter(file[i])
        /\ file[i][1].prev = HashBefore(file, i)
        /\ Len(file[i]) = 1 /\ Len(file[i + 1]) = 1
    BY <2>1, <2>3 DEF Chained, HashBefore
  <2>5. HashAfter(file[i]) = file[i][1].mac /\ file[i][1] \in Writes
    <3>1. Complete(file[i]) /\ file[i] # <<>>
        BY <2>1 DEF LogFile
    <3> QED BY <1>1, <1>4, <2>4, <3>1, CompleteLine
  <2>6. HashAfter(file[i]) # HashBefore(file, i)
    <3>1. PICK p, r : p = file[i][1].prev /\ r = file[i][1].row
        OBVIOUS
    <3>2. p \in Seq(Nat) /\ r \in Nat /\ file[i][1].mac = Append(p, r)
        BY <2>5, <3>1, WriteFields DEF Hashes
    <3>3. Len(Append(p, r)) = Len(p) + 1 /\ Len(p) \in Nat
        BY <3>2
    <3>4. Append(p, r) # p
        BY <3>3
    <3> QED BY <2>4, <2>5, <3>1, <3>2, <3>4
  <2>7. /\ i \in DOMAIN f /\ f[i] = file[i + 1]
        /\ i # 1 => f[i - 1] = file[i - 1]
    <3>1. i \in i..(Len(file) - 1) /\ (i # 1 => i - 1 \in 1..(i - 1)) /\ i \in 1..(Len(file) - 1)
        BY <1>1, <2>1
    <3> QED BY <1>1, <3>1, Removed
  <2>8. HashBefore(f, i) = HashBefore(file, i)
    BY <2>7 DEF HashBefore
  <2> HIDE DEF f
  <2>9. ~Chained(f[i], HashBefore(f, i))
    BY <2>4, <2>6, <2>7, <2>8 DEF Chained
  <2>10. ~VerifyChain(f)
    BY <2>2, <2>7, <2>9 DEF VerifyChain, HashBefore
  <2> QED BY <2>10 DEF f
<1> QED BY <1>5, <1>6, <1>7
-----------------------------------------------------------------------------
(* The steps of the log *)

\* A row is in the log or in a rotated file.
InFile(r, l, rot) == r \in RowsOf(l) \/ \E s \in DOMAIN rot : r \in RowsOf(rot[s])

\* Every row of a is in a file or was in one that is gone.
Held(a, l, rot, rep) == \A r \in a : InFile(r, l, rot) \/ r \in rep

LEMMA InSomeFile ==
    ASSUME NEW l, NEW rot, NEW r
    PROVE  r \in UNION {RowsOf(f) : f \in {l} \cup {rot[s] : s \in DOMAIN rot}}
           <=> InFile(r, l, rot)
<1>1. PICK F : F = {l} \cup {rot[s] : s \in DOMAIN rot}
    OBVIOUS
<1>2. r \in UNION {RowsOf(f) : f \in F} <=> \E f \in F : r \in RowsOf(f)
    OBVIOUS
<1>3. (\E f \in F : r \in RowsOf(f)) <=>
        (r \in RowsOf(l) \/ \E s \in DOMAIN rot : r \in RowsOf(rot[s]))
    BY <1>1
<1> QED BY <1>1, <1>2, <1>3 DEF InFile

LEMMA AckedHeld == AckedIsKept <=> Held(acked, live, rotated, replaced \cup wiped)
<1>1. PICK U : U = UNION {RowsOf(f) : f \in {live} \cup {rotated[s] : s \in DOMAIN rotated}}
    OBVIOUS
<1>2. \A r : r \in U <=> InFile(r, live, rotated)
    BY <1>1, InSomeFile
<1>3. AckedIsKept <=> acked \subseteq U \cup replaced \cup wiped
    BY <1>1 DEF AckedIsKept, Files
<1>4. acked \subseteq U \cup replaced \cup wiped <=> \A r \in acked : r \in U \/ r \in replaced \cup wiped
    OBVIOUS
<1>5. (\A r \in acked : r \in U \/ r \in replaced \cup wiped) <=> Held(acked, live, rotated, replaced \cup wiped)
    BY <1>2 DEF Held
<1> QED BY <1>3, <1>4, <1>5

LEMMA AckedHeldNext == AckedIsKept' <=> Held(acked', live', rotated', replaced' \cup wiped')
<1>1. PICK U : U = UNION {RowsOf(f) : f \in {live'} \cup {rotated'[s] : s \in DOMAIN rotated'}}
    OBVIOUS
<1>2. \A r : r \in U <=> InFile(r, live', rotated')
    BY <1>1, InSomeFile
<1>3. AckedIsKept' <=> acked' \subseteq U \cup replaced' \cup wiped'
    BY <1>1 DEF AckedIsKept, Files
<1>4. acked' \subseteq U \cup replaced' \cup wiped' <=> \A r \in acked' : r \in U \/ r \in replaced' \cup wiped'
    OBVIOUS
<1>5. (\A r \in acked' : r \in U \/ r \in replaced' \cup wiped') <=> Held(acked', live', rotated', replaced' \cup wiped')
    BY <1>2 DEF Held
<1> QED BY <1>3, <1>4, <1>5

LEMMA StoreFields ==
    ASSUME LogTypes
    PROVE  /\ store.running \in BOOLEAN /\ store.open \in BOOLEAN
           /\ store.linked \in BOOLEAN /\ store.panicDone \in BOOLEAN
           /\ store.last \in Hashes /\ store.lastTS \in Nat
BY DEF LogTypes, StoreTypes

\* A file in order stays so when more hashes are set loose.
LEMMA MoreSevered ==
    ASSUME NEW file, NEW sev, NEW more, sev \subseteq more, LogFile(file, sev)
    PROVE  LogFile(file, more)
BY DEF LogFile

\* A write to the open log, whole or cut, changes nothing but the end of the file,
\* and nothing at the path if the file is not there.
LEMMA LogGrows ==
    ASSUME LogInv, store.open, NEW row \in Nat, NEW cut \in Cuts \cup {"no"},
           WriteFile(Written(row, store.last, cut)),
           UNCHANGED <<rotated, replaced, severed>>,
           acked' = acked \/ acked' = acked \cup {row}
    PROVE  /\ FilesInv' /\ AckedIsKept'
           /\ ~store.linked => live' = <<>>
           /\ store.linked /\ cut = "no" =>
                 live' # <<>> /\ Complete(Last(live')) /\ tailLastHMAC(live') = Mac(store.last, row)
           /\ store.linked /\ cut # "no" => live' # <<>> /\ ~Complete(Last(live'))
<1>1. store.last \in Hashes /\ LogFile(live, severed)
    BY StoreFields DEF LogInv, FilesInv
<1>2. PICK w : w = Written(row, store.last, cut)
    OBVIOUS
<1>3. /\ w \in Writes /\ w.row = row /\ w.prev = store.last /\ w.cut = cut
      /\ w.mac = Mac(store.last, row)
    BY <1>1, <1>2, WrittenFields
<1>4. Held(acked, live, rotated, replaced \cup wiped)
    BY AckedHeld DEF LogInv
<1>5. CASE store.linked
  <2>1. live = <<>> \/ Complete(Last(live)) => Goes(w.prev, live, severed)
    BY <1>3, <1>5 DEF LogInv, ChainInv
  <2>2. PICK f : f = AppendTo(live, w)
    OBVIOUS
  <2>3. /\ LogFile(f, severed) /\ RowsOf(live) \cup {row} \subseteq RowsOf(f) /\ f # <<>>
        /\ cut = "no" => Complete(Last(f)) /\ tailLastHMAC(f) = Mac(store.last, row)
        /\ cut # "no" => ~Complete(Last(f))
    BY <1>1, <1>3, <2>1, <2>2, WriteKept
  <2>4. live' = f /\ wiped' = wiped
    BY <1>2, <1>5, <2>2 DEF WriteFile
  <2>5. FilesInv'
    <3>1. LogFile(live', severed') /\ \A s \in DOMAIN rotated' : LogFile(rotated'[s], severed')
        BY <2>3, <2>4 DEF LogInv, FilesInv
    <3> QED BY <3>1 DEF FilesInv
  <2>6. Held(acked', f, rotated, replaced \cup wiped)
    BY <1>4, <2>3 DEF Held, InFile
  <2> QED BY <1>5, <2>3, <2>4, <2>5, <2>6, AckedHeldNext
<1>6. CASE ~store.linked
  <2>1. live' = live /\ wiped' = wiped \cup {row} /\ live' = <<>>
    BY <1>2, <1>3, <1>6 DEF WriteFile, LogInv, ChainInv
  <2>2. FilesInv'
    <3>1. LogFile(live', severed') /\ \A s \in DOMAIN rotated' : LogFile(rotated'[s], severed')
        BY <2>1 DEF LogInv, FilesInv
    <3> QED BY <3>1 DEF FilesInv
  <2>3. Held(acked', live', rotated', replaced' \cup wiped')
    BY <1>4, <2>1 DEF Held, InFile
  <2> QED BY <1>6, <2>1, <2>2, <2>3, AckedHeldNext
<1> QED BY <1>5, <1>6, StoreFields DEF LogInv

\* The file takes the second's name; the rows of a file it replaces are noted.
LEMMA RenameKept ==
    ASSUME LogInv, RenameAway, UNCHANGED <<acked, wiped, severed>>
    PROVE  FilesInv' /\ AckedIsKept' /\ live' = <<>>
<1>1. /\ live' = <<>>
      /\ rotated' = [s \in DOMAIN rotated \cup {second} |-> IF s = second THEN live ELSE rotated[s]]
      /\ replaced' = replaced \cup (IF second \in DOMAIN rotated THEN RowsOf(rotated[second]) ELSE {})
    BY DEF RenameAway
<1>2. LogFile(<<>>, severed)
    BY DEF LogFile, Lines
<1>3. ASSUME NEW s \in DOMAIN rotated' PROVE LogFile(rotated'[s], severed)
    BY <1>1 DEF LogInv, FilesInv
<1>4. FilesInv'
  <2>1. LogFile(live', severed') /\ \A s \in DOMAIN rotated' : LogFile(rotated'[s], severed')
    BY <1>1, <1>2, <1>3
  <2> QED BY <2>1 DEF FilesInv
<1>5. Held(acked', live', rotated', replaced' \cup wiped')
  <2> SUFFICES ASSUME NEW r \in acked
               PROVE  InFile(r, live', rotated') \/ r \in replaced' \cup wiped'
    BY DEF Held
  <2>1. InFile(r, live, rotated) \/ r \in replaced \cup wiped
    BY AckedHeld DEF LogInv, Held
  <2>2. CASE r \in RowsOf(live)
    <3>1. second \in DOMAIN rotated' /\ rotated'[second] = live
        BY <1>1
    <3> QED BY <2>2, <3>1 DEF InFile
  <2>3. ASSUME NEW s \in DOMAIN rotated, r \in RowsOf(rotated[s])
        PROVE  InFile(r, live', rotated') \/ r \in replaced' \cup wiped'
    <3>1. CASE s = second
        BY <1>1, <2>3, <3>1
    <3>2. CASE s # second
      <4>1. s \in DOMAIN rotated' /\ rotated'[s] = rotated[s]
        BY <1>1, <3>2
      <4> QED BY <2>3, <4>1 DEF InFile
    <3> QED BY <3>1, <3>2
  <2>4. CASE r \in replaced \cup wiped
    BY <1>1, <2>4
  <2> QED BY <2>1, <2>2, <2>3, <2>4 DEF InFile
<1> QED BY <1>1, <1>4, <1>5, AckedHeldNext

\* Steps that leave the files alone.
LEMMA FilesSame ==
    ASSUME LogInv, UNCHANGED <<live, rotated, replaced, wiped, acked>>, severed \subseteq severed'
    PROVE  FilesInv' /\ AckedIsKept' /\ (UNCHANGED <<store, severed>> => ChainInv')
<1>1. FilesInv'
  <2>1. LogFile(live', severed') /\ \A s \in DOMAIN rotated' : LogFile(rotated'[s], severed')
    BY MoreSevered DEF LogInv, FilesInv
  <2> QED BY <2>1 DEF FilesInv
<1>2. AckedIsKept'
    BY AckedHeld, AckedHeldNext DEF LogInv
<1>3. ASSUME UNCHANGED <<store, severed>> PROVE ChainInv'
  <2>1. Goes(store'.last, live', severed') <=> Goes(store.last, live, severed)
    BY <1>3 DEF Goes
  <2>2. Complete(Last(live')) <=> Complete(Last(live))
    OBVIOUS
  <2> QED BY <1>3, <2>1, <2>2 DEF LogInv, ChainInv
<1> QED BY <1>1, <1>2, <1>3

LEMMA RecordKept ==
    ASSUME LogInv, NEW c \in Callers, Record(c)
    PROVE  LogInv'
<1>1. /\ LogTypes /\ event[c] \in Nat
      /\ UNCHANGED <<rows, rotated, replaced, severed>>
      /\ event' = [event EXCEPT ![c] = NoEvent]
    BY DEF LogInv, LogTypes, Record, Handled
<1>2. event' \in [Callers -> Nat] /\ rows' \in Nat /\ Genesis \notin severed'
    BY <1>1 DEF LogTypes, NoEvent
<1>3. CASE Refuse(c)
  <2>1. UNCHANGED <<live, store, acked, wiped>>
    BY <1>3 DEF Refuse
  <2>2. LogTypes'
    BY <1>1, <1>2, <2>1 DEF LogTypes
  <2> QED BY <1>1, <2>1, <2>2, FilesSame DEF LogInv
<1>4. CASE WriteRow(c)
  <2>1. /\ store.open /\ WriteFile(Written(event[c], store.last, "no"))
        /\ store' = [store EXCEPT !.last = Mac(store.last, event[c]), !.lastTS = event[c]]
        /\ acked' = acked \cup {event[c]}
    BY <1>4 DEF WriteRow
  <2>2. /\ FilesInv' /\ AckedIsKept'
        /\ ~store.linked => live' = <<>>
        /\ store.linked => tailLastHMAC(live') = Mac(store.last, event[c])
    BY <1>1, <2>1, LogGrows
  <2>3. Mac(store.last, event[c]) \in Hashes
    BY <1>1, StoreFields DEF Mac, Hashes
  <2>4. /\ store' \in StoreTypes /\ store'.last = Mac(store.last, event[c])
        /\ store'.linked = store.linked
    BY <1>1, <2>1, <2>3 DEF LogTypes, StoreTypes
  <2>5. ChainInv'
    <3>1. store.linked => Goes(store'.last, live', severed')
        BY <2>2, <2>4 DEF Goes
    <3> QED BY <2>2, <2>4, <3>1 DEF ChainInv
  <2> QED BY <1>2, <2>2, <2>4, <2>5 DEF LogInv, LogTypes
<1>5. CASE FailWrite(c)
  <2>1. store.open /\ UNCHANGED <<store, acked>>
    BY <1>5 DEF FailWrite
  <2>2. LogTypes'
    BY <1>1, <1>2, <2>1 DEF LogTypes
  <2>3. CASE UNCHANGED <<live, wiped>>
    BY <1>1, <2>1, <2>2, <2>3, FilesSame DEF LogInv
  <2>4. ASSUME NEW cut \in Cuts, WriteFile(Written(event[c], store.last, cut))
        PROVE  LogInv'
    <3>1. cut # "no" /\ cut \in Cuts \cup {"no"}
        BY DEF Cuts
    <3>2. /\ FilesInv' /\ AckedIsKept' /\ (~store.linked => live' = <<>>)
          /\ store.linked => live' # <<>> /\ ~Complete(Last(live'))
        BY <1>1, <2>1, <2>4, <3>1, LogGrows
    <3>3. ChainInv'
        BY <2>1, <3>2 DEF ChainInv
    <3> QED BY <2>2, <3>2, <3>3 DEF LogInv
  <2> QED BY <1>5, <2>3, <2>4 DEF FailWrite
<1> QED BY <1>3, <1>4, <1>5 DEF Record

LEMMA RotateKept ==
    ASSUME LogInv, NEW c \in Callers, Rotate(c)
    PROVE  LogInv'
<1>1. /\ LogTypes /\ rows \in Nat /\ acked' = acked /\ wiped' = wiped /\ store.open
      /\ \/ UNCHANGED <<event, rows>>
         \/ rows' = rows + 1 /\ event' = [event EXCEPT ![c] = rows + 1]
    BY DEF LogInv, LogTypes, Rotate
<1>2. event' \in [Callers -> Nat] /\ rows' \in Nat
    BY <1>1 DEF LogTypes
<1>3. Closed \in StoreTypes /\ ~Closed.open
    BY <1>1 DEF Closed, LogTypes, StoreTypes
<1>4. FreshChain \in StoreTypes /\ FreshChain.last = Genesis /\ FreshChain.linked = store.linked
  <2>1. Genesis \in Hashes /\ NoTime \in Nat
    BY DEF Genesis, Hashes, NoTime
  <2> QED BY <1>1, <2>1 DEF FreshChain, LogTypes, StoreTypes
<1>5. CASE (CloseFails \/ RenameFails \/ RenameFindsNone) /\ store' = Closed /\ UNCHANGED severed
  <2>1. UNCHANGED <<live, rotated, replaced>>
    BY <1>5 DEF CloseFails, RenameFails, RenameFindsNone
  <2>2. ChainInv'
    BY <1>3, <1>5 DEF ChainInv
  <2> QED BY <1>1, <1>2, <1>3, <1>5, <2>1, <2>2, FilesSame DEF LogInv, LogTypes
<1>6. CASE RenameFails /\ store' = store
  <2>1. UNCHANGED <<live, rotated, replaced, severed>>
    BY <1>6 DEF RenameFails
  <2> QED BY <1>1, <1>2, <1>6, <2>1, FilesSame DEF LogInv, LogTypes
<1>7. CASE OpenFails
  <2>1. RenameAway /\ store' = Closed /\ UNCHANGED severed
    BY <1>7 DEF OpenFails
  <2>2. ChainInv'
    BY <1>3, <2>1 DEF ChainInv
  <2> QED BY <1>1, <1>2, <1>3, <2>1, <2>2, RenameKept DEF LogInv, LogTypes
<1>8. CASE Rotated
  <2>1. RenameAway /\ store' = FreshChain /\ UNCHANGED severed
    BY <1>8 DEF Rotated
  <2>2. FilesInv' /\ AckedIsKept' /\ live' = <<>>
    BY <1>1, <2>1, RenameKept
  <2>3. ChainInv'
    BY <1>4, <2>1, <2>2 DEF ChainInv, Goes, tailLastHMAC
  <2> QED BY <1>1, <1>2, <1>4, <2>1, <2>2, <2>3 DEF LogInv, LogTypes
<1>9. CASE /\ RenameFindsNone /\ store' = [store EXCEPT !.linked = TRUE]
           /\ severed' = severed \cup ({store.last} \ {Genesis})
  <2>1. UNCHANGED <<live, rotated, replaced>> /\ live = <<>>
    BY <1>1, <1>9 DEF RenameFindsNone, LogInv, ChainInv
  <2>2. store' \in StoreTypes /\ store'.last = store.last /\ store'.linked
    BY <1>1, <1>9 DEF LogTypes, StoreTypes
  <2>3. Genesis \notin severed'
    BY <1>1, <1>9 DEF LogTypes
  <2>4. tailLastHMAC(live') = Genesis /\ live' = <<>>
    BY <2>1 DEF tailLastHMAC
  <2>5. Goes(store'.last, live', severed')
    BY <1>9, <2>2, <2>4 DEF Goes
  <2>6. ChainInv'
    BY <2>2, <2>5 DEF ChainInv
  <2> QED BY <1>1, <1>2, <1>9, <2>1, <2>2, <2>3, <2>6, FilesSame DEF LogInv, LogTypes
<1> QED BY <1>5, <1>6, <1>7, <1>8, <1>9 DEF Rotate, CloseFails, RenameFails, RenameFindsNone

\* The wipe notes the rows it takes away.
LEMMA PanicKept ==
    ASSUME LogInv, Panic, UNCHANGED <<rotated, acked, replaced, severed>>
    PROVE  store' \in StoreTypes /\ FilesInv' /\ ChainInv' /\ AckedIsKept'
<1>1. LogTypes /\ Held(acked, live, rotated, replaced \cup wiped)
    BY AckedHeld DEF LogInv
<1>2. CASE UNCHANGED <<live, store, wiped>>
    BY <1>1, <1>2, FilesSame DEF LogTypes
<1>3. CASE store' = [store EXCEPT !.panicDone = TRUE] /\ UNCHANGED <<live, wiped>>
  <2>1. /\ store' \in StoreTypes
        /\ store'.open = store.open /\ store'.linked = store.linked /\ store'.last = store.last
    BY <1>1, <1>3 DEF LogTypes, StoreTypes
  <2>2. Goes(store'.last, live', severed') <=> Goes(store.last, live, severed)
    BY <1>3, <2>1 DEF Goes
  <2>3. Complete(Last(live')) <=> Complete(Last(live))
    BY <1>3
  <2>4. ChainInv'
    BY <1>3, <2>1, <2>2, <2>3 DEF LogInv, ChainInv
  <2> QED BY <1>3, <2>1, <2>4, FilesSame
<1>4. CASE /\ live' = <<>> /\ wiped' = wiped \cup RowsOf(live)
           /\ store' = [store EXCEPT !.linked = FALSE, !.panicDone = TRUE]
  <2>1. store' \in StoreTypes /\ ~store'.linked
    BY <1>1, <1>4 DEF LogTypes, StoreTypes
  <2>2. ChainInv'
    BY <1>4, <2>1 DEF ChainInv
  <2>3. FilesInv'
    <3>1. LogFile(<<>>, severed)
        BY DEF LogFile, Lines
    <3>2. LogFile(live', severed') /\ \A s \in DOMAIN rotated' : LogFile(rotated'[s], severed')
        BY <1>4, <3>1 DEF LogInv, FilesInv
    <3> QED BY <3>2 DEF FilesInv
  <2>4. Held(acked', live', rotated', replaced' \cup wiped')
    BY <1>1, <1>4 DEF Held, InFile
  <2> QED BY <2>1, <2>2, <2>3, <2>4, AckedHeldNext
<1> QED BY <1>2, <1>3, <1>4 DEF Panic, RemoveLog

LEMMA KillKept ==
    ASSUME LogInv, KillLog
    PROVE  LogInv'
<1>1. /\ LogTypes /\ store' = Down /\ event' = [c \in Callers |-> NoEvent]
      /\ UNCHANGED <<rows, rotated, acked, replaced, severed>>
    BY DEF LogInv, KillLog
<1>2. LogTypes' /\ ~store'.open
    BY <1>1 DEF LogTypes, StoreTypes, Down, NoEvent, NoTime, Genesis, Hashes
<1>3. ChainInv'
    BY <1>2 DEF ChainInv
<1>4. CASE UNCHANGED <<live, wiped>>
    BY <1>1, <1>2, <1>3, <1>4, FilesSame DEF LogInv
<1>5. ASSUME NEW c \in Callers, NEW cut \in Cuts, store.open,
             WriteFile(Written(event[c], store.last, cut))
      PROVE  LogInv'
  <2>1. cut \in Cuts \cup {"no"} /\ event[c] \in Nat
    BY <1>1 DEF LogTypes
  <2>2. FilesInv' /\ AckedIsKept'
    BY <1>1, <1>5, <2>1, LogGrows
  <2> QED BY <1>2, <1>3, <2>2 DEF LogInv
<1> QED BY <1>4, <1>5 DEF KillLog

LEMMA LogKept == LogInv /\ [LogNext]_logVars => LogInv'
<1> SUFFICES ASSUME LogInv, [LogNext]_logVars PROVE LogInv'
    OBVIOUS
<1>1. ASSUME NEW c \in Callers, NewAuditEvent(c) PROVE LogInv'
  <2>1. /\ UNCHANGED <<live, rotated, replaced, wiped, severed, acked, store>>
        /\ rows' = rows + 1 /\ event' = [event EXCEPT ![c] = rows + 1]
    BY <1>1 DEF NewAuditEvent
  <2>2. LogTypes'
    BY <2>1 DEF LogInv, LogTypes
  <2> QED BY <2>1, <2>2, FilesSame DEF LogInv
<1>2. CASE OpenLog
  <2>1. /\ UNCHANGED <<live, rotated, replaced, wiped, severed, acked, event, rows>>
        /\ store' = [running |-> TRUE, open |-> TRUE, linked |-> TRUE, panicDone |-> FALSE,
                     last |-> tailLastHMAC(live), lastTS |-> NoTime]
    BY <1>2 DEF OpenLog
  <2>2. PICK h \in Hashes : h = tailLastHMAC(live)
    BY TailHash DEF LogInv, FilesInv
  <2>3. store' = [running |-> TRUE, open |-> TRUE, linked |-> TRUE, panicDone |-> FALSE,
                  last |-> h, lastTS |-> NoTime]
    BY <2>1, <2>2
  <2>4. LogTypes' /\ store'.last = h /\ store'.linked
    BY <2>1, <2>3 DEF LogInv, LogTypes, StoreTypes, NoTime
  <2>5. Goes(store'.last, live', severed')
    BY <2>1, <2>2, <2>4 DEF Goes
  <2>6. ChainInv'
    BY <2>4, <2>5 DEF ChainInv
  <2> QED BY <2>1, <2>4, <2>6, FilesSame DEF LogInv
<1>3. CASE TickLog
    BY <1>3, FilesSame DEF TickLog, LogInv, LogTypes
<1>4. CASE UNCHANGED logVars
    BY <1>4, FilesSame DEF logVars, LogInv, LogTypes
<1>5. ASSUME NEW c \in Callers, HandlePanic(c) PROVE LogInv'
  <2>1. /\ Panic /\ UNCHANGED <<rotated, acked, replaced, severed>>
        /\ rows' = rows + 1 /\ event' = [event EXCEPT ![c] = rows + 1]
    BY <1>5 DEF HandlePanic
  <2>2. store' \in StoreTypes /\ FilesInv' /\ ChainInv' /\ AckedIsKept'
    BY <2>1, PanicKept
  <2> QED BY <2>1, <2>2 DEF LogInv, LogTypes
<1>6. CASE LoggedOut
  <2>1. Panic /\ UNCHANGED <<rotated, acked, replaced, severed, rows, event>>
    BY <1>6 DEF LoggedOut
  <2>2. store' \in StoreTypes /\ FilesInv' /\ ChainInv' /\ AckedIsKept'
    BY <2>1, PanicKept
  <2> QED BY <2>1, <2>2 DEF LogInv, LogTypes
<1> QED BY <1>1, <1>2, <1>3, <1>4, <1>5, <1>6, RecordKept, RotateKept, KillKept DEF LogNext

LEMMA LogStarts == LogInit => LogInv
<1> SUFFICES ASSUME LogInit PROVE LogInv
    OBVIOUS
<1>1. LogTypes /\ ~store.open
    BY DEF LogInit, LogTypes, StoreTypes, Down, NoEvent, NoTime, Genesis, Hashes
<1>2. FilesInv
    BY DEF LogInit, FilesInv, LogFile, Lines
<1>3. ChainInv
    BY <1>1 DEF ChainInv
<1>4. AckedIsKept
    BY DEF LogInit, AckedIsKept
<1> QED BY <1>1, <1>2, <1>3, <1>4 DEF LogInv

LEMMA LogInvHolds == Spec => []LogInv
<1>1. Init => LogInv
    BY LogStarts DEF Init
<1>2. LogInv /\ [Next]_controlVars => LogInv'
  <2> SUFFICES ASSUME LogInv, [Next]_controlVars PROVE [LogNext]_logVars
    BY LogKept
  <2> QED BY DEF Next, LogStep, AllowStep, DraftStep, controlVars
<1> QED BY <1>1, <1>2, PTL DEF Spec

\* slogaudit Record and Rotate under the adapter's Panic: for any writers, faults,
\* rotations, boots and wipes, a row whose Record returned without an error is in
\* the log or in a rotated file, unless a rotation in the same second replaced its
\* file or a panic removed it: those are the only two ways a row is lost.
THEOREM AckedIsKeptHolds == Spec => []AckedIsKept
<1>1. LogInv => AckedIsKept
    BY DEF LogInv
<1> QED BY <1>1, LogInvHolds, PTL

\* audit verify tells the truth about every file the log can leave, of any length:
\* it accepts alone the undamaged ones that do not go on a chain from a file a panic
\* removed, and notices a line that was taken out.
THEOREM VerifyTellsHolds == Spec => []VerifyTells
<1>1. LogInv => VerifyTells
  <2> SUFFICES ASSUME LogInv, NEW file \in Files
               PROVE  /\ VerifyChain(file) <=> Undamaged(file)
                      /\ VerifyChain(file) =>
                           \A i \in DOMAIN file :
                               (\E j \in DOMAIN file : j > i /\ ~PreChain(file[j]))
                                   => ~VerifyChain(RemoveAt(file, i))
    BY DEF VerifyTells
  <2>1. LogFile(file, severed) /\ Genesis \notin severed
    BY DEF LogInv, LogTypes, FilesInv, Files
  <2> QED BY <2>1, FileTells
<1> QED BY <1>1, LogInvHolds, PTL
-----------------------------------------------------------------------------
(* The invariant of the allowlist *)

CallTypes == [at : {"idle", "event", "audit", "entries", "create", "write", "rename", "revert"},
              op : {"add", "remove"}, of : Policies, prior : Policies, file : Policies,
              fd : Inodes \cup {None}]
ReloadTypes == [at : {"idle", "refused", "lock", "clear", "grant", "audit"},
                new : Policies, sure : BOOLEAN]

AllowTypes ==
    /\ entries \in Policies
    /\ inode \in [Inodes -> Policies \cup {Broken}]
    /\ path \in Inodes \cup {None} /\ tmp \in Inodes \cup {None}
    /\ tmp # None => tmp # path
    /\ handler \in [Handlers -> CallTypes]
    /\ reload \in [Reloaders -> ReloadTypes]
    /\ notified \in BOOLEAN /\ armed \in BOOLEAN /\ watching \in BOOLEAN /\ up \in BOOLEAN

\* Between the read of the file and the end of the copy.
Copying(r) == reload[r].at \in {"lock", "clear", "grant"}

\* A reload that nothing overlapped has read what the file holds, or another one
\* is due.
SureInv ==
    \A r \in Reloaders : Copying(r) /\ reload[r].sure =>
        watching /\ (reload[r].new = Contents \/ notified \/ armed)

\* Memory is the file, or something that will make it so is on its way.
Settling ==
    up /\ Contents # Broken =>
        \/ entries = Contents \/ notified \/ armed \/ excuse # {}
        \/ \E h \in Handlers : handler[h].at # "idle"
        \/ \E r \in Reloaders : Copying(r) /\ (~reload[r].sure \/ reload[r].new = Contents)

AllowInv == AllowTypes /\ SureInv /\ Settling

-----------------------------------------------------------------------------
(* Records and inodes *)

LEMMA CallFields ==
    ASSUME NEW c \in CallTypes
    PROVE  /\ c.of \in Policies /\ c.prior \in Policies /\ c.file \in Policies
           /\ c.fd \in Inodes \cup {None}
BY DEF CallTypes

LEMMA NoCallType == NoCall \in CallTypes /\ NoCall.at = "idle"
BY DEF NoCall, CallTypes, Policies

LEMMA ReloadFields ==
    ASSUME NEW x \in ReloadTypes
    PROVE  x.new \in Policies /\ x.sure \in BOOLEAN
BY DEF ReloadTypes

LEMMA NoReloadType == NoReload \in ReloadTypes /\ NoReload.at = "idle"
BY DEF NoReload, ReloadTypes, Policies

LEMMA ContentsType == AllowTypes => Contents \in Policies \cup {Broken}
BY DEF AllowTypes, Contents, Policies

LEMMA OneMore ==
    ASSUME NEW S, IsFiniteSet(S), NEW x
    PROVE  /\ IsFiniteSet(S \cup {x}) /\ Cardinality(S \cup {x}) \in Nat
           /\ Cardinality(S \cup {x}) <= Cardinality(S) + 1
<1>1. Cardinality(S) \in Nat
    BY FS_CardinalityType
<1>2. CASE x \in S
  <2>1. S \cup {x} = S
    BY <1>2
  <2>2. Cardinality(S) <= Cardinality(S) + 1
    BY <1>1
  <2> QED BY <1>1, <2>1, <2>2, Zenon
<1>3. CASE x \notin S
  <2>1. IsFiniteSet(S \cup {x}) /\ Cardinality(S \cup {x}) = Cardinality(S) + 1
    BY <1>3, FS_AddElement
  <2> QED BY <1>1, <2>1
<1> QED BY <1>2, <1>3

\* There is always an inode that nothing uses.
LEMMA FreshInode ==
    ASSUME AllowTypes
    PROVE  /\ Fresh \in Inodes /\ Fresh \notin {path, tmp}
           /\ \A h \in Handlers : handler[h].fd # Fresh
<1> DEFINE open == {handler[h].fd : h \in Handlers}
           f == [h \in Handlers |-> handler[h].fd]
<1>1. IsFiniteSet(open) /\ Cardinality(open) <= Cardinality(Handlers)
  <2>1. f \in Surjection(Handlers, open)
    BY DEF Surjection
  <2> HIDE DEF f, open
  <2> QED BY <2>1, AllowlistAssumption, FS_Surjection
<1> HIDE DEF open
<1>2. /\ Cardinality(open) \in Nat /\ Cardinality(Handlers) \in Nat
      /\ Cardinality(Inodes) \in Nat
    BY <1>1, AllowlistAssumption, FS_CardinalityType
<1>3. /\ IsFiniteSet(open \cup {path}) /\ Cardinality(open \cup {path}) \in Nat
      /\ Cardinality(open \cup {path}) <= Cardinality(open) + 1
    BY <1>1, OneMore
<1>4. /\ IsFiniteSet(open \cup {path} \cup {tmp}) /\ Cardinality(open \cup {path} \cup {tmp}) \in Nat
      /\ Cardinality(open \cup {path} \cup {tmp}) <= Cardinality(open \cup {path}) + 1
    BY <1>3, OneMore
<1>5. \E i \in Inodes : i \notin {path, tmp} \cup open
  <2> SUFFICES ASSUME \A i \in Inodes : i \in {path, tmp} \cup open PROVE FALSE
    OBVIOUS
  <2>1. Inodes \subseteq open \cup {path} \cup {tmp}
    OBVIOUS
  <2>2. Cardinality(Inodes) <= Cardinality(open \cup {path} \cup {tmp})
    BY <1>4, <2>1, FS_Subset
  <2> QED BY <1>1, <1>2, <1>3, <1>4, <2>2, AllowlistAssumption
<1>6. Fresh \in Inodes /\ Fresh \notin {path, tmp} \cup open
    BY <1>5 DEF Fresh, open
<1> QED BY <1>6 DEF open

-----------------------------------------------------------------------------
(* The steps of the allowlist *)

\* Calls, their saves and the editor: no reload moves, a notification stays, and
\* either memory is left alone or something is on its way.
LEMMA CallsSettle ==
    ASSUME AllowInv, UNCHANGED <<reload, watching, armed, up>>,
           notified => notified',
           excuse # {} => excuse' # {},
           Contents' = Contents \/ (IF watching THEN notified' ELSE excuse' # {}),
           \/ entries' = entries /\ \A h \in Handlers :
                                       handler[h].at # "idle" => handler'[h].at # "idle"
           \/ \E h \in Handlers : handler'[h].at # "idle"
           \/ excuse' # {} \/ notified'
    PROVE  SureInv' /\ Settling'
<1>1. \A r \in Reloaders : Copying(r)' = Copying(r)
    BY DEF Copying
<1>2. SureInv'
    BY <1>1 DEF AllowInv, SureInv
<1>3. Settling'
  <2> SUFFICES ASSUME up, Contents' # Broken, entries' # Contents', ~notified', ~armed, excuse' = {},
                      \A h \in Handlers : handler'[h].at = "idle"
               PROVE  \E r \in Reloaders : Copying(r)' /\ (~reload'[r].sure \/ reload'[r].new = Contents')
    BY DEF Settling
  <2>1. Contents' = Contents /\ entries' = entries /\ ~notified /\ excuse = {}
    OBVIOUS
  <2>2. \E r \in Reloaders : Copying(r) /\ (~reload[r].sure \/ reload[r].new = Contents)
    BY <2>1 DEF AllowInv, Settling
  <2> QED BY <1>1, <2>1, <2>2
<1> QED BY <1>2, <1>3

\* Types of the files and the calls after a step of a call.
LEMMA CallsTyped ==
    ASSUME AllowTypes, NEW h \in Handlers, NEW c \in CallTypes,
           handler' = [handler EXCEPT ![h] = c]
    PROVE  /\ handler' \in [Handlers -> CallTypes] /\ handler'[h] = c
           /\ \A x \in Handlers : x # h => handler'[x] = handler[x]
BY DEF AllowTypes

LEMMA MovesTo ==
    ASSUME AllowTypes, NEW h \in Handlers,
           NEW at \in {"event", "audit", "entries", "create", "write", "rename", "revert"}, To(h, at)
    PROVE  /\ handler' \in [Handlers -> CallTypes] /\ handler'[h].at # "idle"
           /\ \A x \in Handlers : x # h => handler'[x] = handler[x]
           /\ handler'[h].fd = handler[h].fd
<1>1. PICK c : c = [handler[h] EXCEPT !.at = at]
    OBVIOUS
<1>2. handler[h] \in CallTypes
    BY DEF AllowTypes
<1>3. c \in CallTypes /\ c.at = at /\ c.fd = handler[h].fd
    BY <1>1, <1>2 DEF CallTypes
<1>4. handler' = [handler EXCEPT ![h] = c]
    BY <1>1 DEF To, AllowTypes
<1> QED BY <1>3, <1>4, CallsTyped

LEMMA OfType == ASSUME AllowTypes, NEW jid PROVE Of(jid) \in Policies
BY DEF AllowTypes, Of, Policies

\* The beginning of a call.
LEMMA BeginKept ==
    ASSUME AllowInv, NEW h \in Handlers, NEW op \in {"add", "remove"}, NEW jid,
           NEW gs \in Policies, Begin(h, op, jid, gs)
    PROVE  AllowInv'
<1>t. AllowTypes
    BY DEF AllowInv
<1>1. PICK c : c = [NoCall EXCEPT !.at = "event", !.op = op, !.of = gs, !.prior = Of(jid)]
    OBVIOUS
<1>2. c \in CallTypes /\ c.at = "event"
    BY <1>t, <1>1, OfType DEF NoCall, CallTypes, Policies
<1>3. /\ handler' = [handler EXCEPT ![h] = c]
      /\ entries' = IF op = "add" THEN Grant(gs) ELSE Revoke(gs)
      /\ UNCHANGED <<inode, path, tmp, reload, notified, armed, watching, up, excuse>>
    BY <1>1 DEF Begin, filesVars, watchVars
<1>4. handler' \in [Handlers -> CallTypes] /\ handler'[h].at # "idle"
    BY <1>t, <1>2, <1>3, CallsTyped
<1>5. entries' \in Policies
    BY <1>t, <1>3 DEF AllowTypes, Grant, Revoke, Policies
<1>6. AllowTypes'
    BY <1>t, <1>3, <1>4, <1>5 DEF AllowTypes
<1>7. Contents' = Contents
    BY <1>3 DEF Contents
<1>8. SureInv' /\ Settling'
    BY <1>3, <1>4, <1>7, CallsSettle
<1> QED BY <1>6, <1>8 DEF AllowInv

\* A call that fails where it leaves the files alone, or only moves on.
LEMMA MoveKept ==
    ASSUME AllowInv, NEW h \in Handlers,
           handler' \in [Handlers -> CallTypes], handler'[h].at # "idle",
           UNCHANGED <<entries, inode, path, tmp, reload, notified, armed, watching, up, excuse>>
    PROVE  AllowInv'
<1>1. AllowTypes'
    BY DEF AllowInv, AllowTypes
<1>2. Contents' = Contents
    BY DEF Contents
<1> QED BY <1>1, <1>2, CallsSettle DEF AllowInv

LEMMA AuditKept ==
    ASSUME AllowInv, NEW h \in Handlers, AuditEvent(h) \/ AuditRow(h) \/ SaveEntries(h)
    PROVE  AllowInv'
<1>t. AllowTypes
    BY DEF AllowInv
<1>1. UNCHANGED <<entries, inode, path, tmp, reload, notified, armed, watching, up, excuse>>
    BY DEF AuditEvent, AuditRow, SaveEntries, filesVars, watchVars
<1>2. CASE AuditEvent(h) \/ AuditRow(h)
  <2>1. PICK at \in {"audit", "entries", "revert"} : To(h, at)
    BY <1>2 DEF AuditEvent, AuditRow
  <2>2. handler' \in [Handlers -> CallTypes] /\ handler'[h].at # "idle"
    BY <1>t, <2>1, MovesTo
  <2> QED BY <1>1, <2>2, MoveKept
<1>3. CASE SaveEntries(h)
  <2>1. PICK c : c = [handler[h] EXCEPT !.at = "create", !.file = entries]
    OBVIOUS
  <2>2. handler[h] \in CallTypes /\ entries \in Policies
    BY <1>t DEF AllowTypes
  <2>3. c \in CallTypes /\ c.at = "create"
    BY <2>1, <2>2 DEF CallTypes
  <2>4. handler' = [handler EXCEPT ![h] = c]
    BY <1>3, <1>t, <2>1 DEF SaveEntries, AllowTypes
  <2>5. handler' \in [Handlers -> CallTypes] /\ handler'[h].at # "idle"
    BY <1>t, <2>3, <2>4, CallsTyped
  <2> QED BY <1>1, <2>5, MoveKept
<1> QED BY <1>2, <1>3

LEMMA CreateKept ==
    ASSUME AllowInv, NEW h \in Handlers, SaveCreate(h)
    PROVE  AllowInv'
<1>t. AllowTypes
    BY DEF AllowInv
<1>u. UNCHANGED <<entries, path, reload, notified, armed, watching, up, excuse>>
    BY DEF SaveCreate, watchVars
<1>1. PICK fd : fd = IF tmp = None THEN Fresh ELSE tmp
    OBVIOUS
<1>2. fd \in Inodes /\ fd # path /\ fd # None
    BY <1>t, <1>1, FreshInode, AllowlistAssumption DEF AllowTypes
<1>3. CASE /\ tmp' = fd /\ inode' = [inode EXCEPT ![fd] = {}]
           /\ handler' = [handler EXCEPT ![h].at = "write", ![h].fd = fd]
  <2>1. PICK c : c = [handler[h] EXCEPT !.at = "write", !.fd = fd]
    OBVIOUS
  <2>2. handler[h] \in CallTypes
    BY <1>t DEF AllowTypes
  <2>3. c \in CallTypes /\ c.at = "write"
    BY <1>2, <2>1, <2>2 DEF CallTypes
  <2>4. handler' = [handler EXCEPT ![h] = c]
    BY <1>3, <1>t, <2>1 DEF AllowTypes
  <2>5. handler' \in [Handlers -> CallTypes] /\ handler'[h].at # "idle"
    BY <1>t, <2>3, <2>4, CallsTyped
  <2>6. AllowTypes'
    BY <1>t, <1>u, <1>2, <1>3, <2>5 DEF AllowTypes, Policies
  <2>7. Contents' = Contents
    BY <1>t, <1>u, <1>2, <1>3 DEF Contents, AllowTypes
  <2>8. SureInv' /\ Settling'
    BY <1>u, <2>5, <2>7, CallsSettle
  <2> QED BY <2>6, <2>8 DEF AllowInv
<1>4. CASE To(h, "revert") /\ UNCHANGED <<tmp, inode>>
  <2>1. handler' \in [Handlers -> CallTypes] /\ handler'[h].at # "idle"
    BY <1>t, <1>4, MovesTo
  <2> QED BY <1>u, <1>4, <2>1, MoveKept
<1> QED BY <1>1, <1>3, <1>4 DEF SaveCreate

LEMMA WriteFileKept ==
    ASSUME AllowInv, NEW h \in Handlers, SaveWrite(h)
    PROVE  AllowInv'
<1>t. AllowTypes
    BY DEF AllowInv
<1>1. PICK fd : fd = handler[h].fd
    OBVIOUS
<1>u. /\ UNCHANGED <<entries, path, reload, armed, watching, up>>
      /\ notified' = (notified \/ (watching /\ fd = path))
      /\ excuse' = IF fd = path /\ ~watching THEN excuse \cup {"boot"} ELSE excuse
    BY <1>1 DEF SaveWrite, Notify, Edited
<1>2. handler[h] \in CallTypes /\ handler[h].file \in Policies /\ inode \in [Inodes -> Policies \cup {Broken}]
    BY <1>t, CallFields DEF AllowTypes
<1>3. PICK at \in {"rename", "revert"} : handler' = [handler EXCEPT ![h].at = at, ![h].fd = None]
    BY DEF SaveWrite
<1>4. PICK c : c = [handler[h] EXCEPT !.at = at, !.fd = None]
    OBVIOUS
<1>5. c \in CallTypes /\ c.at # "idle"
    BY <1>2, <1>4 DEF CallTypes
<1>6. handler' = [handler EXCEPT ![h] = c]
    BY <1>t, <1>3, <1>4 DEF AllowTypes
<1>7. handler' \in [Handlers -> CallTypes] /\ handler'[h].at # "idle"
    BY <1>t, <1>5, <1>6, CallsTyped
<1>8. \E x \in Policies \cup {Broken} : inode' = [inode EXCEPT ![fd] = x] \/ inode' = inode
    BY <1>1, <1>2 DEF SaveWrite, Overwrite
<1>9. inode' \in [Inodes -> Policies \cup {Broken}] /\ \A i \in Inodes : i # fd => inode'[i] = inode[i]
    BY <1>2, <1>8
<1>10. tmp' = tmp \/ tmp' = None
    BY DEF SaveWrite
<1>11. AllowTypes'
    BY <1>t, <1>u, <1>7, <1>9, <1>10 DEF AllowTypes
<1>12. fd # path => Contents' = Contents
    BY <1>t, <1>u, <1>9 DEF Contents, AllowTypes
<1>13. SureInv' /\ Settling'
  <2>1. notified => notified'
    BY <1>u
  <2>2. excuse # {} => excuse' # {}
    BY <1>u
  <2>3. Contents' = Contents \/ (IF watching THEN notified' ELSE excuse' # {})
    BY <1>u, <1>12
  <2> QED BY <1>u, <1>7, <2>1, <2>2, <2>3, CallsSettle
<1> QED BY <1>11, <1>13 DEF AllowInv

\* The file loses its name, or not: the contents of every inode keep their type.
LEMMA UnlinkedType == AllowTypes => Unlinked \in [Inodes -> Policies \cup {Broken}]
BY DEF AllowTypes, Unlinked, Policies

LEMMA RenameFileKept ==
    ASSUME AllowInv, NEW h \in Handlers, SaveRename(h)
    PROVE  AllowInv'
<1>t. AllowTypes
    BY DEF AllowInv
<1>u. UNCHANGED <<entries, reload, armed, watching, up>>
    BY DEF SaveRename
<1>1. CASE To(h, "revert") /\ UNCHANGED <<filesVars, notified, excuse>>
  <2>1. handler' \in [Handlers -> CallTypes] /\ handler'[h].at # "idle"
    BY <1>t, <1>1, MovesTo
  <2> QED BY <1>u, <1>1, <2>1, MoveKept DEF filesVars
<1>2. CASE /\ tmp # None /\ path' = tmp /\ tmp' = None /\ inode' = Unlinked
           /\ Notify(TRUE) /\ Edited(TRUE)
           /\ handler' = [handler EXCEPT ![h] = NoCall]
  <2>1. /\ notified' = (notified \/ watching)
        /\ excuse' = IF ~watching THEN excuse \cup {"boot"} ELSE excuse
    BY <1>2 DEF Notify, Edited
  <2>2. handler' \in [Handlers -> CallTypes]
    BY <1>t, <1>2, CallsTyped, NoCallType
  <2>3. inode' \in [Inodes -> Policies \cup {Broken}]
    BY <1>t, <1>2, UnlinkedType
  <2>4. notified' \in BOOLEAN /\ path' \in Inodes \cup {None} /\ tmp' \in Inodes \cup {None}
    BY <1>t, <1>2, <2>1 DEF AllowTypes
  <2>5. AllowTypes'
    BY <1>t, <1>u, <1>2, <2>2, <2>3, <2>4 DEF AllowTypes
  <2>6. /\ notified => notified'
        /\ excuse # {} => excuse' # {}
        /\ IF watching THEN notified' ELSE excuse' # {}
    BY <2>1
  <2>7. SureInv' /\ Settling'
    BY <1>u, <2>6, CallsSettle
  <2> QED BY <2>5, <2>7 DEF AllowInv
<1> QED BY <1>1, <1>2 DEF SaveRename

LEMMA RevertKept ==
    ASSUME AllowInv, NEW h \in Handlers, Revert(h)
    PROVE  AllowInv'
<1>t. AllowTypes
    BY DEF AllowInv
<1>1. /\ UNCHANGED <<inode, path, tmp, reload, notified, armed, watching, up>>
      /\ excuse' # {} /\ handler' = [handler EXCEPT ![h] = NoCall]
      /\ entries' = Reverted(handler[h])
    BY DEF Revert, filesVars, watchVars
<1>2. handler[h] \in CallTypes /\ handler[h].of \in Policies /\ handler[h].prior \in Policies
    BY <1>t, CallFields DEF AllowTypes
<1>3. entries' \in Policies
    BY <1>t, <1>1, <1>2 DEF AllowTypes, Reverted, Revoke, Grant, Policies
<1>4. handler' \in [Handlers -> CallTypes]
    BY <1>t, <1>1, CallsTyped, NoCallType
<1>5. AllowTypes'
    BY <1>t, <1>1, <1>3, <1>4 DEF AllowTypes
<1>6. Contents' = Contents
    BY <1>1 DEF Contents
<1>7. SureInv' /\ Settling'
    BY <1>1, <1>6, CallsSettle
<1> QED BY <1>5, <1>7 DEF AllowInv

\* External: the operator's editor.
LEMMA EditKept ==
    ASSUME AllowInv, Edit
    PROVE  AllowInv'
<1>t. AllowTypes
    BY DEF AllowInv
<1>0. PICK f : f = Fresh
    OBVIOUS
<1>1. PICK new \in Policies \cup {Broken} :
        f = Fresh /\ inode' = [Unlinked EXCEPT ![f] = new] /\ path' = f
    BY <1>0 DEF Edit
<1>2. /\ UNCHANGED <<entries, tmp, handler, reload, armed, watching, up>>
      /\ notified' = (notified \/ watching)
      /\ excuse' = IF ~watching THEN excuse \cup {"boot"} ELSE excuse
    BY DEF Edit, Notify, Edited
<1>3. f \in Inodes /\ f # tmp
    BY <1>t, <1>1, FreshInode
<1>4. inode' \in [Inodes -> Policies \cup {Broken}]
    BY <1>t, <1>1, UnlinkedType
<1>5. notified' \in BOOLEAN
    BY <1>t, <1>2 DEF AllowTypes
<1>6. AllowTypes'
    BY <1>t, <1>1, <1>2, <1>3, <1>4, <1>5 DEF AllowTypes
<1>7. /\ notified => notified'
      /\ excuse # {} => excuse' # {}
      /\ IF watching THEN notified' ELSE excuse' # {}
    BY <1>2
<1>8. SureInv' /\ Settling'
    BY <1>2, <1>7, CallsSettle
<1> QED BY <1>6, <1>8 DEF AllowInv

\* A reload that goes on, or ends without having copied.
LEMMA ReloadMoves ==
    ASSUME AllowInv, NEW r \in Reloaders, NEW x \in ReloadTypes,
           reload' = [reload EXCEPT ![r] = x],
           UNCHANGED <<inode, path, tmp, handler, notified, armed, watching, up, excuse>>,
           entries' \in Policies,
           \/ /\ Copying(r) /\ x.at \in {"lock", "clear", "grant"}
              /\ x.new = reload[r].new /\ x.sure = reload[r].sure
           \/ ~Copying(r) /\ x.at = "idle" /\ entries' = entries
    PROVE  AllowInv'
<1>t. AllowTypes /\ SureInv /\ Settling
    BY DEF AllowInv
<1>1. reload' \in [Reloaders -> ReloadTypes] /\ reload'[r] = x
      /\ \A o \in Reloaders : o # r => reload'[o] = reload[o]
    BY <1>t DEF AllowTypes
<1>2. AllowTypes'
    BY <1>t, <1>1 DEF AllowTypes
<1>3. Contents' = Contents
    BY DEF Contents
<1>4. \A o \in Reloaders : Copying(o)' => Copying(o)
    BY <1>1 DEF Copying
<1>5. \A o \in Reloaders : Copying(o) =>
         Copying(o)' /\ reload'[o].new = reload[o].new /\ reload'[o].sure = reload[o].sure
    BY <1>1 DEF Copying
<1>6. SureInv'
    BY <1>t, <1>3, <1>4, <1>5 DEF SureInv
<1>7. Settling'
  <2> SUFFICES ASSUME up, Contents # Broken, entries' # Contents, ~notified, ~armed, excuse = {},
                      \A h \in Handlers : handler[h].at = "idle"
               PROVE  \E o \in Reloaders : Copying(o)' /\ (~reload'[o].sure \/ reload'[o].new = Contents')
    BY <1>3 DEF Settling
  <2>1. \E o \in Reloaders : Copying(o) /\ (~reload[o].sure \/ reload[o].new = Contents)
    <3>1. CASE Copying(r)
        BY <1>t, <3>1 DEF SureInv
    <3>2. CASE ~Copying(r)
      <4>1. entries' = entries
        BY <3>2
      <4> QED BY <1>t, <4>1 DEF Settling
    <3> QED BY <3>1, <3>2
  <2> QED BY <1>3, <1>5, <2>1
<1> QED BY <1>2, <1>6, <1>7 DEF AllowInv

LEMMA ReloadKept ==
    ASSUME AllowInv, NEW r \in Reloaders,
           ReloadRefused(r) \/ ReloadLock(r) \/ ReloadClear(r) \/ ReloadAudit(r)
    PROVE  AllowInv'
<1>t. AllowTypes /\ reload[r] \in ReloadTypes /\ entries \in Policies
    BY DEF AllowInv, AllowTypes
<1>u. UNCHANGED <<inode, path, tmp, handler, notified, armed, watching, up, excuse>>
    BY DEF ReloadRefused, ReloadLock, ReloadClear, ReloadAudit, filesVars, watchVars
<1>1. CASE ReloadRefused(r) \/ ReloadAudit(r)
  <2>1. /\ reload' = [reload EXCEPT ![r] = NoReload] /\ entries' = entries /\ ~Copying(r)
    BY <1>1 DEF ReloadRefused, ReloadAudit, Copying
  <2> QED BY <1>t, <1>u, <2>1, NoReloadType, ReloadMoves
<1>2. ASSUME NEW at \in {"clear", "grant"}, reload' = [reload EXCEPT ![r].at = at],
             entries' = entries, Copying(r)
      PROVE  AllowInv'
  <2>1. PICK x : x = [reload[r] EXCEPT !.at = at]
    OBVIOUS
  <2>2. x \in ReloadTypes /\ x.at = at /\ x.new = reload[r].new /\ x.sure = reload[r].sure
    BY <1>t, <2>1 DEF ReloadTypes
  <2>3. reload' = [reload EXCEPT ![r] = x]
    BY <1>t, <1>2, <2>1 DEF AllowTypes
  <2> QED BY <1>t, <1>u, <1>2, <2>2, <2>3, ReloadMoves
<1>3. CASE ReloadLock(r)
    BY <1>2, <1>3 DEF ReloadLock, Copying
<1>4. CASE ReloadClear(r) /\ reload' = reload
  <2>1. entries' \in Policies /\ Copying(r)
    BY <1>t, <1>4 DEF ReloadClear, Revoke, Policies, Copying
  <2>2. reload' = [reload EXCEPT ![r] = reload[r]]
    BY <1>t, <1>4 DEF AllowTypes
  <2>3. reload[r].at \in {"lock", "clear", "grant"}
    BY <2>1 DEF Copying
  <2> QED BY <1>t, <1>u, <2>1, <2>2, <2>3, ReloadMoves
<1>5. CASE ReloadClear(r) /\ reload' # reload
    BY <1>2, <1>5 DEF ReloadClear, Copying
<1> QED BY <1>1, <1>3, <1>4, <1>5

\* The copy: recipient by recipient, and its end.
LEMMA GrantKept ==
    ASSUME AllowInv, NEW r \in Reloaders, ReloadGrant(r)
    PROVE  AllowInv'
<1>t. AllowTypes /\ SureInv /\ Settling /\ reload[r] \in ReloadTypes /\ entries \in Policies
    BY DEF AllowInv, AllowTypes
<1>u. UNCHANGED <<inode, path, tmp, handler, notified, armed, watching, up>> /\ Copying(r)
    BY DEF ReloadGrant, filesVars, watchVars, Copying
<1>1. CASE reload' = reload
  <2>0. UNCHANGED excuse /\ \E g \in reload[r].new : entries' = Grant({x \in reload[r].new : x[1] = g[1]})
    <3>1. reload[r].at = "grant" /\ reload \in [Reloaders -> ReloadTypes]
        BY <1>t DEF ReloadGrant, AllowTypes
    <3>2. [reload EXCEPT ![r].at = "audit"] # reload
        BY <1>t, <3>1 DEF ReloadTypes
    <3> QED BY <1>1, <3>2 DEF ReloadGrant
  <2>1. entries' \in Policies
    BY <1>t, <2>0, ReloadFields DEF Grant, Policies
  <2>2. reload' = [reload EXCEPT ![r] = reload[r]]
    BY <1>t, <1>1 DEF AllowTypes
  <2>3. reload[r].at \in {"lock", "clear", "grant"}
    BY <1>u DEF Copying
  <2> QED BY <1>t, <1>u, <2>0, <2>1, <2>2, <2>3, ReloadMoves
<1>2. CASE reload' # reload
  <2>1. /\ entries = reload[r].new /\ entries' = entries
        /\ reload' = [reload EXCEPT ![r].at = "audit"]
        /\ excuse' = IF reload[r].sure THEN {} ELSE excuse \cup {"overlap"}
    BY <1>2 DEF ReloadGrant
  <2>2. PICK x : x = [reload[r] EXCEPT !.at = "audit"]
    OBVIOUS
  <2>3. x \in ReloadTypes /\ x.at = "audit"
    BY <1>t, <2>2 DEF ReloadTypes
  <2>4. reload' \in [Reloaders -> ReloadTypes] /\ reload'[r] = x
        /\ \A o \in Reloaders : o # r => reload'[o] = reload[o]
    BY <1>t, <2>1, <2>2, <2>3 DEF AllowTypes
  <2>5. AllowTypes'
    BY <1>t, <1>u, <2>1, <2>4 DEF AllowTypes
  <2>6. Contents' = Contents
    BY <1>u DEF Contents
  <2>7. \A o \in Reloaders : Copying(o)' => Copying(o) /\ reload'[o] = reload[o]
    BY <2>3, <2>4 DEF Copying
  <2>8. SureInv'
    BY <1>t, <1>u, <2>6, <2>7 DEF SureInv
  <2>9. Settling'
    <3>1. CASE reload[r].sure
      <4>1. reload[r].new = Contents \/ notified \/ armed
        BY <1>t, <1>u, <3>1 DEF SureInv
      <4> QED BY <1>u, <2>1, <2>6, <4>1 DEF Settling
    <3>2. CASE ~reload[r].sure
      <4>1. excuse' # {}
        BY <2>1, <3>2
      <4> QED BY <4>1 DEF Settling
    <3> QED BY <3>1, <3>2
  <2> QED BY <2>5, <2>8, <2>9 DEF AllowInv
<1> QED BY <1>1, <1>2

\* The read of the file makes every other reload unsure of itself.
LEMMA LoadKept ==
    ASSUME AllowInv, NEW r \in Reloaders, loadAllowlist(r),
           UNCHANGED <<entries, inode, path, tmp, handler, notified, watching, up, excuse>>,
           armed' \in BOOLEAN
    PROVE  AllowInv'
<1>t. AllowTypes /\ reload \in [Reloaders -> ReloadTypes]
    BY DEF AllowInv, AllowTypes
<1>1. PICK x : x = [at |-> IF Contents = Broken THEN "refused" ELSE "lock",
                    new |-> IF Contents = Broken THEN {} ELSE Contents,
                    sure |-> watching /\ OthersIdle(r)]
    OBVIOUS
<1>2. reload' = [o \in Reloaders |-> IF o = r THEN x
                 ELSE [reload[o] EXCEPT !.sure = (reload[o] = NoReload)]]
    BY <1>1 DEF loadAllowlist
<1>3. /\ x \in ReloadTypes /\ (x.sure => watching)
      /\ Contents # Broken => x.at = "lock" /\ x.new = Contents
      /\ Contents = Broken => x.at = "refused"
  <2>1. Contents \in Policies \cup {Broken} /\ {} \in Policies
    BY <1>t, ContentsType DEF Policies
  <2>2. (watching /\ OthersIdle(r)) \in BOOLEAN
    BY <1>t DEF AllowTypes, OthersIdle
  <2>3. x.sure = (watching /\ OthersIdle(r))
    BY <1>1
  <2>4. x \in ReloadTypes
    BY <1>1, <2>1, <2>2 DEF ReloadTypes
  <2> QED BY <1>1, <2>3, <2>4
<1>4. ASSUME NEW o \in Reloaders, o # r
      PROVE  /\ reload'[o] \in ReloadTypes /\ reload'[o].at = reload[o].at
             /\ Copying(o) => ~reload'[o].sure
  <2>1. reload[o] \in ReloadTypes /\ (reload[o] = NoReload) \in BOOLEAN
    BY <1>t
  <2>2. Copying(o) => reload[o] # NoReload
    BY NoReloadType DEF Copying
  <2>3. reload'[o] = [reload[o] EXCEPT !.sure = (reload[o] = NoReload)]
    BY <1>2, <1>4
  <2>4. reload'[o] \in ReloadTypes /\ reload'[o].at = reload[o].at /\ reload'[o].sure = (reload[o] = NoReload)
    BY <2>1, <2>3 DEF ReloadTypes
  <2> QED BY <2>2, <2>4
<1>5. reload'[r] = x
    BY <1>2
<1>6. reload' \in [Reloaders -> ReloadTypes]
    BY <1>2, <1>3, <1>4, <1>5
<1>7. AllowTypes'
    BY <1>t, <1>6 DEF AllowTypes
<1>8. Contents' = Contents
    BY DEF Contents
<1>9. SureInv'
  <2> SUFFICES ASSUME NEW o \in Reloaders, Copying(o)', reload'[o].sure
               PROVE  watching /\ (reload'[o].new = Contents)
    BY <1>8 DEF SureInv
  <2>1. o = r
    BY <1>4 DEF Copying
  <2> QED BY <1>3, <1>5, <2>1 DEF Copying
<1>10. Settling'
  <2> SUFFICES ASSUME Contents # Broken
               PROVE  \E o \in Reloaders : Copying(o)' /\ reload'[o].new = Contents'
    BY <1>8 DEF Settling
  <2> QED BY <1>3, <1>5, <1>8 DEF Copying
<1> QED BY <1>7, <1>9, <1>10 DEF AllowInv

LEMMA AllowKept == AllowInv /\ [AllowNext]_allowVars => AllowInv'
<1> SUFFICES ASSUME AllowInv, [AllowNext]_allowVars PROVE AllowInv'
    OBVIOUS
<1>t. AllowTypes /\ SureInv /\ Settling
    BY DEF AllowInv
<1>1. ASSUME NEW h \in Handlers, handleAllowAdd(h) PROVE AllowInv'
  <2>1. PICK jid \in Jids, as \in SUBSET Actions : Begin(h, "add", jid, {jid} \X as)
    BY <1>1 DEF handleAllowAdd
  <2>2. {jid} \X as \in Policies
    BY DEF Policies, Grants
  <2> QED BY <2>1, <2>2, BeginKept
<1>2. ASSUME NEW h \in Handlers, handleAllowRemove(h) PROVE AllowInv'
    BY <1>t, <1>2, OfType, BeginKept DEF handleAllowRemove
<1>3. CASE StartWatch
  <2>1. /\ watching' = TRUE
        /\ UNCHANGED <<entries, inode, path, tmp, handler, reload, notified, armed, up, excuse>>
    BY <1>3 DEF StartWatch, filesVars
  <2>2. AllowTypes'
    BY <1>t, <2>1 DEF AllowTypes
  <2>3. SureInv' /\ Settling'
    BY <1>t, <2>1 DEF SureInv, Settling, Copying, Contents
  <2> QED BY <2>2, <2>3 DEF AllowInv
<1>4. CASE Trigger
  <2>1. /\ armed' = TRUE /\ notified' = FALSE
        /\ UNCHANGED <<entries, inode, path, tmp, handler, reload, watching, up, excuse>>
    BY <1>4 DEF Trigger, filesVars
  <2>2. AllowTypes'
    BY <1>t, <2>1 DEF AllowTypes
  <2>3. SureInv' /\ Settling'
    BY <1>t, <2>1 DEF SureInv, Settling, Copying, Contents
  <2> QED BY <2>2, <2>3 DEF AllowInv
<1>5. CASE WatchReload
  <2>1. loadAllowlist("watch") /\ "watch" \in Reloaders /\ armed' \in BOOLEAN
        /\ UNCHANGED <<entries, inode, path, tmp, handler, notified, watching, up, excuse>>
    BY <1>5, <1>t DEF WatchReload, filesVars, Reloaders, AllowTypes
  <2> QED BY <2>1, LoadKept
<1>6. CASE handleAdminReload
  <2>1. loadAllowlist("rpc") /\ "rpc" \in Reloaders /\ armed' \in BOOLEAN
        /\ UNCHANGED <<entries, inode, path, tmp, handler, notified, watching, up, excuse>>
    BY <1>6, <1>t DEF handleAdminReload, filesVars, watchVars, Reloaders, AllowTypes
  <2> QED BY <2>1, LoadKept
<1>7. CASE Kill
  <2>1. /\ up' = FALSE /\ entries' = {} /\ UNCHANGED <<inode, path, tmp>>
        /\ handler' = [h \in Handlers |-> NoCall] /\ reload' = [r \in Reloaders |-> NoReload]
        /\ notified' = FALSE /\ armed' = FALSE /\ watching' = FALSE
    BY <1>7 DEF Kill, filesVars
  <2>2. AllowTypes'
    <3>1. handler' \in [Handlers -> CallTypes] /\ reload' \in [Reloaders -> ReloadTypes]
          /\ entries' \in Policies
        BY <2>1, NoCallType, NoReloadType DEF Policies
    <3> QED BY <1>t, <2>1, <3>1 DEF AllowTypes
  <2>3. SureInv'
    BY <2>1, NoReloadType DEF SureInv, Copying
  <2>4. Settling'
    BY <2>1 DEF Settling
  <2> QED BY <2>2, <2>3, <2>4 DEF AllowInv
<1>8. CASE Boot
  <2>1. /\ up' = TRUE /\ entries' = Contents /\ Contents # Broken
        /\ UNCHANGED <<inode, path, tmp, handler, reload, notified, armed, watching>>
    BY <1>8 DEF Boot, filesVars, watchVars
  <2>2. Contents' = Contents /\ entries' \in Policies
    BY <1>t, <2>1, ContentsType DEF Contents
  <2>3. AllowTypes'
    BY <1>t, <2>1, <2>2 DEF AllowTypes
  <2>4. SureInv'
    BY <1>t, <2>1, <2>2 DEF SureInv, Copying
  <2>5. Settling'
    BY <2>1, <2>2 DEF Settling
  <2> QED BY <2>3, <2>4, <2>5 DEF AllowInv
<1>9. CASE UNCHANGED allowVars
  <2>1. UNCHANGED <<entries, inode, path, tmp, handler, reload, notified, armed, watching, up, excuse>>
    BY <1>9 DEF allowVars, filesVars, watchVars
  <2>2. AllowTypes'
    BY <1>t, <2>1 DEF AllowTypes
  <2>3. SureInv' /\ Settling'
    BY <1>t, <2>1 DEF SureInv, Settling, Copying, Contents
  <2> QED BY <2>2, <2>3 DEF AllowInv
<1> QED BY <1>1, <1>2, <1>3, <1>4, <1>5, <1>6, <1>7, <1>8, <1>9, AuditKept, CreateKept,
           WriteFileKept, RenameFileKept, RevertKept, EditKept, ReloadKept, GrantKept
        DEF AllowNext

\* allow add, allow remove, the watcher, SIGHUP and admin.reload: when nothing is in
\* progress the policy that is enforced is the one in allowlist.toml, for any number
\* of calls, recipients and edits, with the exceptions that Agrees names.
THEOREM AgreesHolds == Spec => []Agrees
<1>1. Init => AllowInv
  <2> SUFFICES ASSUME AllowInit PROVE AllowInv
    BY DEF Init
  <2>1. (CHOOSE i \in Inodes : TRUE) \in Inodes
    <3>1. Inodes # {}
      <4>1. Cardinality(Handlers) \in Nat
        BY AllowlistAssumption, FS_CardinalityType
      <4> QED BY <4>1, AllowlistAssumption, FS_EmptySet
    <3> QED BY <3>1
  <2>2. AllowTypes
    <3>1. handler \in [Handlers -> CallTypes] /\ reload \in [Reloaders -> ReloadTypes]
        BY NoCallType, NoReloadType DEF AllowInit
    <3>2. inode \in [Inodes -> Policies \cup {Broken}] /\ entries \in Policies
        BY DEF AllowInit, Policies
    <3>3. path \in Inodes \cup {None} /\ tmp = None
        BY <2>1 DEF AllowInit
    <3> QED BY <3>1, <3>2, <3>3 DEF AllowInit, AllowTypes
  <2>3. SureInv
    BY NoReloadType DEF AllowInit, SureInv, Copying
  <2>4. Settling
    BY DEF AllowInit, Settling
  <2> QED BY <2>2, <2>3, <2>4 DEF AllowInv
<1>2. AllowInv /\ [Next]_controlVars => AllowInv'
  <2> SUFFICES ASSUME AllowInv, [Next]_controlVars PROVE [AllowNext]_allowVars
    BY AllowKept
  <2> QED BY DEF Next, LogStep, AllowStep, DraftStep, controlVars
<1>3. AllowInv => Agrees
  <2> SUFFICES ASSUME AllowInv, Quiet, excuse = {}, Contents # Broken PROVE entries = Contents
    BY DEF Agrees
  <2>1. /\ up /\ ~notified /\ ~armed
        /\ \A h \in Handlers : handler[h].at = "idle"
        /\ \A r \in Reloaders : ~Copying(r)
    BY NoCallType, NoReloadType DEF Quiet, Copying
  <2> QED BY <2>1 DEF AllowInv, Settling
<1> QED BY <1>1, <1>2, <1>3, PTL DEF Spec

-----------------------------------------------------------------------------
(* The drafts: what is stored and what waits *)

States == {"none", "pending", "approved", "rejected", "expired"}
Rows == [state : States, created : Nat]
Requests == [op : Ops \cup {"none"}, id : Ids, at : Nat]

-----------------------------------------------------------------------------
(* The invariant of the drafts *)

\* Rows and times; a row that is not there is NoRow.
RowsOK ==
    /\ draft \in [Ids -> Rows]
    /\ clock \in Nat
    /\ \A i \in Ids : draft[i].state = "none" => draft[i] = NoRow

\* A waiting call names a draft and a time that has come.
RequestsOK ==
    /\ DOMAIN request = Clients
    /\ \A c \in Clients :
        request[c].op # "none" => /\ request[c] \in Requests
                                  /\ request[c].at <= clock

\* A call that will create a draft has its id for itself.
FreshIds ==
    \A c \in Clients : request[c].op = "create" =>
        /\ draft[request[c].id] = NoRow
        /\ \A o \in Clients \ {c} : request[o].op = "create" => request[o].id # request[c].id

\* The time of a waiting sweep has come.
SweepOK == sweepAt # NoSweep => sweepAt \in Nat /\ sweepAt <= clock

DraftInv == RowsOK /\ RequestsOK /\ FreshIds /\ SweepOK

\* A row is a record of its two fields.
LEMMA RowFields ==
    ASSUME NEW s \in States, NEW n \in Nat
    PROVE  Row(s, n) \in Rows /\ Row(s, n).state = s /\ Row(s, n).created = n
  BY DEF Row, Rows

LEMMA NoRowFields ==
    NoRow \in Rows /\ NoRow.state = "none"
  BY RowFields DEF NoRow, States

\* The same for a waiting call.
LEMMA RequestFields ==
    ASSUME NEW o \in Ops \cup {"none"}, NEW i, NEW n
    PROVE  /\ Request(o, i, n).op = o /\ Request(o, i, n).id = i /\ Request(o, i, n).at = n
           /\ i \in Ids /\ n \in Nat => Request(o, i, n) \in Requests
  BY DEF Request, Requests

LEMMA NoRequestFields ==
    ASSUME NEW i
    PROVE  NoRequest(i).op = "none"
  BY RequestFields DEF NoRequest

LEMMA InitOK ==
    DraftInit => DraftInv
<1> SUFFICES ASSUME DraftInit PROVE DraftInv
  OBVIOUS
<1> USE DEF DraftInit
<1>1. RowsOK
  BY NoRowFields DEF RowsOK
<1>2. \A c \in Clients : request[c].op = "none"
  <2> DEFINE first == CHOOSE i \in Ids : TRUE
  <2>1. request = [c \in Clients |-> NoRequest(first)]
    OBVIOUS
  <2> HIDE DEF first
  <2>2. NoRequest(first).op = "none"
    BY NoRequestFields
  <2> QED
    BY <2>1, <2>2
<1>3. RequestsOK
  BY <1>2 DEF RequestsOK
<1>4. FreshIds
  BY <1>2 DEF FreshIds
<1>5. SweepOK
  BY DEF SweepOK
<1> QED
  BY <1>1, <1>3, <1>4, <1>5 DEF DraftInv

\* A call that was answered waits no more, the others are as they were.
LEMMA AnsweredOK ==
    ASSUME DraftInv, NEW c \in Clients, Answered(c)
    PROVE  /\ DOMAIN request' = Clients
           /\ request'[c].op = "none"
           /\ \A o \in Clients : request'[o].op # "none" => o # c /\ request'[o] = request[o]
<1>1. request' = [request EXCEPT ![c] = NoRequest(request[c].id)]
  BY DEF Answered
<1>2. NoRequest(request[c].id).op = "none"
  BY RequestFields DEF NoRequest
<1> QED
  BY <1>1, <1>2 DEF DraftInv, RequestsOK

\* A handler leaves a call of its own and touches no other.
LEMMA AskOK ==
    ASSUME DraftInv, NEW c \in Clients, NEW op \in Ops, NEW i \in Ids, Ask(c, op, i)
    PROVE  /\ RowsOK' /\ RequestsOK' /\ SweepOK'
           /\ request'[c].op = op /\ request'[c].id = i
           /\ \A o \in Clients \ {c} : request'[o] = request[o]
           /\ draft' = draft
<1>1. request' = [request EXCEPT ![c] = Request(op, i, clock)]
  BY DEF Ask
<1>2. UNCHANGED <<draft, sweepAt, sweeping, clock>>
  BY DEF Ask
<1>3. clock \in Nat /\ DOMAIN request = Clients
  BY DEF DraftInv, RowsOK, RequestsOK
<1>4. request'[c] = Request(op, i, clock) /\ \A o \in Clients \ {c} : request'[o] = request[o]
  BY <1>1, <1>3
<1>5. Request(op, i, clock) \in Requests /\ Request(op, i, clock).at = clock
      /\ Request(op, i, clock).op = op /\ Request(op, i, clock).id = i
  BY RequestFields, <1>3
<1>6. RequestsOK'
  <2>1. DOMAIN request' = Clients
    BY <1>1, <1>3
  <2>2. ASSUME NEW o \in Clients, request'[o].op # "none"
        PROVE  request'[o] \in Requests /\ request'[o].at <= clock'
    <3>1. CASE o = c
      BY <3>1, <1>4, <1>5, <1>3, <1>2
    <3>2. CASE o # c
      BY <3>2, <2>2, <1>4, <1>2 DEF DraftInv, RequestsOK
    <3> QED
      BY <3>1, <3>2
  <2> QED
    BY <2>1, <2>2 DEF RequestsOK
<1>7. RowsOK' /\ SweepOK'
  BY <1>2 DEF DraftInv, RowsOK, SweepOK, NoSweep
<1> QED
  BY <1>2, <1>4, <1>5, <1>6, <1>7

\* Calls that wait no more leave the rest of the calls in order.
LEMMA FewerRequests ==
    ASSUME DraftInv, clock' = clock, DOMAIN request' = Clients,
           \A o \in Clients : request'[o].op # "none" => request'[o] = request[o]
    PROVE  RequestsOK'
  BY DEF DraftInv, RequestsOK

LEMMA NextOK ==
    DraftInv /\ [DraftNext]_draftVars => DraftInv'
<1> SUFFICES ASSUME DraftInv, [DraftNext]_draftVars PROVE DraftInv'
  OBVIOUS
<1>1. ASSUME NEW c \in Clients, NEW i \in Ids, handleDraftCreate(c, i) PROVE DraftInv'
  <2>1. Ask(c, "create", i) /\ draft[i] = NoRow
        /\ \A o \in Clients : request[o].op # "create" \/ request[o].id # i
    BY <1>1 DEF handleDraftCreate
  <2>2. RowsOK' /\ RequestsOK' /\ SweepOK' /\ draft' = draft
        /\ request'[c].op = "create" /\ request'[c].id = i
        /\ \A o \in Clients \ {c} : request'[o] = request[o]
    BY <2>1, AskOK DEF Ops
  <2>3. FreshIds'
    BY <2>1, <2>2 DEF DraftInv, FreshIds, NoRow, Row
  <2> QED
    BY <2>2, <2>3 DEF DraftInv
<1>2. ASSUME NEW c \in Clients, NEW i \in Ids, NEW op \in {"approved", "rejected"}, Ask(c, op, i)
      PROVE  DraftInv'
  <2>1. RowsOK' /\ RequestsOK' /\ SweepOK' /\ draft' = draft
        /\ request'[c].op = op
        /\ \A o \in Clients \ {c} : request'[o] = request[o]
    BY <1>2, AskOK DEF Ops
  <2>2. FreshIds'
    BY <2>1 DEF DraftInv, FreshIds, NoRow, Row
  <2> QED
    BY <2>1, <2>2 DEF DraftInv
<1>3. ASSUME NEW c \in Clients, PutDraft(c) PROVE DraftInv'
  <2> DEFINE j == request[c].id
  <2>1. request[c].op = "create" /\ Answered(c) /\ UNCHANGED <<sweepAt, sweeping, clock>>
        /\ draft' = [draft EXCEPT ![j] = NewDraft(request[c].at)]
    BY <1>3 DEF PutDraft
  <2>2. j \in Ids /\ request[c].at \in Nat
    BY <2>1 DEF DraftInv, RequestsOK, Requests
  <2>3. NewDraft(request[c].at) \in Rows /\ NewDraft(request[c].at).state = "pending"
    BY <2>2, RowFields DEF NewDraft, States
  <2>4. RowsOK'
    BY <2>1, <2>2, <2>3 DEF DraftInv, RowsOK, NoRow, Row
  <2>5. RequestsOK'
    BY <2>1, AnsweredOK, FewerRequests
  <2>6. FreshIds'
    BY <2>1, <2>2, AnsweredOK DEF DraftInv, FreshIds, RowsOK, RequestsOK, Requests, NoRow, Row
  <2>7. SweepOK'
    BY <2>1 DEF DraftInv, SweepOK, NoSweep
  <2> QED
    BY <2>4, <2>5, <2>6, <2>7 DEF DraftInv
<1>4. ASSUME NEW c \in Clients, Transition(c) PROVE DraftInv'
  <2> DEFINE j == request[c].id
             r == Row(request[c].op, draft[j].created)
  <2>1. request[c].op \in {"approved", "rejected"} /\ Answered(c) /\ UNCHANGED <<sweepAt, sweeping, clock>>
        /\ draft[j].state = "pending" /\ draft' = [draft EXCEPT ![j] = r]
    BY <1>4 DEF Transition, Decides
  <2>2. j \in Ids /\ draft[j] \in Rows /\ draft[j].created \in Nat
    BY <2>1 DEF DraftInv, RequestsOK, Requests, RowsOK, Rows
  <2>3. r \in Rows /\ r.state = request[c].op
    BY <2>1, <2>2, RowFields DEF States
  <2> HIDE DEF r
  <2>4. RowsOK'
    BY <2>1, <2>2, <2>3 DEF DraftInv, RowsOK, NoRow, Row
  <2>5. RequestsOK'
    BY <2>1, AnsweredOK, FewerRequests
  <2>6. ASSUME NEW o \in Clients, request[o].op = "create" PROVE request[o].id # j
    BY <2>1, <2>6, NoRowFields DEF DraftInv, FreshIds
  <2>7. FreshIds'
    BY <2>1, <2>2, <2>6, AnsweredOK DEF DraftInv, FreshIds, RowsOK, NoRow, Row
  <2>8. SweepOK'
    BY <2>1 DEF DraftInv, SweepOK, NoSweep
  <2> QED
    BY <2>4, <2>5, <2>7, <2>8 DEF DraftInv
<1>5. ASSUME NEW c \in Clients, GiveUp(c) PROVE DraftInv'
  <2>1. Answered(c) /\ UNCHANGED <<draft, sweepAt, sweeping, clock>>
    BY <1>5 DEF GiveUp
  <2>2. RequestsOK'
    BY <2>1, AnsweredOK, FewerRequests
  <2>3. FreshIds'
    BY <2>1, AnsweredOK DEF DraftInv, FreshIds, NoRow, Row
  <2>4. RowsOK' /\ SweepOK'
    BY <2>1 DEF DraftInv, RowsOK, SweepOK, NoSweep, NoRow, Row
  <2> QED
    BY <2>2, <2>3, <2>4 DEF DraftInv
<1>6. CASE Sweep
  BY <1>6 DEF Sweep, DraftInv, RowsOK, RequestsOK, FreshIds, SweepOK, NoSweep, NoRow, Row
<1>7. CASE ExpireDue
  <2> DEFINE after(i) == IF Expires(draft[i], sweepAt) THEN Row("expired", draft[i].created) ELSE draft[i]
  <2>1. draft' = [i \in Ids |-> after(i)] /\ sweepAt' = NoSweep /\ UNCHANGED <<request, sweeping, clock>>
    BY <1>7 DEF ExpireDue
  <2>2. ASSUME NEW i \in Ids
        PROVE  /\ after(i) \in Rows
               /\ after(i).state = "none" => after(i) = NoRow
               /\ draft[i] = NoRow => after(i) = NoRow
    <3>1. draft[i] \in Rows /\ draft[i].created \in Nat /\ (draft[i].state = "none" => draft[i] = NoRow)
      BY DEF DraftInv, RowsOK, Rows
    <3>2. Row("expired", draft[i].created) \in Rows /\ Row("expired", draft[i].created).state = "expired"
      BY <3>1, RowFields DEF States
    <3>3. Expires(draft[i], sweepAt) => draft[i].state = "pending"
      BY DEF Expires
    <3> QED
      BY <3>1, <3>2, <3>3, NoRowFields
  <2> HIDE DEF after
  <2>3. RowsOK'
    BY <2>1, <2>2 DEF DraftInv, RowsOK, NoRow, Row
  <2>4. RequestsOK'
    BY <2>1 DEF DraftInv, RequestsOK
  <2>5. FreshIds'
    BY <2>1, <2>2 DEF DraftInv, FreshIds, RequestsOK, Requests, NoRow, Row
  <2>6. SweepOK'
    BY <2>1 DEF SweepOK, NoSweep
  <2> QED
    BY <2>3, <2>4, <2>5, <2>6 DEF DraftInv
<1>8. CASE SweepFails
  BY <1>8 DEF SweepFails, DraftInv, RowsOK, RequestsOK, FreshIds, SweepOK, NoSweep, NoRow, Row
<1>9. CASE TickDrafts
  <2>1. clock' = clock + 1 /\ clock \in Nat /\ UNCHANGED <<draft, request, sweepAt, sweeping>>
    BY <1>9 DEF TickDrafts, DraftInv, RowsOK
  <2>2. RequestsOK'
    BY <2>1 DEF DraftInv, RequestsOK, Requests
  <2>3. RowsOK' /\ SweepOK'
    BY <2>1 DEF DraftInv, RowsOK, SweepOK, NoSweep, NoRow, Row
  <2>4. FreshIds'
    BY <2>1 DEF DraftInv, FreshIds, NoRow, Row
  <2> QED
    BY <2>2, <2>3, <2>4 DEF DraftInv
<1>10. CASE UNCHANGED draftVars
  BY <1>10 DEF draftVars, DraftInv, RowsOK, RequestsOK, FreshIds, SweepOK, NoSweep, NoRow, Row
<1> QED
  BY <1>1, <1>2, <1>3, <1>4, <1>5, <1>6, <1>7, <1>8, <1>9, <1>10
     DEF DraftNext, Client, handleDraftApprove, handleDraftReject

-----------------------------------------------------------------------------
(* The drafts table implements Review *)

\* What the abstract queue sees of the table.
Verdict == [i \in Ids |-> draft[i].state]

\* The same rows at the same time are overdue.
LEMMA OverdueSame ==
    ASSUME draft' = draft, clock' = clock
    PROVE  Verdict' = Verdict /\ Overdue' = Overdue
  BY DEF Verdict, Overdue, ExpiresAt

LEMMA StepRefines ==
    DraftInv /\ [DraftNext]_draftVars => [Promise!ReviewNext]_<<Verdict, Overdue>>
<1> SUFFICES ASSUME DraftInv, [DraftNext]_draftVars
             PROVE  Promise!ReviewNext \/ UNCHANGED <<Verdict, Overdue>>
  OBVIOUS
<1>1. ASSUME NEW c \in Clients, PutDraft(c) PROVE \E i \in Ids : Promise!Submit(i)
  <2> DEFINE j == request[c].id
             r == NewDraft(request[c].at)
  <2>1. request[c].op = "create" /\ clock' = clock /\ draft' = [draft EXCEPT ![j] = r]
    BY <1>1 DEF PutDraft
  <2>2. j \in Ids /\ request[c].at \in Nat /\ draft[j] = NoRow
    BY <2>1 DEF DraftInv, RequestsOK, Requests, FreshIds
  <2>3. r.state = "pending"
    BY <2>2, RowFields DEF NewDraft, States
  <2>4. draft[j].state = "none"
    BY <2>2, NoRowFields
  <2> HIDE DEF r, j
  <2>5. Verdict[j] = "none" /\ Verdict' = [Verdict EXCEPT ![j] = "pending"]
    BY <2>1, <2>2, <2>3, <2>4 DEF Verdict, DraftInv, RowsOK
  <2>6. \A i \in Ids \ {j} : i \in Overdue' <=> i \in Overdue
    BY <2>1 DEF Overdue, ExpiresAt, DraftInv, RowsOK
  <2>7. j \notin Overdue
    BY <2>4 DEF Overdue
  <2>8. Overdue \subseteq Ids /\ Overdue' \subseteq Ids
    BY DEF Overdue
  <2>9. Overdue' \in {Overdue, Overdue \cup {j}}
    BY <2>6, <2>7, <2>8
  <2> QED
    BY <2>2, <2>5, <2>9 DEF Promise!Submit, Verdict
<1>2. ASSUME NEW c \in Clients, Transition(c)
      PROVE  \E i \in Ids, d \in Promise!Decisions : Promise!Decide(i, d)
  <2> DEFINE j == request[c].id
             d == request[c].op
             r == Row(d, draft[j].created)
  <2>1. d \in {"approved", "rejected"} /\ clock' = clock /\ draft[j].state = "pending"
        /\ draft' = [draft EXCEPT ![j] = r]
    BY <1>2 DEF Transition, Decides
  <2>2. j \in Ids /\ draft[j].created \in Nat
    BY <2>1 DEF DraftInv, RequestsOK, Requests, RowsOK, Rows
  <2>3. r.state = d /\ r.created = draft[j].created
    BY <2>1, <2>2, RowFields DEF States
  <2> HIDE DEF r, j, d
  <2>4. Verdict[j] = "pending" /\ Verdict' = [Verdict EXCEPT ![j] = d]
    BY <2>1, <2>2, <2>3 DEF Verdict, DraftInv, RowsOK
  <2>5. Overdue' = Overdue
    BY <2>1, <2>2, <2>3 DEF Overdue, ExpiresAt, DraftInv, RowsOK
  <2> QED
    BY <2>1, <2>2, <2>4, <2>5 DEF Promise!Decide, Promise!Decisions, Verdict
<1>3. CASE ExpireDue
  <2> DEFINE due == {i \in Ids : Expires(draft[i], sweepAt)}
  <2>1. sweepAt \in Nat /\ sweepAt <= clock /\ clock' = clock /\ clock \in Nat
    BY <1>3 DEF ExpireDue, DraftInv, SweepOK, RowsOK
  <2>2. ASSUME NEW i \in Ids
        PROVE  /\ i \in due => draft[i].state = "pending" /\ i \in Overdue
               /\ draft'[i].state = IF i \in due THEN "expired" ELSE draft[i].state
               /\ draft'[i].created = draft[i].created
    <3>1. draft[i].created \in Nat
      BY DEF DraftInv, RowsOK, Rows
    <3>2. draft'[i] = IF i \in due THEN Row("expired", draft[i].created) ELSE draft[i]
      BY <1>3 DEF ExpireDue
    <3>3. Row("expired", draft[i].created).state = "expired"
          /\ Row("expired", draft[i].created).created = draft[i].created
      BY <3>1, RowFields DEF States
    <3>4. i \in due => draft[i].state = "pending" /\ sweepAt >= draft[i].created + ExpiryWindow
      BY DEF Expires, ExpiresAt
    <3>5. i \in due => clock >= draft[i].created + ExpiryWindow
      BY <2>1, <3>1, <3>4, DraftBounds
    <3>6. i \in due => draft[i].state = "pending" /\ i \in Overdue
      BY <3>4, <3>5 DEF Overdue, ExpiresAt
    <3> QED
      BY <3>2, <3>3, <3>6
  <2>3. due \in SUBSET Ids
    OBVIOUS
  <2> HIDE DEF due
  <2>4. \A i \in due : i \in Overdue /\ Verdict[i] = "pending"
    BY <2>2, <2>3 DEF Verdict
  <2>5. Verdict' = [i \in Ids |-> IF i \in due THEN "expired" ELSE Verdict[i]]
    BY <2>2 DEF Verdict
  <2>6. \A i \in Ids : draft'[i].state = "none" <=> draft[i].state = "none"
    BY <2>2, <2>3
  <2>7. Overdue' = Overdue
    BY <2>1, <2>2, <2>6 DEF Overdue, ExpiresAt
  <2>8. PICK s \in SUBSET Ids : s = due
    BY <2>3
  <2>9. Promise!Expire(s)
    BY <2>4, <2>5, <2>7, <2>8 DEF Promise!Expire, Verdict
  <2> QED
    BY <2>9 DEF Promise!ReviewNext
<1>4. CASE TickDrafts
  <2>1. clock' = clock + 1 /\ clock \in Nat /\ draft' = draft
    BY <1>4 DEF TickDrafts, DraftInv, RowsOK
  <2>2. \A i \in Ids : draft[i].created \in Nat
    BY DEF DraftInv, RowsOK, Rows
  <2>3. Overdue \subseteq Overdue'
    BY <2>1, <2>2, DraftBounds DEF Overdue, ExpiresAt
  <2>4. Verdict' = Verdict
    BY <2>1 DEF Verdict
  <2>5. Promise!TimePasses
    BY <2>3, <2>4 DEF Promise!TimePasses, Verdict
  <2> QED
    BY <2>5 DEF Promise!ReviewNext
<1>5. ASSUME NEW c \in Clients, NEW i \in Ids,
             handleDraftCreate(c, i) \/ handleDraftApprove(c, i) \/ handleDraftReject(c, i)
      PROVE  UNCHANGED <<Verdict, Overdue>>
  BY <1>5, OverdueSame DEF handleDraftCreate, handleDraftApprove, handleDraftReject, Ask
<1>6. ASSUME NEW c \in Clients, GiveUp(c) PROVE UNCHANGED <<Verdict, Overdue>>
  BY <1>6, OverdueSame DEF GiveUp
<1>7. CASE Sweep \/ SweepFails \/ UNCHANGED draftVars
  BY <1>7, OverdueSame DEF Sweep, SweepFails, draftVars
<1> QED
  BY <1>1, <1>2, <1>3, <1>4, <1>5, <1>6, <1>7 DEF DraftNext, Client, Promise!ReviewNext

\* domain/draft.go and sqlitedrafts: a draft is decided once, by a person at any
\* time or by a sweep after its window, whatever else waits for the connection.
THEOREM StoreImplementsReview == DraftSpec => ImplementsReview
<1>1. DraftInit => Promise!ReviewInit
  <2> SUFFICES ASSUME DraftInit PROVE Promise!ReviewInit
    OBVIOUS
  <2>1. Verdict = [i \in Ids |-> "none"]
    BY NoRowFields DEF DraftInit, Verdict
  <2>2. Overdue = {}
    BY NoRowFields DEF DraftInit, Overdue
  <2> QED
    BY <2>1, <2>2 DEF Promise!ReviewInit, Verdict
<1>2. DraftInit => DraftInv
  BY InitOK
<1>3. DraftInv /\ [DraftNext]_draftVars => DraftInv'
  BY NextOK
<1>4. DraftInv /\ [DraftNext]_draftVars => [Promise!ReviewNext]_(Promise!reviewVars)
  BY StepRefines DEF Promise!reviewVars, Verdict
<1> QED
  BY <1>1, <1>2, <1>3, <1>4, PTL DEF DraftSpec, ImplementsReview, Promise!ReviewSpec

\* The same of the daemon the three parts run in: the log and the allowlist never
\* touch the table.
THEOREM DraftsImplementReview == Spec => ImplementsReview
<1>1. Init => DraftInit
  BY DEF Init
<1>2. [Next]_controlVars => [DraftNext]_draftVars
  BY DEF Next, LogStep, AllowStep, DraftStep, controlVars
<1>3. Spec => DraftSpec
  BY <1>1, <1>2, PTL DEF Spec, DraftSpec
<1> QED
  BY <1>3, StoreImplementsReview
=============================================================================
