------------------------------ MODULE AuditLog ------------------------------
(***************************************************************************)
(* The audit log: one line per event, each line stamped with the hash of   *)
(* the line before it.  Events take their time before the log's lock, the  *)
(* log refuses one that is not later than the last it wrote.  A write may  *)
(* be cut short by a full disk or by a kill; the next line then continues  *)
(* the cut one.  A panic wipe removes the file from its path, but the log  *)
(* has it open and goes on writing to it.                                  *)
(*                                                                         *)
(* A line is the sequence of the writes it is made of; all but the last    *)
(* were cut.  A write is cut in its text, in its two hashes, or before the *)
(* newline.  The hash of a line is what it is computed from: the hash      *)
(* before it and the row.                                                  *)
(***************************************************************************)
EXTENDS Naturals, Sequences, SequencesExt, FiniteSets

CONSTANTS
    Callers,       \* the goroutines that write to the log
    MaxRows,       \* bound: events made
    MaxSecond,     \* bound: the clock, in seconds
    MaxLogFaults,  \* bound: failing system calls
    MaxLogLives    \* bound: boots

VARIABLES
    live,      \* the lines of audit.log
    rotated,   \* audit.log.<second> |-> its lines
    store,     \* the open log of the daemon and its panicDone, see Audit
    event,     \* caller |-> the event it made and did not write yet
    rows,      \* events made so far: the next one's time
    second,    \* the clock, in seconds
    logFaults,
    logLives,
    acked,     \* observed: the rows whose Record returned without an error
    replaced,  \* observed: the rows of files that a rename replaced
    wiped,     \* observed: the rows of a file that a panic removed, before or after
    severed    \* observed: the hashes a file was begun with, in the middle of a chain

logVars == <<live, rotated, store, event, rows, second, logFaults, logLives, acked, replaced,
             wiped, severed>>

NoEvent == 0
NoTime == 0
Genesis == <<>>
Cuts == {"text", "hashes", "newline"}

\* linked: the open file is the one at the path; panicDone: the adapter wiped once.
Audit == [running : BOOLEAN, open : BOOLEAN, linked : BOOLEAN, panicDone : BOOLEAN,
          last : Seq(1..MaxRows), lastTS : 0..MaxRows]
Down == [running |-> FALSE, open |-> FALSE, linked |-> FALSE, panicDone |-> FALSE,
         last |-> Genesis, lastTS |-> NoTime]

-----------------------------------------------------------------------------
(* Lines *)

\* HMAC-SHA-256 over the hash before and the row: no two inputs share one.
Mac(prev, row) == Append(prev, row)

Written(row, prev, cut) == [row |-> row, prev |-> prev, mac |-> Mac(prev, row), cut |-> cut]

Complete(line) == Last(line).cut = "no"

\* os.File.Write on a file opened with O_APPEND.
AppendTo(file, write) ==
    IF file = <<>> \/ Complete(Last(file))
    THEN Append(file, <<write>>)
    ELSE Append(Front(file), Append(Last(file), write))

\* bytes.LastIndex(line, `,"prev":"`): the last write that got as far as its hashes.
Tagged(line) == {k \in DOMAIN line : line[k].cut # "text"}
LastTag(line) == CHOOSE k \in Tagged(line) : \A m \in Tagged(line) : m <= k

\* Mutant: the hash before is not compared with the one the line names.
ChainedAnywhere(line, prev) ==
    /\ Len(line) = 1
    /\ line[1].cut \in {"no", "newline"}
\* The recorded hashes can be parsed, the one before is prev, and the hash of
\* all that stands before them is the recorded one.
Chained(line, prev) ==
    /\ Len(line) = 1
    /\ line[1].cut \in {"no", "newline"}
    /\ line[1].prev = prev

\* A line without the field restarts the chain and is skipped.
PreChain(line) == Tagged(line) = {}
HashAfter(line) == IF PreChain(line) THEN Genesis ELSE line[LastTag(line)].mac

VerifyChain(file) ==
    \A i \in DOMAIN file :
        \/ PreChain(file[i])
        \/ Chained(file[i], IF i = 1 THEN Genesis ELSE HashAfter(file[i - 1]))

\* The chain goes on from the last line if it is complete, and starts afresh
\* otherwise.
tailLastHMAC(file) ==
    IF file = <<>> \/ ~Complete(Last(file)) THEN Genesis ELSE HashAfter(Last(file))

-----------------------------------------------------------------------------
(* Operations *)

Fault == logFaults < MaxLogFaults /\ logFaults' = logFaults + 1

\* domain.NewAuditEvent: the time is taken here, not under the log's lock.
NewAuditEvent(c) ==
    /\ store.running
    /\ event[c] = NoEvent
    /\ rows < MaxRows
    /\ rows' = rows + 1
    /\ event' = [event EXCEPT ![c] = rows + 1]
    /\ UNCHANGED <<live, rotated, store, second, logFaults, logLives, acked, replaced, wiped, severed>>

OutOfOrder(ts) == store.lastTS # NoTime /\ ts <= store.lastTS

Handled(c) == event' = [event EXCEPT ![c] = NoEvent]

\* Not later than the last row, or the file is closed since a failed rotation.
Refuse(c) ==
    /\ OutOfOrder(event[c]) \/ ~store.open
    /\ UNCHANGED <<live, store, logFaults, acked, wiped>>

\* The write goes to the open file, wherever a panic left it.
WriteFile(write) ==
    IF store.linked
    THEN live' = AppendTo(live, write) /\ wiped' = wiped
    ELSE live' = live /\ wiped' = wiped \cup {write.row}

WriteRow(c) ==
    /\ ~OutOfOrder(event[c])
    /\ store.open
    /\ WriteFile(Written(event[c], store.last, "no"))
    /\ store' = [store EXCEPT !.last = Mac(store.last, event[c]), !.lastTS = event[c]]
    /\ acked' = acked \cup {event[c]}
    /\ UNCHANGED logFaults

\* Mutant: the handler's error is swallowed and Record returns nil.
FailWriteQuietly(c) ==
    /\ ~OutOfOrder(event[c])
    /\ store.open
    /\ Fault
    /\ acked' = acked \cup {event[c]}
    /\ UNCHANGED <<live, store, wiped>>
\* A failed write leaves nothing or a cut line; neither the hash nor the time moves.
FailWrite(c) ==
    /\ ~OutOfOrder(event[c])
    /\ store.open
    /\ Fault
    /\ \/ UNCHANGED <<live, wiped>>
       \/ \E cut \in Cuts : WriteFile(Written(event[c], store.last, cut))
    /\ UNCHANGED <<store, acked>>

Record(c) ==
    /\ store.running
    /\ event[c] # NoEvent
    /\ Refuse(c) \/ WriteRow(c) \/ FailWrite(c)
    /\ Handled(c)
    /\ UNCHANGED <<rotated, rows, second, logLives, replaced, severed>>

Closed == [store EXCEPT !.open = FALSE]
RowsOf(file) == {write.row : write \in UNION {Range(file[i]) : i \in DOMAIN file}}

\* The file that carries this second's name already, if any, is replaced.
RenameAway ==
    /\ rotated' = [s \in DOMAIN rotated \cup {second} |-> IF s = second THEN live ELSE rotated[s]]
    /\ replaced' = replaced \cup (IF second \in DOMAIN rotated THEN RowsOf(rotated[second]) ELSE {})
    /\ live' = <<>>

CloseFails ==
    /\ Fault
    /\ store' = Closed
    /\ UNCHANGED <<live, rotated, replaced, severed>>

\* The original is opened again and the chain goes on, unless that fails too.
RenameFails ==
    /\ store.linked
    /\ Fault
    /\ store' \in {store, Closed}
    /\ UNCHANGED <<live, rotated, replaced, severed>>

\* A panic removed the original: another file is begun at the path, and the chain
\* goes on in it from a line that it does not hold.
RenameFindsNone ==
    /\ ~store.linked
    /\ \/ /\ store' = [store EXCEPT !.linked = TRUE]
          /\ severed' = severed \cup ({store.last} \ {Genesis})
          /\ UNCHANGED logFaults
       \/ /\ Fault
          /\ store' = Closed
          /\ UNCHANGED severed
    /\ UNCHANGED <<live, rotated, replaced>>

OpenFails ==
    /\ store.linked
    /\ Fault
    /\ RenameAway
    /\ store' = Closed
    /\ UNCHANGED severed

FreshChain == [store EXCEPT !.last = Genesis, !.lastTS = NoTime]
Rotated ==
    /\ store.linked
    /\ RenameAway
    /\ store' = FreshChain
    /\ UNCHANGED <<logFaults, severed>>

\* handleAdminAuditRotate: rotate, then record the rotation.
Rotate(c) ==
    /\ store.running
    /\ store.open
    /\ event[c] = NoEvent
    /\ rows < MaxRows
    /\ \/ /\ CloseFails \/ RenameFails \/ RenameFindsNone \/ OpenFails
          /\ UNCHANGED <<event, rows>>
       \/ /\ Rotated
          /\ rows' = rows + 1
          /\ event' = [event EXCEPT ![c] = rows + 1]
    /\ UNCHANGED <<second, logLives, acked, wiped>>

\* removePanicArtefacts: audit.log goes with the rest.  Nothing is removed when the
\* call fails or comes between the rename and the open of a rotation.
RemoveLog ==
    \/ /\ live' = <<>>
       /\ wiped' = wiped \cup RowsOf(live)
       /\ store' = [store EXCEPT !.linked = FALSE, !.panicDone = TRUE]
    \/ /\ store' = [store EXCEPT !.panicDone = TRUE]
       /\ UNCHANGED <<live, wiped>>

Panic ==
    \/ store.panicDone /\ UNCHANGED <<live, store, wiped>>
    \/ ~store.panicDone /\ RemoveLog

\* The panic method: the wipe, whatever it reports, then its row for the log.
HandlePanic(c) ==
    /\ store.running
    /\ event[c] = NoEvent
    /\ rows < MaxRows
    /\ Panic
    /\ rows' = rows + 1
    /\ event' = [event EXCEPT ![c] = rows + 1]
    /\ UNCHANGED <<rotated, second, logFaults, logLives, acked, replaced, severed>>

\* The phone unlinked the device: the same wipe, and no row.
LoggedOut ==
    /\ store.running
    /\ Panic
    /\ UNCHANGED <<rotated, event, rows, second, logFaults, logLives, acked, replaced, severed>>

\* A kill, between two writes or in the middle of one.
KillLog ==
    /\ store.running
    /\ store' = Down
    /\ event' = [c \in Callers |-> NoEvent]
    /\ \/ UNCHANGED <<live, wiped>>
       \/ \E c \in Callers, cut \in Cuts :
             /\ event[c] # NoEvent
             /\ ~OutOfOrder(event[c])
             /\ store.open
             /\ WriteFile(Written(event[c], store.last, cut))
    /\ UNCHANGED <<rotated, rows, second, logFaults, logLives, acked, replaced, severed>>

OpenLog ==
    /\ ~store.running
    /\ logLives < MaxLogLives
    /\ logLives' = logLives + 1
    /\ store' = [running |-> TRUE, open |-> TRUE, linked |-> TRUE, panicDone |-> FALSE,
                 last |-> tailLastHMAC(live), lastTS |-> NoTime]
    /\ UNCHANGED <<live, rotated, event, rows, second, logFaults, acked, replaced, wiped, severed>>

TickLog ==
    /\ second < MaxSecond
    /\ second' = second + 1
    /\ UNCHANGED <<live, rotated, store, event, rows, logFaults, logLives, acked, replaced,
                   wiped, severed>>

LogInit ==
    /\ live = <<>>
    /\ rotated = <<>>
    /\ store = Down
    /\ event = [c \in Callers |-> NoEvent]
    /\ rows = 0
    /\ second = 0
    /\ logFaults = 0
    /\ logLives = 0
    /\ acked = {}
    /\ replaced = {}
    /\ wiped = {}
    /\ severed = {}

LogNext ==
    \/ \E c \in Callers : NewAuditEvent(c) \/ Record(c) \/ Rotate(c) \/ HandlePanic(c)
    \/ LoggedOut
    \/ KillLog
    \/ OpenLog
    \/ TickLog

-----------------------------------------------------------------------------
(* Properties *)

Files == {live} \cup {rotated[s] : s \in DOMAIN rotated}

\* The file's first row goes on a chain that began in a file a panic removed.
Severed(file) ==
    file # <<>> /\ Len(file[1]) = 1 /\ file[1][1].cut # "text" /\ file[1][1].prev \in severed

\* A line is one write, or nothing but the beginnings of some.
Undamaged(file) ==
    /\ ~Severed(file)
    /\ \A i \in DOMAIN file :
          \/ Len(file[i]) = 1 /\ file[i][1].cut # "hashes"
          \/ \A k \in DOMAIN file[i] : file[i][k].cut = "text"

\* `wa audit verify` tells the truth about every file, whatever boots,
\* rotations, refused rows, cut writes and panics came before: it accepts exactly
\* the files in which no line was cut in its hashes, no cut line was continued by
\* a row and the first row does not go on a chain from elsewhere (a rotation after
\* a panic begins such a file, and verify refuses it though it lost nothing), and
\* it notices when any line with a chained line after it is taken out.
VerifyTells ==
    \A file \in Files :
        /\ VerifyChain(file) <=> Undamaged(file)
        /\ VerifyChain(file) =>
              \A i \in DOMAIN file :
                  (\E j \in DOMAIN file : j > i /\ ~PreChain(file[j]))
                      => ~VerifyChain(RemoveAt(file, i))

\* A row whose Record returned without an error is in the log or in a rotated
\* file, through failed writes, rotations that fail at any of their calls and
\* restarts, with two exceptions.  A rotation in the same second took the file's
\* name; or a panic removed the log, which loses the rows it held and all that are
\* acknowledged until the next rotation or boot, the panic's own row among them.
AckedIsKept ==
    acked \subseteq (UNION {RowsOf(file) : file \in Files}) \cup replaced \cup wiped

\* What docs/manual.md says of it ("`wa panic` leaves the audit log intact").  A
\* panic after an acknowledged row refutes it.
PanicLeavesLogIntact == acked \cap wiped = {}
=============================================================================
