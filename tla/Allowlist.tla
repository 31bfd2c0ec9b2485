----------------------------- MODULE Allowlist -----------------------------
(***************************************************************************)
(* The allowlist: the policy in memory, allowlist.toml, the calls that     *)
(* change both (allow add, allow remove), the reloads that copy the file   *)
(* into memory (the watcher, SIGHUP, admin.reload) and the operator's      *)
(* editor.                                                                 *)
(*                                                                         *)
(* A file is an inode, so that two saves that share allowlist.toml.tmp     *)
(* write into one.  Events of the audit log are kept as far as its callers *)
(* see them: made, the sequence of calls whose event has its time and is   *)
(* not written; writing one of them makes the earlier ones out of order.   *)
(***************************************************************************)
EXTENDS Naturals, Sequences, FiniteSets

CONSTANTS
    Jids, Actions,
    None,              \* no inode, no reload
    Broken,            \* contents that do not parse
    Handlers,          \* calls of allow in progress at once
    Inodes,            \* room for the file, the temporary file and one open file per call
    MaxCalls,          \* bound: calls of allow
    MaxTrouble,        \* bound: edits, reloads asked for and failing system calls together
    MaxAllowLives      \* bound: boots

ASSUME AllowlistAssumption ==
    /\ IsFiniteSet(Handlers) /\ IsFiniteSet(Inodes)
    /\ Cardinality(Inodes) > Cardinality(Handlers) + 2
    /\ None \notin Inodes

VARIABLES
    entries,     \* the policy in memory
    inode,       \* inode |-> its contents
    path, tmp,   \* the inodes of allowlist.toml and allowlist.toml.tmp
    handler,     \* Handlers |-> the call in progress
    reload,      \* Reloaders |-> the reload in progress
    mu,          \* the reload that holds allowlistMu across its two loops
    made,        \* calls with an event that is made and not written
    notified,    \* an event of the watched directory names allowlist.toml
    armed,       \* the debounce timer runs
    watching,    \* the watcher has been added
    up,          \* the daemon runs
    calls, trouble, allowLives,
    excuse       \* observed: why memory may differ from the file, see Agrees

filesVars == <<inode, path, tmp>>
watchVars == <<notified, armed, watching>>
allowBounds == <<calls, trouble, allowLives>>
allowVars == <<entries, filesVars, handler, reload, mu, made, watchVars, up, allowBounds, excuse>>

Grants == Jids \X Actions
Policies == SUBSET Grants
Reloaders == {"watch", "rpc"}

NoCall == [at |-> "idle", op |-> "add", of |-> {}, prior |-> {}, file |-> {}, fd |-> None]
NoReload == [at |-> "idle", new |-> {}, sure |-> TRUE]

Trouble == trouble < MaxTrouble /\ trouble' = trouble + 1

-----------------------------------------------------------------------------
(* domain.Allowlist *)

Of(jid) == {g \in entries : g[1] = jid}
Grant(gs) == entries \cup gs
Revoke(gs) == entries \ gs

-----------------------------------------------------------------------------
(* Files *)

\* Mutant: the watch is on the file's inode, which a rename takes away.
NotifyInode(changed) == notified' = (notified \/ (watching /\ changed /\ path' = path))
\* fsnotify on the parent directory, events for other names skipped.
Notify(changed) == notified' = (notified \/ (watching /\ changed))

Fresh == CHOOSE i \in Inodes :
    i \notin {path, tmp} \cup {handler[h].fd : h \in Handlers}

\* The file loses its name; its contents are kept as long as a save has it open.
Unlinked == [i \in Inodes |->
    IF i = path /\ \A h \in Handlers : handler[h].fd # i THEN {} ELSE inode[i]]

\* An edit before the watcher is added is seen by nobody.
Edited(changed) == excuse' = IF changed /\ ~watching THEN excuse \cup {"boot"} ELSE excuse

\* External: the operator's editor replaces the file.
Edit ==
    /\ Trouble
    /\ \E new \in Policies \cup {Broken} :
          inode' = [Unlinked EXCEPT ![Fresh] = new]
    /\ path' = Fresh
    /\ Notify(TRUE)
    /\ Edited(TRUE)
    /\ UNCHANGED <<entries, tmp, handler, reload, mu, made, armed, watching, up,
                   calls, allowLives>>

\* A missing file is an empty policy.
Contents == IF path = None THEN {} ELSE inode[path]

-----------------------------------------------------------------------------
(* allow add and allow remove *)

To(h, at) == handler' = [handler EXCEPT ![h].at = at]
Fails == Trouble

\* allowlistMu: the change of memory, and what revert needs to undo it.
Begin(h, op, jid, gs) ==
    /\ up /\ mu = None
    /\ handler[h] = NoCall
    /\ calls < MaxCalls
    /\ calls' = calls + 1
    /\ handler' = [handler EXCEPT ![h] = [NoCall EXCEPT !.at = "event", !.op = op,
                                                        !.of = gs, !.prior = Of(jid)]]
    /\ entries' = IF op = "add" THEN Grant(gs) ELSE Revoke(gs)
    /\ UNCHANGED <<filesVars, reload, mu, made, watchVars, up, trouble,
                   allowLives, excuse>>
handleAllowAdd(h) ==
    \E jid \in Jids, as \in SUBSET Actions : as # {} /\ Begin(h, "add", jid, {jid} \X as)
handleAllowRemove(h) ==
    \E jid \in Jids : Begin(h, "remove", jid, Of(jid))

AuditEvent(h) ==
    /\ handler[h].at = "event"
    /\ made' = Append(made, h)
    /\ To(h, "audit")
    /\ UNCHANGED <<entries, filesVars, reload, mu, watchVars, up, allowBounds, excuse>>

\* audit.Record: a row that another's later row overtook is refused.
AuditRow(h) ==
    /\ handler[h].at = "audit"
    /\ \/ \E k \in DOMAIN made :
             /\ made[k] = h
             /\ made' = SubSeq(made, k + 1, Len(made))
             /\ To(h, "entries")
             /\ UNCHANGED trouble
       \/ /\ \A k \in DOMAIN made : made[k] # h
          /\ To(h, "revert")
          /\ UNCHANGED <<made, trouble>>
       \/ /\ Fails
          /\ made' = SelectSeq(made, LAMBDA other : other # h)
          /\ To(h, "revert")
    /\ UNCHANGED <<entries, filesVars, reload, mu, watchVars, up,
                   calls, allowLives, excuse>>

\* saveAllowlist: the policy as it is now, without allowlistMu.
SaveEntries(h) ==
    /\ handler[h].at = "entries"
    /\ handler' = [handler EXCEPT ![h].at = "create", ![h].file = entries]
    /\ UNCHANGED <<entries, filesVars, reload, mu, made, watchVars, up, allowBounds, excuse>>

\* O_CREATE|O_TRUNC: a temporary file that another save is writing is emptied.
SaveCreate(h) ==
    /\ handler[h].at = "create"
    /\ LET fd == IF tmp = None THEN Fresh ELSE tmp IN
          \/ /\ tmp' = fd
             /\ inode' = [inode EXCEPT ![fd] = {}]
             /\ handler' = [handler EXCEPT ![h].at = "write", ![h].fd = fd]
             /\ UNCHANGED trouble
          \/ /\ Fails
             /\ To(h, "revert")
             /\ UNCHANGED <<tmp, inode>>
    /\ UNCHANGED <<entries, path, reload, mu, made, watchVars, up,
                   calls, allowLives, excuse>>

\* Both writes of a shared file start at its beginning: a longer one shows
\* behind a shorter one.
Overwrite(old, new) == IF old \in {{}, new} THEN {new} ELSE {new, Broken}

SaveWrite(h) ==
    /\ handler[h].at = "write"
    /\ LET fd == handler[h].fd IN
          \/ /\ \E c \in Overwrite(inode[fd], handler[h].file) : inode' = [inode EXCEPT ![fd] = c]
             /\ handler' = [handler EXCEPT ![h].at = "rename", ![h].fd = None]
             /\ UNCHANGED <<tmp, trouble>>
          \/ /\ Fails
             /\ inode' \in {inode, [inode EXCEPT ![fd] = Broken]}
             /\ tmp' = None
             /\ handler' = [handler EXCEPT ![h].at = "revert", ![h].fd = None]
    /\ path' = path
    /\ Notify(handler[h].fd = path)
    /\ Edited(handler[h].fd = path)
    /\ UNCHANGED <<entries, reload, mu, made, armed, watching, up, calls, allowLives>>

SaveRename(h) ==
    /\ handler[h].at = "rename"
    /\ \/ /\ tmp # None
          /\ path' = tmp
          /\ tmp' = None
          /\ inode' = Unlinked
          /\ Notify(TRUE)
          /\ Edited(TRUE)
          /\ handler' = [handler EXCEPT ![h] = NoCall]
          /\ UNCHANGED trouble
       \/ /\ tmp = None
          /\ To(h, "revert")
          /\ UNCHANGED <<filesVars, notified, excuse, trouble>>
       \/ /\ Fails
          /\ To(h, "revert")
          /\ UNCHANGED <<filesVars, notified, excuse>>
    /\ UNCHANGED <<entries, reload, mu, made, armed, watching, up,
                   calls, allowLives>>

\* The entry of the recipient as it was when the call began.
Reverted(c) == IF c.op = "add" THEN Revoke(c.of) \cup c.prior ELSE Grant(c.of)
Revert(h) ==
    /\ mu = None
    /\ handler[h].at = "revert"
    /\ entries' = Reverted(handler[h])
    /\ excuse' = excuse \cup {"revert"}
    /\ handler' = [handler EXCEPT ![h] = NoCall]
    /\ UNCHANGED <<filesVars, reload, mu, made, watchVars, up, allowBounds>>

-----------------------------------------------------------------------------
(* Reloads *)

StartWatch ==
    /\ up /\ ~watching
    /\ watching' = TRUE
    /\ UNCHANGED <<entries, filesVars, handler, reload, mu, made, notified, armed, up,
                   allowBounds, excuse>>

\* Every event starts the 100 ms anew.
Trigger ==
    /\ notified
    /\ reload["watch"] = NoReload
    /\ notified' = FALSE
    /\ armed' = TRUE
    /\ UNCHANGED <<entries, filesVars, handler, reload, mu, made, watching, up, allowBounds, excuse>>

OthersIdle(r) == \A o \in Reloaders \ {r} : reload[o] = NoReload

\* loadAllowlist: the file is read before the lock is taken.
loadAllowlist(r) ==
    /\ reload[r] = NoReload
    /\ reload' = [o \in Reloaders |->
          IF o = r THEN [at |-> IF Contents = Broken THEN "refused" ELSE "lock",
                         new |-> IF Contents = Broken THEN {} ELSE Contents,
                         sure |-> watching /\ OthersIdle(r)]
          ELSE [reload[o] EXCEPT !.sure = (reload[o] = NoReload)]]

\* The timer, or SIGHUP, which may find the timer armed and leaves it so.
WatchReload ==
    /\ watching
    /\ \/ armed /\ armed' = FALSE /\ UNCHANGED trouble
       \/ Trouble /\ UNCHANGED armed
    /\ loadAllowlist("watch")
    /\ UNCHANGED <<entries, filesVars, handler, mu, made, notified, watching, up,
                   calls, allowLives, excuse>>

handleAdminReload ==
    /\ up
    /\ Trouble
    /\ loadAllowlist("rpc")
    /\ UNCHANGED <<entries, filesVars, handler, mu, made, watchVars, up,
                   calls, allowLives, excuse>>

\* The previous policy is kept, and a row says so.
ReloadRefused(r) ==
    /\ reload[r].at = "refused"
    /\ reload' = [reload EXCEPT ![r] = NoReload]
    /\ made' = <<>>
    /\ UNCHANGED <<entries, filesVars, handler, mu, watchVars, up, allowBounds, excuse>>

ReloadLock(r) ==
    /\ reload[r].at = "lock"
    /\ mu = None
    /\ mu' = r
    /\ reload' = [reload EXCEPT ![r].at = "clear"]
    /\ UNCHANGED <<entries, filesVars, handler, made, watchVars, up, allowBounds, excuse>>

\* One recipient after the other; readers of the policy do not take allowlistMu.
ReloadClear(r) ==
    /\ reload[r].at = "clear"
    /\ \/ /\ entries # {}
          /\ \E jid \in Jids : Of(jid) # {} /\ entries' = Revoke(Of(jid))
          /\ UNCHANGED reload
       \/ /\ entries = {}
          /\ reload' = [reload EXCEPT ![r].at = "grant"]
          /\ UNCHANGED entries
    /\ UNCHANGED <<filesVars, handler, mu, made, watchVars, up, allowBounds, excuse>>

ReloadGrant(r) ==
    /\ reload[r].at = "grant"
    /\ \/ /\ entries # reload[r].new
          /\ \E g \in reload[r].new \ entries :
                entries' = Grant({x \in reload[r].new : x[1] = g[1]})
          /\ UNCHANGED <<reload, mu, excuse>>
       \/ /\ entries = reload[r].new
          /\ mu' = None
          /\ reload' = [reload EXCEPT ![r].at = "audit"]
          /\ excuse' = IF reload[r].sure THEN {} ELSE excuse \cup {"overlap"}
          /\ UNCHANGED entries
    /\ UNCHANGED <<filesVars, handler, made, watchVars, up, allowBounds>>

\* Its event is later than those made before it; a failure is only logged.
ReloadAudit(r) ==
    /\ reload[r].at = "audit"
    /\ reload' = [reload EXCEPT ![r] = NoReload]
    /\ \/ made' = <<>> /\ UNCHANGED trouble
       \/ Fails /\ UNCHANGED made
    /\ UNCHANGED <<entries, filesVars, handler, mu, watchVars, up, calls,
                   allowLives, excuse>>

-----------------------------------------------------------------------------
(* The daemon *)

Kill ==
    /\ up
    /\ up' = FALSE
    /\ entries' = {}
    /\ handler' = [h \in Handlers |-> NoCall]
    /\ reload' = [r \in Reloaders |-> NoReload]
    /\ mu' = None
    /\ made' = <<>>
    /\ notified' = FALSE /\ armed' = FALSE /\ watching' = FALSE
    /\ UNCHANGED <<filesVars, allowBounds, excuse>>

\* A file that does not parse ends the boot.
Boot ==
    /\ ~up
    /\ allowLives < MaxAllowLives
    /\ allowLives' = allowLives + 1
    /\ Contents # Broken
    /\ up' = TRUE
    /\ entries' = Contents
    /\ excuse' = {}
    /\ UNCHANGED <<filesVars, handler, reload, mu, made, watchVars, calls, trouble>>

AllowInit ==
    /\ entries = {}
    /\ path \in {None, CHOOSE i \in Inodes : TRUE}
    /\ \E policy \in Policies : inode = [i \in Inodes |-> IF i = path THEN policy ELSE {}]
    /\ tmp = None
    /\ handler = [h \in Handlers |-> NoCall]
    /\ reload = [r \in Reloaders |-> NoReload]
    /\ mu = None
    /\ made = <<>>
    /\ notified = FALSE /\ armed = FALSE /\ watching = FALSE
    /\ up = FALSE
    /\ calls = 0 /\ trouble = 0 /\ allowLives = 0
    /\ excuse = {}

AllowNext ==
    \/ \E h \in Handlers :
          \/ handleAllowAdd(h) \/ handleAllowRemove(h)
          \/ AuditEvent(h) \/ AuditRow(h)
          \/ SaveEntries(h) \/ SaveCreate(h) \/ SaveWrite(h) \/ SaveRename(h)
          \/ Revert(h)
    \/ \E r \in Reloaders :
          ReloadRefused(r) \/ ReloadLock(r) \/ ReloadClear(r) \/ ReloadGrant(r) \/ ReloadAudit(r)
    \/ StartWatch \/ Trigger \/ WatchReload \/ handleAdminReload
    \/ Edit \/ Kill \/ Boot

-----------------------------------------------------------------------------
(* Properties *)

Quiet ==
    /\ up /\ watching /\ ~notified /\ ~armed
    /\ \A h \in Handlers : handler[h] = NoCall
    /\ \A r \in Reloaders : reload[r] = NoReload

\* When nothing is in progress, the policy that is enforced is the one in
\* allowlist.toml, whatever calls, saves into a shared temporary file, edits and
\* reloads came before.  The exceptions: the file does not parse; a call was
\* reverted since the last reload; two reloads overlapped; or the file changed
\* between the boot's read and the start of the watch.
Agrees == Quiet /\ excuse = {} /\ Contents # Broken => entries = Contents
=============================================================================
