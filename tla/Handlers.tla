------------------------------ MODULE Handlers ------------------------------
(***************************************************************************)
(* The handlers of the daemon's methods.  A handler is the set of the      *)
(* programs (see Steps) its parameters choose from: with or without an     *)
(* idempotency key, one participant or two, which fields of a patch.       *)
(***************************************************************************)
EXTENDS Ports, TLC

\* What comes before and after each program of a handler.
Prefixed(p, P) == {p \o q : q \in P}

\* Without a key the call just runs.  With one: the fingerprint, an earlier
\* answer, the run, and the record of its answer, whose failure is an error.
canonicalJSON == <<Check>>
paramsFingerprint == <<Check>> \o canonicalJSON
idempotentCall(P) ==
    P \cup {paramsFingerprint \o <<Hit>> \o p \o <<Put("sidecar")>> : p \in P}

-----------------------------------------------------------------------------
(* The gates *)

\* A number that is not on WhatsApp, or that moved, is refused and audited; a
\* probe that fails is taken for a yes.
ensureOnWhatsApp == <<Denial>>
checkSafetyAndAudit(action) ==
    <<Gate(action)>> \o (IF action = "send" THEN ensureOnWhatsApp ELSE <<>>)
ensureNotBlocked == <<Denial>>
guardSend == checkSafetyAndAudit("send") \o ensureNotBlocked
\* A moved recipient is refused and audited; with followCanonical the guard is
\* asked again for the canonical number.
guardSendFollowing == {guardSend, <<Gate("send"), Log>> \o guardSend}

\* The typing indicator around a wait that the client's leaving cuts short.
humanizeBeforeSend == <<Try("presence"), Check, Try("presence")>>

-----------------------------------------------------------------------------
(* Sending *)

Humanized(P) == P \cup {p \o humanizeBeforeSend : p \in P}
doSend == {<<Check>> \o g \o Audited(Send("text")) : g \in Humanized(guardSendFollowing)}
handleSend == idempotentCall(doSend)
doSendMedia ==
    {<<Check>> \o g \o Audited(Send(from)) :
        g \in Humanized({guardSend}), from \in {"bytes", "sha256", "path"}}
handleSendMedia == idempotentCall(doSendMedia)
\* Mutant: the row is forgotten.
ReactUnlogged == {<<Check>> \o guardSend \o Send("reaction")}
doReact == {<<Check>> \o guardSend \o Audited(Send("reaction"))}
handleReact == idempotentCall(doReact)

\* A number and its LID name the same chat: what is not under the one is looked for
\* under the other.
loadQuotedRaw ==
    {Quoted_GetRawProto} \cup {<<Look>> \o other \o Quoted_GetRawProto : other \in {ResolveLID, ResolvePN}}
doSendListResponse == {<<Check>> \o guardSend \o q \o Audited(Send("list")) : q \in loadQuotedRaw}
handleSendListResponse == idempotentCall(doSendListResponse)
doSendButtonResponse == {<<Check>> \o guardSend \o q \o Audited(Send("button")) : q \in loadQuotedRaw}
handleSendButtonResponse == idempotentCall(doSendButtonResponse)

\* The daemon's sender has none of these abilities: ErrMethodNotFound.
handleSendForward == idempotentCall({<<Never>>})
handleSendStar == idempotentCall({<<Never>>})
handleSetDisappearing == idempotentCall({<<Never>>})
handleSendReply == idempotentCall({<<Never>>})

doMessageRevoke ==
    {<<Check>> \o checkSafetyAndAudit("revoke") \o Audited(Moderator_Revoke(scope)) :
        scope \in {"everyone", "self"}}
handleMessageRevoke == idempotentCall(doMessageRevoke)
\* Mutant: an edit is not a message, so no gate.
EditUngated == {<<Check>> \o Audited(Moderator_Edit)}
doMessageEdit == {<<Check>> \o checkSafetyAndAudit("edit") \o Audited(Moderator_Edit)}
handleMessageEdit == idempotentCall(doMessageEdit)

handlePollCreate == idempotentCall({<<Check>> \o PollManager_Create})
handlePollVote == idempotentCall({<<Check>> \o PollManager_Vote})

doPresence == {<<Check>> \o checkSafetyAndAudit("presence") \o SendComposing}
handleComposing == {<<Check>> \o checkSafetyAndAudit("presence") \o SendComposing}

doMarkRead == {<<Check>> \o checkSafetyAndAudit("read") \o Audited(markReceipt(group)) : group \in BOOLEAN}
handleMarkRead == idempotentCall(doMarkRead)
doSendSeen ==
    {<<Check>> \o checkSafetyAndAudit("read") \o Audited(LatestIncoming \o <<Check>> \o markReceipt(group)) :
        group \in BOOLEAN}
handleSendSeen == idempotentCall(doSendSeen)

-----------------------------------------------------------------------------
(* Chats, contacts, groups *)

doContactAction(op) == {<<Check>> \o op}
handleContactBlock == idempotentCall(doContactAction(Block))
handleContactUnblock == idempotentCall(doContactAction(Unblock))
handleContactBlocklist == {<<Check>> \o ListBlocked}

ChatState(op) == {<<Check>> \o checkSafetyAndAudit("chat_state") \o op}
handleChatArchive == idempotentCall(ChatState(Archive))
handleChatMute == idempotentCall(ChatState(Mute))
handleChatPin == idempotentCall(ChatState(Pin("pin")) \cup ChatState(Pin("unpin")))
handleChatMarkUnread == idempotentCall(ChatState(MarkUnread))

\* One gate for each participant, all of them before the call.
GateEach == {checkSafetyAndAudit("group.add"),
             checkSafetyAndAudit("group.add") \o checkSafetyAndAudit("group.add")}
doGroupCreate == {<<Check>> \o g \o GroupAdmin_Create : g \in GateEach}
handleGroupCreate == idempotentCall(doGroupCreate)
handleGroupLeave == idempotentCall({<<Check>> \o Leave})

parseRosterParams == <<Check>>
runRoster(G, op) == idempotentCall({parseRosterParams \o g \o op : g \in G})
handleGroupAddParticipants == runRoster(GateEach, AddParticipants)
handleGroupRemoveParticipants == runRoster({<<>>}, RemoveParticipants)
handleGroupPromote == runRoster({<<>>}, Promote)
handleGroupDemote == runRoster({<<>>}, Demote)

doGroupEdit ==
    {<<Check>> \o GroupAdmin_Edit(fields) :
        fields \in (SUBSET {"subject", "description", "icon"}) \ {{}}}
handleGroupEdit == idempotentCall(doGroupEdit)
doGroupInvite(op) == {<<Check>> \o op}
handleGroupInviteGet == idempotentCall(doGroupInvite(InviteGet))
handleGroupInviteRevoke == idempotentCall(doGroupInvite(InviteRevoke))
handleGroupInviteJoin == idempotentCall({<<Check>> \o InviteJoin})
handleGroups == {Groups_List}
handleGroupsGet == {<<Check>> \o Groups_Get}

guardLabels == <<Check>>
handleLabelsList == {guardLabels \o ListLabels}
handleLabelsCreate == {guardLabels \o CreateLabel}
handleLabelsDelete == {guardLabels \o <<Check>> \o DeleteLabel}
toAssignment == <<Check>>
handleLabelsAssign == {guardLabels \o toAssignment \o Assign}
handleLabelsUnassign == {guardLabels \o toAssignment \o Unassign}

contactSearcher == <<Check>>
parseJIDParam == <<Check>>
handleContactsLookup == {parseJIDParam \o Lookup}
handleContactsSearch == {<<Check>> \o contactSearcher \o Contacts_Search}
handleContactsList == {<<Check>> \o contactSearcher \o ListChanged}
handleContactsAnnotate == {parseJIDParam \o contactSearcher \o Annotate}
handleContactsSync == {<<Check>> \o Mirror_Sync}
handleContactResolve == {<<Check>> \o ResolveLID, <<Check>> \o ResolvePN}
handleContactsResolveConfirm == {<<Check>> \o Resolve}

-----------------------------------------------------------------------------
(* The account *)

doPrivacySet == {<<Check>> \o Privacy_Set}
handlePrivacySet == idempotentCall(doPrivacySet)
handlePrivacyGet == {<<Check>> \o Privacy_Get}
doProfileSetName == {<<Check>> \o SetName}
handleProfileSetName == idempotentCall(doProfileSetName)
doProfileSetStatus == {<<Check>> \o SetStatus}
handleProfileSetStatus == idempotentCall(doProfileSetStatus)
handleProfileAvatar == {<<Check>> \o GetAvatar}

handleSessionLogoutAll == idempotentCall({<<Check>> \o LogoutAll})
handleSessionLogout == idempotentCall({<<Check>> \o Logout})
\* A session that is already there refuses the pairing, audited.
doPair ==
    {<<Check>> \o Session_Load \o <<Denial>> \o Audited(Pair(how)) : how \in {"live", "qr", "phone"}}
handlePair == idempotentCall(doPair)

\* The wipe's errors are logged only, the row is best effort, the answer is ok.
handlePanic == {Panic \o <<Log>>}

-----------------------------------------------------------------------------
(* Queries and local stores *)

handleStatus == {Session_Load}
handleHealth == {<<>>}
handleWait == {<<Check, Check>>}
handleThreadGet == {<<Check>> \o GetThread}
\* The daemon's history has no ranked search: ErrMethodNotFound.
handleMessagesSearch == {<<Check, Never>>}
handleMediaResolve == {<<Check>> \o Media_Resolve}
readMediaAt == <<Look>>
handleMediaFetchBytes == {<<Check>> \o Media_Resolve \o Fn(<<Check, Enough>> \o readMediaAt)}
\* A cached transcript is the answer; a new one is kept if it can be.
transcribeAndHydrate == Fn(Transcript_Get \o <<Check>> \o BestEffort(Transcript_Upsert))
handleMediaDownload ==
    {<<Check>> \o Media_Download, <<Check>> \o Media_Download \o transcribeAndHydrate}
handleMediaGC == {<<Check>> \o Media_GC(dryRun) : dryRun \in BOOLEAN}
\* The daemon is built without an index: disabled is the answer, and an error.
handleEmbeddingsStatus == {<<>>}
handleEmbeddingsPurge == {<<Never>>}

handleDraftList == {<<Check, Look>>}
handleDraftGet == {<<Check, Look>>}
handleDraftApprove == {<<Check, Put("drafts")>>}
handleDraftReject == {<<Check, Put("drafts")>>}
handleDraftCreate == {<<Check, Put("drafts"), Log>>}

handleScheduleSend == idempotentCall({<<Check, Put("schedule")>>})
handleScheduleList == {<<Check, Look>>}
handleScheduleCancel == {<<Check, Look>> \o Fn(<<Enough, Put("schedule")>>)}
handleScheduleUpdate == {<<Check, Look, Check, Put("schedule")>>}
handleWebhookAdd == {<<Check, Put("webhooks")>>}
handleWebhookList == {<<Look>>}
handleWebhookRemove == {<<Check, Put("webhooks")>>}
handleWebhookDeliveries == {<<Check, Look>>}
handleWebhookReplay == {<<Check, Put("deliveries")>>}

decodeChatParams == <<Check>>
storedToWireValidated == <<Check>>
marshalStoredMessages == storedToWireValidated
makeHistoryHandler == {decodeChatParams \o QueryHistory \o marshalStoredMessages}
\* Parameters that do not parse are taken for none.
makeMessagesHandler == {QueryMessages \o marshalStoredMessages}
makeSearchHandler == {<<Check>> \o QuerySearch \o marshalStoredMessages}
makePurgeHandler == {decodeChatParams \o PurgeChat}
makeExportHandler == {decodeChatParams \o ExportChatFiltered \o storedToWireValidated}
makeChatListHandler == {QueryChats}
makeMessagesListHandler == {<<Check>> \o QueryMessagesFiltered \o marshalStoredMessages}
makeMediaListHandler == {<<Check>> \o QueryMessagesFiltered \o InspectMedia}
makeSyncForceHandler == {<<Check>> \o ForceHistorySync(chat) : chat \in BOOLEAN}
makeSyncStatusHandler == {<<>>}
\* One collection: its error is the answer.  All of them: errors are listed in it.
makeAppStateResyncHandler == {<<Check>> \o ResyncAppState, <<Check>>}

\* The grant is in force at once, and taken back when the row cannot be written
\* or the file cannot be saved: the row stays.
handleAllowAdd == <<Check, Put("audit"), Put("allowlist")>>
handleAllowRemove == <<Check, Put("audit"), Put("allowlist")>>
handleAllowList == <<>>
handleAllow == Prefixed(<<Check>>, {handleAllowAdd, handleAllowRemove, handleAllowList})
handleConfigFeatures == {<<>>}
PprofHandler == {<<Check, Check>>}
handleAdminReload == {<<Look, Log>>}
handleAdminAuditRotate == {<<Put("rotation")>>}

-----------------------------------------------------------------------------
(* The method table: NewDispatcher's and what the composition root adds *)

DispatcherMethods ==
    ("send" :> handleSend) @@ ("sendMedia" :> handleSendMedia) @@ ("react" :> handleReact)
    @@ ("pair" :> handlePair) @@ ("wait" :> handleWait) @@ ("status" :> handleStatus)
    @@ ("health" :> handleHealth) @@ ("groups" :> handleGroups)
    @@ ("markRead" :> handleMarkRead) @@ ("sendSeen" :> handleSendSeen)
    @@ ("contacts.lookup" :> handleContactsLookup) @@ ("contacts.search" :> handleContactsSearch)
    @@ ("contacts.list" :> handleContactsList) @@ ("contacts.annotate" :> handleContactsAnnotate)
    @@ ("contacts.sync" :> handleContactsSync)
    @@ ("contacts.resolve.confirm" :> handleContactsResolveConfirm)
    @@ ("presence.composing.start" :> doPresence) @@ ("presence.composing.stop" :> doPresence)
    @@ ("presence.recording.start" :> doPresence) @@ ("presence.recording.stop" :> doPresence)
    @@ ("thread.get" :> handleThreadGet) @@ ("messages.search" :> handleMessagesSearch)
    @@ ("draft.list" :> handleDraftList) @@ ("draft.get" :> handleDraftGet)
    @@ ("draft.create" :> handleDraftCreate) @@ ("draft.approve" :> handleDraftApprove)
    @@ ("draft.reject" :> handleDraftReject)
    @@ ("webhook.add" :> handleWebhookAdd) @@ ("webhook.list" :> handleWebhookList)
    @@ ("webhook.remove" :> handleWebhookRemove)
    @@ ("webhook.deliveries" :> handleWebhookDeliveries)
    @@ ("webhook.replay" :> handleWebhookReplay)
    @@ ("media.resolve" :> handleMediaResolve) @@ ("media.download" :> handleMediaDownload)
    @@ ("media.fetchBytes" :> handleMediaFetchBytes) @@ ("media.gc" :> handleMediaGC)
    @@ ("send.reply" :> handleSendReply) @@ ("send.listResponse" :> handleSendListResponse)
    @@ ("send.buttonResponse" :> handleSendButtonResponse)
    @@ ("chat.composing" :> handleComposing) @@ ("groups.get" :> handleGroupsGet)
    @@ ("schedule.send" :> handleScheduleSend) @@ ("schedule.list" :> handleScheduleList)
    @@ ("schedule.cancel" :> handleScheduleCancel) @@ ("schedule.update" :> handleScheduleUpdate)
    @@ ("labels.list" :> handleLabelsList) @@ ("labels.create" :> handleLabelsCreate)
    @@ ("labels.delete" :> handleLabelsDelete) @@ ("labels.assign" :> handleLabelsAssign)
    @@ ("labels.unassign" :> handleLabelsUnassign)
    @@ ("embeddings.status" :> handleEmbeddingsStatus)
    @@ ("embeddings.purge" :> handleEmbeddingsPurge)
    @@ ("message.revoke" :> handleMessageRevoke) @@ ("message.edit" :> handleMessageEdit)
    @@ ("message.forward" :> handleSendForward) @@ ("message.star" :> handleSendStar)
    @@ ("message.setDisappearing" :> handleSetDisappearing)
    @@ ("chat.archive" :> handleChatArchive) @@ ("chat.mute" :> handleChatMute)
    @@ ("chat.pin" :> handleChatPin) @@ ("chat.markUnread" :> handleChatMarkUnread)
    @@ ("contact.block" :> handleContactBlock) @@ ("contact.unblock" :> handleContactUnblock)
    @@ ("contact.blocklist" :> handleContactBlocklist)
    @@ ("privacy.set" :> handlePrivacySet) @@ ("privacy.get" :> handlePrivacyGet)
    @@ ("session.logoutAll" :> handleSessionLogoutAll) @@ ("session.logout" :> handleSessionLogout)
    @@ ("profile.setName" :> handleProfileSetName) @@ ("profile.setStatus" :> handleProfileSetStatus)
    @@ ("contacts.profilePhoto" :> handleProfileAvatar)
    @@ ("group.create" :> handleGroupCreate) @@ ("group.leave" :> handleGroupLeave)
    @@ ("group.addParticipants" :> handleGroupAddParticipants)
    @@ ("group.removeParticipants" :> handleGroupRemoveParticipants)
    @@ ("group.promote" :> handleGroupPromote) @@ ("group.demote" :> handleGroupDemote)
    @@ ("group.edit" :> handleGroupEdit) @@ ("group.inviteGet" :> handleGroupInviteGet)
    @@ ("group.inviteRevoke" :> handleGroupInviteRevoke)
    @@ ("group.inviteJoin" :> handleGroupInviteJoin)
    @@ ("poll.create" :> handlePollCreate) @@ ("poll.vote" :> handlePollVote)
    @@ ("contact.resolve" :> handleContactResolve)
RegisteredMethods ==
    ("history" :> makeHistoryHandler) @@ ("messages" :> makeMessagesHandler)
    @@ ("search" :> makeSearchHandler) @@ ("purge" :> makePurgeHandler)
    @@ ("export" :> makeExportHandler) @@ ("chat.list" :> makeChatListHandler)
    @@ ("messages.list" :> makeMessagesListHandler) @@ ("media.list" :> makeMediaListHandler)
    @@ ("sync.force" :> makeSyncForceHandler) @@ ("sync.status" :> makeSyncStatusHandler)
    @@ ("appstate.resync" :> makeAppStateResyncHandler)
    @@ ("allow" :> handleAllow) @@ ("config.features" :> handleConfigFeatures)
    @@ ("panic" :> handlePanic) @@ ("admin.reload" :> handleAdminReload)
    @@ ("admin.audit.rotate" :> handleAdminAuditRotate)
    @@ ("debug.pprof.profile" :> PprofHandler)
Methods == DispatcherMethods @@ RegisteredMethods
=============================================================================
