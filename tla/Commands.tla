------------------------------ MODULE Commands ------------------------------
(***************************************************************************)
(* The ways into the daemon: the commands of wa, the REST routes and the   *)
(* MCP tools, as sets of programs (see Steps).  A command looks at its     *)
(* flags, calls a method and prints the answer; what stands after Reply is *)
(* done with the answer in hand.  via is the transport: the daemon's       *)
(* socket, or a remote daemon's REST server with scoped tokens or without.  *)
(***************************************************************************)
EXTENDS Handlers

-----------------------------------------------------------------------------
(* The socket *)

\* The peer must run under the daemon's own user.
peerUID == <<Check>>
acceptLoop == peerUID \o <<Check>>
writeHelloResult == <<Check>>
\* The first frame of a connection must be the hello, in time and of this version.
handshake(first) == IF first = "system.hello" THEN <<Check>> \o writeHelloResult ELSE <<Never>>
serveConn(first) == acceptLoop \o handshake(first)
\* One frame, no longer than the cap.
Recv == <<Check>>
\* A panic of a handler is answered like an error.
dispatchRecovered(m) == {<<Open(m)>> \o p \o <<Reply>> : p \in Methods[m]}
\* No call is taken once the shutdown has begun.
makeDispatchFunc(m) == Prefixed(<<Check>>, dispatchRecovered(m))
Assigner_Assign(m) == Prefixed(Recv, makeDispatchFunc(m))

dial == <<Check>>
sendHello == serveConn("system.hello")
sendHelloOn == serveConn("system.hello")
callOn(m) == Assigner_Assign(m)
callLocal(m) == Prefixed(dial \o sendHello, Assigner_Assign(m))

-----------------------------------------------------------------------------
(* The REST server.  Its authenticator is a store of scoped tokens, or one  *)
(* token of the environment that is good for everything: via says which.   *)

EnvTokenAuth_Verify == <<Check>>
tokenStoreShim_Verify == Tokens_Verify
scopedAuth_Verify == <<Check>> \o tokenStoreShim_Verify
Verify(via) == IF via = "scoped" THEN scopedAuth_Verify ELSE EnvTokenAuth_Verify
\* Only a scoped token has a scope to compare.
Admission(via, m) == <<IF via = "scoped" THEN Admit(m) ELSE Open(IF m = "message.revoke/self" THEN "message.revoke" ELSE m)>>

\* A revocation for oneself only has a narrower scope than the method.
revokeIsSelfScoped(m, p) == m = "message.revoke" /\ \A i \in DOMAIN p : p[i].on # "message"
\* Token, envelope, scope, request id, then the dispatcher.
handleRPC(via, m) ==
    {Verify(via) \o <<Check>>
     \o Admission(via, IF revokeIsSelfScoped(m, p) THEN "message.revoke/self" ELSE m)
     \o <<Check>> \o p \o <<Reply>> : p \in Methods[m]}
mediaRouteEntry(via) == Verify(via)
parseHexSHA256 == <<Check>>
handleMediaUpload(via) ==
    {mediaRouteEntry(via) \o Admission(via, "media.upload") \o <<Check>> \o Media_Write \o <<Reply>>}
\* Any token will do: no scope is asked.
handleMediaFetch(via) ==
    {mediaRouteEntry(via) \o <<Open("media.fetch")>> \o parseHexSHA256 \o Media_Resolve \o <<Look, Reply>>}
handleVersion == {<<Open("version"), Reply>>}

\* https, or a loopback host, or the explicit switch.
normaliseRemoteURL == <<Check>>
callRemote(via, m) == Prefixed(normaliseRemoteURL \o <<Check>>, handleRPC(via, m))
callAndClose(via, m) == IF via = "socket" THEN callLocal(m) ELSE callRemote(via, m)
mediaUploadURL == normaliseRemoteURL \o <<Check>>
callRemoteUpload(via) == Prefixed(mediaUploadURL \o <<Check>>, handleMediaUpload(via))

\* p then q, for every choice of each.
Then(P, Q) == {p \o q : p \in P, q \in Q}
\* A command that makes one call.
Calls(via, M) == UNION {Prefixed(<<Check>>, callAndClose(via, m)) : m \in M}

-----------------------------------------------------------------------------
(* wa: one call *)

\* One of the three modes, with the flags of that mode.
buildSendParams == <<Check>>
sendCmd(via) == Prefixed(buildSendParams, Calls(via, {"send", "send.listResponse", "send.buttonResponse"}))
reactCmd(via) == Calls(via, {"react"})
replyCmd(via) == Calls(via, {"send.reply"})
markReadCmd(via) == Calls(via, {"markRead"})
sendSeenCmd(via) == Calls(via, {"sendSeen"})
mediaResolveCmd(via) == Calls(via, {"media.resolve"})
mediaDownloadCmd(via) == Calls(via, {"media.download"})
mediaGCCmd(via) == Calls(via, {"media.gc"})
groupCreateCmd(via) == Calls(via, {"group.create"})
groupLeaveCmd(via) == Calls(via, {"group.leave"})
runRosterCmd(via, m) == Calls(via, {m})
groupAddCmd(via) == runRosterCmd(via, "group.addParticipants")
groupRemoveCmd(via) == runRosterCmd(via, "group.removeParticipants")
groupPromoteCmd(via) == runRosterCmd(via, "group.promote")
groupDemoteCmd(via) == runRosterCmd(via, "group.demote")
groupEditCmd(via) == Calls(via, {"group.edit"})
groupInviteGetCmd(via) == Calls(via, {"group.inviteGet"})
groupInviteRevokeCmd(via) == Calls(via, {"group.inviteRevoke"})
groupInviteJoinCmd(via) == Calls(via, {"group.inviteJoin"})
runChatList(via) == Calls(via, {"chat.list"})
chatListCmd(via) == runChatList(via)
chatLastActiveCmd(via) == runChatList(via)
chatArchiveCmd(via) == Calls(via, {"chat.archive"})
chatPinCmd(via) == Calls(via, {"chat.pin"})
chatMuteCmd(via) == Calls(via, {"chat.mute"})
chatMarkUnreadCmd(via) == Calls(via, {"chat.markUnread"})
contactBlockCmd(via) == Calls(via, {"contact.block"})
contactUnblockCmd(via) == Calls(via, {"contact.unblock"})
contactBlocklistCmd(via) == Calls(via, {"contact.blocklist"})
contactsLookupCmd(via) == Calls(via, {"contacts.lookup"})
contactsSearchCmd(via) == Calls(via, {"contacts.search"})
contactsListCmd(via) == Calls(via, {"contacts.list"})
contactsAnnotateCmd(via) == Calls(via, {"contacts.annotate"})
contactsSyncCmd(via) == Calls(via, {"contacts.sync"})
historyCmd(via) == Calls(via, {"history"})
parseFireAt == <<Check>>
scheduleSendCmd(via) == Prefixed(parseFireAt, Calls(via, {"schedule.send"}))
scheduleListCmd(via) == Calls(via, {"schedule.list"})
scheduleCancelCmd(via) == Calls(via, {"schedule.cancel"})
scheduleUpdateCmd(via) == Prefixed(parseFireAt, Calls(via, {"schedule.update"}))
privacyGetCmd(via) == Calls(via, {"privacy.get"})
privacySetCmd(via) == Calls(via, {"privacy.set"})
msgForwardCmd(via) == Calls(via, {"message.forward"})
msgStarCmd(via) == Calls(via, {"message.star"})
msgDisappearingCmd(via) == Calls(via, {"message.setDisappearing"})
labelsListCmd(via) == Calls(via, {"labels.list"})
labelsCreateCmd(via) == Calls(via, {"labels.create"})
labelsDeleteCmd(via) == Calls(via, {"labels.delete"})
sendLabelAssignment(via, m) == Calls(via, {m})
labelsAssignCmd(via) == sendLabelAssignment(via, "labels.assign")
labelsUnassignCmd(via) == sendLabelAssignment(via, "labels.unassign")
syncForceCmd(via) == Calls(via, {"sync.force"})
syncStatusCmd(via) == Calls(via, {"sync.status"})
allowAddCmd(via) == Calls(via, {"allow"})
allowRemoveCmd(via) == Calls(via, {"allow"})
allowListCmd(via) == Calls(via, {"allow"})
pollCreateCmd(via) == Calls(via, {"poll.create"})
pollVoteCmd(via) == Calls(via, {"poll.vote"})
groupsCmd(via) == Calls(via, {"groups"})
groupsGetCmd(via) == Calls(via, {"groups.get"})
draftListCmd(via) == Calls(via, {"draft.list"})
draftGetCmd(via) == Calls(via, {"draft.get"})
draftApproveCmd(via) == Calls(via, {"draft.approve"})
draftRejectCmd(via) == Calls(via, {"draft.reject"})
webhookAddCmd(via) == Calls(via, {"webhook.add"})
webhookListCmd(via) == Calls(via, {"webhook.list"})
webhookRmCmd(via) == Calls(via, {"webhook.remove"})
webhookDeliveriesCmd(via) == Calls(via, {"webhook.deliveries"})
webhookReplayCmd(via) == Calls(via, {"webhook.replay"})
messagesCmd(via) == Calls(via, {"messages"})
messagesListCmd(via) == Calls(via, {"messages.list"})
msgRevokeCmd(via) == Calls(via, {"message.revoke"})
msgEditCmd(via) == Calls(via, {"message.edit"})
appstateResyncCmd(via) == Calls(via, {"appstate.resync"})
runPresence(via, m) == Calls(via, {m})
presenceComposingStartCmd(via) == runPresence(via, "presence.composing.start")
presenceComposingStopCmd(via) == runPresence(via, "presence.composing.stop")
presenceRecordingStartCmd(via) == runPresence(via, "presence.recording.start")
presenceRecordingStopCmd(via) == runPresence(via, "presence.recording.stop")
debugPprofCmd(via) == Calls(via, {"debug.pprof.profile"})
embeddingsStatusCmd(via) == Calls(via, {"embeddings.status"})
embeddingsPurgeCmd(via) == Calls(via, {"embeddings.purge"})
healthCmd(via) == Calls(via, {"health"})
profileAvatarCmd(via) == Calls(via, {"contacts.profilePhoto"})
threadCmd(via) == Calls(via, {"thread.get"})
waitCmd(via) == Calls(via, {"wait"})
sessionLogoutAllCmd(via) == Calls(via, {"session.logoutAll"})
profileSetNameCmd(via) == Calls(via, {"profile.setName"})
profileSetStatusCmd(via) == Calls(via, {"profile.setStatus"})
searchCmd(via) == Calls(via, {"search"})
panicCmd(via) == Calls(via, {"panic"})
statusCmd(via) == Calls(via, {"status"})
configFeaturesCmd(via) == Calls(via, {"config.features"})

(* The three that open a connection of their own say no hello: refused. *)
openSubscription == dial \o serveConn("subscribe")
subscribeCmd == {<<Check>> \o openSubscription}
runReload == {dial \o serveConn("admin.reload")}
runAuditRotate == {<<Check>> \o dial \o serveConn("admin.audit.rotate")}

-----------------------------------------------------------------------------
(* wa: a look at the answer, or more than one call *)

\* A reply without the filters that were asked for is refused.
verifyFiltersApplied == <<Check>>
mediaListCmd(via) == Then(Calls(via, {"media.list"}), {verifyFiltersApplied})
printContactResolveAlt == <<Check>>
contactLidCmd(via) == Then(Calls(via, {"contact.resolve"}), {printContactResolveAlt})
contactPnCmd(via) == Then(Calls(via, {"contact.resolve"}), {printContactResolveAlt})
\* Nothing exported is an error.
exportCmd(via) == Then(Calls(via, {"export"}), {<<Check>>})
\* Without --yes only the messages that would go are counted.
purgeCmd(via) == Calls(via, {"purge"}) \cup Calls(via, {"history"})

\* A remote daemon cannot read the local file: its bytes go first, by a request
\* of their own.
readLocalMediaForUpload == <<Check>>
uploadLocalForSend(via) == Prefixed(readLocalMediaForUpload, callRemoteUpload(via))
sendMediaCmd(via) ==
    Calls(via, {"sendMedia"})
    \cup (IF via = "socket" THEN {} ELSE Then(uploadLocalForSend(via), callRemote(via, "sendMedia")))

validateMediaSelection == <<Check>>
writeMediaOut == <<Put("file")>>
\* In chunks, each a call of its own on one connection: two of them here.
fetchMediaSocket ==
    Then(Prefixed(dial \o sendHelloOn, callOn("media.fetchBytes")),
         {writeMediaOut} \cup Then(callOn("media.fetchBytes"), {writeMediaOut}))
fetchMediaHTTP(via) == Then(Prefixed(normaliseRemoteURL \o <<Check>>, handleMediaFetch(via)), {writeMediaOut})
fetchMedia(via) == IF via = "socket" THEN fetchMediaSocket ELSE fetchMediaHTTP(via)
mediaFetchCmd(via) ==
    Prefixed(validateMediaSelection,
             fetchMedia(via) \cup Then(Calls(via, {"media.download"}), Prefixed(<<Check>>, fetchMedia(via))))

\* --reset unlinks the device first.
pairCmd(via) ==
    Calls(via, {"pair"})
    \cup Then(Calls(via, {"session.logout"}), Prefixed(<<Check>>, callAndClose(via, "pair")))

Commands(via) ==
    UNION {sendCmd(via), reactCmd(via), replyCmd(via), markReadCmd(via), sendSeenCmd(via),
           mediaResolveCmd(via), mediaDownloadCmd(via), mediaGCCmd(via), groupCreateCmd(via),
           groupLeaveCmd(via), groupAddCmd(via), groupRemoveCmd(via),
           groupPromoteCmd(via), groupDemoteCmd(via), groupEditCmd(via), groupInviteGetCmd(via),
           groupInviteRevokeCmd(via), groupInviteJoinCmd(via), chatListCmd(via), chatLastActiveCmd(via),
           chatArchiveCmd(via), chatPinCmd(via), chatMuteCmd(via), chatMarkUnreadCmd(via),
           contactBlockCmd(via), contactUnblockCmd(via), contactBlocklistCmd(via),
           contactsLookupCmd(via), contactsSearchCmd(via), contactsListCmd(via),
           contactsAnnotateCmd(via), contactsSyncCmd(via), historyCmd(via), scheduleSendCmd(via),
           scheduleListCmd(via), scheduleCancelCmd(via), scheduleUpdateCmd(via),
           privacyGetCmd(via), privacySetCmd(via), msgForwardCmd(via), msgStarCmd(via),
           msgDisappearingCmd(via), labelsListCmd(via), labelsCreateCmd(via),
           labelsDeleteCmd(via), labelsAssignCmd(via), labelsUnassignCmd(via), syncForceCmd(via), syncStatusCmd(via),
           allowAddCmd(via), allowRemoveCmd(via), allowListCmd(via), pollCreateCmd(via), pollVoteCmd(via), groupsCmd(via), groupsGetCmd(via),
           draftListCmd(via), draftGetCmd(via), draftApproveCmd(via), draftRejectCmd(via),
           webhookAddCmd(via), webhookListCmd(via), webhookRmCmd(via), webhookDeliveriesCmd(via),
           webhookReplayCmd(via), messagesCmd(via), messagesListCmd(via), msgRevokeCmd(via),
           msgEditCmd(via), appstateResyncCmd(via), presenceComposingStartCmd(via), presenceComposingStopCmd(via),
           presenceRecordingStartCmd(via), presenceRecordingStopCmd(via), debugPprofCmd(via),
           embeddingsStatusCmd(via), embeddingsPurgeCmd(via), healthCmd(via),
           profileAvatarCmd(via), threadCmd(via), waitCmd(via), sessionLogoutAllCmd(via),
           profileSetNameCmd(via), profileSetStatusCmd(via), searchCmd(via), panicCmd(via),
           statusCmd(via), configFeaturesCmd(via), mediaListCmd(via), contactLidCmd(via), contactPnCmd(via),
           exportCmd(via), purgeCmd(via), sendMediaCmd(via), mediaFetchCmd(via), pairCmd(via)}

-----------------------------------------------------------------------------
(* MCP tools and resources: wa mcp serve speaks to the socket, the /mcp     *)
(* route straight to the dispatcher                                        *)

socketCaller(m) == callLocal(m)
dispatcherCaller(m) == Prefixed(<<Check>>, dispatchRecovered(m))
forward(caller, m) ==
    Prefixed(<<Check>>, IF caller = "stdio" THEN socketCaller(m) ELSE dispatcherCaller(m))
registerMessageSendTools(caller, mode) ==
    forward(caller, "schedule.send")
    \cup (IF mode = "draft" THEN forward(caller, "draft.create")
          ELSE forward(caller, "send") \cup forward(caller, "sendMedia"))
registerMessageReadTools(caller) ==
    UNION {forward(caller, m) : m \in {"messages.search", "thread.get", "wait", "media.download"}}
registerContactTools(caller) == forward(caller, "contacts.search") \cup forward(caller, "chat.list")
registerSafetyTools(caller) == forward(caller, "draft.get") \cup forward(caller, "draft.list")
registerGroupTools(caller) == forward(caller, "groups.get") \cup forward(caller, "groups")
registerMetaTools(caller) == forward(caller, "status")
\* With read-only, and with the mode deny, the sending tools are not there.
registerTools(caller, mode) ==
    UNION {registerMessageReadTools(caller), registerContactTools(caller),
           registerSafetyTools(caller), registerGroupTools(caller), registerMetaTools(caller)}
    \cup (IF mode = "deny" THEN {} ELSE registerMessageSendTools(caller, mode))

registerStaticJSONResource(caller, m) == forward(caller, m)
registerChatsRecentResource(caller) == registerStaticJSONResource(caller, "chat.list")
registerStatusResource(caller) == registerStaticJSONResource(caller, "status")
jidFromContactURI == <<Check>>
registerContactResource(caller) == Prefixed(jidFromContactURI, forward(caller, "contacts.search"))
registerResources(caller) ==
    UNION {registerChatsRecentResource(caller), registerContactResource(caller),
           registerStatusResource(caller)}
NewServer(caller, mode) == registerTools(caller, mode) \cup registerResources(caller)

\* wa mcp serve asks for the status once, then serves.
mcpServeCmd ==
    Calls("socket", {"status"})
    \cup UNION {NewServer("stdio", mode) : mode \in {"draft", "direct", "deny"}}
\* The mode of the environment, draft unless it is one of the three.
parseMCPSendMode == {"draft", "direct", "deny"}
\* A read token gets the server without the sending tools.
buildMCPProvider(scope) ==
    IF scope = "read" THEN NewServer("http", "deny")
    ELSE UNION {NewServer("http", mode) : mode \in parseMCPSendMode}
handleMCP(via, scope) == Prefixed(Verify(via) \o <<Check>>, buildMCPProvider(scope))
=============================================================================
