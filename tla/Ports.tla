------------------------------- MODULE Ports -------------------------------
(***************************************************************************)
(* The functions of the WhatsApp adapter that the handlers call, as        *)
(* programs (see Steps).  The context, the validity of the arguments and   *)
(* the connection are one check; what a function builds or translates      *)
(* without an early return is left out.  Do names what changes at WhatsApp.*)
(***************************************************************************)
EXTENDS Stores

-----------------------------------------------------------------------------
(* Sending *)

readMediaFromStore == <<Check, Look, Check>>
readMediaFile == <<Check>>
\* The bytes of a media message come with it, from the store or from a file.
resolveMediaPayload(from) ==
    CASE from = "bytes" -> <<Check>>
      [] from = "sha256" -> readMediaFromStore
      [] from = "path" -> readMediaFile
buildMediaMessage(from) == <<Check>> \o resolveMediaPayload(from) \o <<Ask>>

\* kind: where the bytes of a media message come from, or the other variants.
buildOutboundMessage(kind) ==
    IF kind \in {"bytes", "sha256", "path"} THEN buildMediaMessage(kind) ELSE <<>>
\* Mutant: a message that cannot be stored is an error of the send.
StoreOrFail == <<Put("history")>>
\* The echo in the history is best effort.
persistOutbound == <<Keep("history")>>
Send(kind) ==
    <<Check>> \o buildOutboundMessage(kind) \o <<Do("message")>> \o persistOutbound

PollManager_Create == <<Check, Do("message")>>
\* The port does not carry what a vote needs: always ErrUpstreamError.
PollManager_Vote == <<Check, Never>>

\* In a chat with one person the sender is the chat.
resolveReadReceiptSender(group) == IF group THEN GetSender \o <<Check>> ELSE <<>>
markReceipt(group) == <<Check>> \o resolveReadReceiptSender(group) \o <<Do("receipt")>>

\* Throttled per chat: within the interval the call succeeds and sends nothing.
SendComposing == Fn(<<Check, Enough, Do("presence")>>)

IsOnWhatsApp == <<Ask>>

-----------------------------------------------------------------------------
(* Moderation: the change at WhatsApp first, the local stamp after it *)

buildDeleteForMe == GetMessageIdentity
Moderator_Revoke(scope) ==
    <<Check>>
    \o (IF scope = "everyone" THEN <<Do("message")>> ELSE buildDeleteForMe \o <<Do("appstate")>>)
    \o StampRevoke
Moderator_Edit == <<Check>> \o GetMessageMeta \o <<Check, Do("message")>> \o StampEdit

-----------------------------------------------------------------------------
(* Chat state and labels: app-state patches *)

Archive == <<Check, Do("appstate")>>
Mute == <<Check, Do("appstate")>>
\* The limit is looked at before the patch and the pin noted after it.
Pin(pinned) ==
    <<Check>> \o (IF pinned = "pin" THEN <<Room>> ELSE <<>>) \o <<Check, Do(pinned), Pinned(pinned)>>
MarkUnread == <<Check, Do("appstate")>>

CreateLabel == <<Check, Do("appstate")>>
DeleteLabel == Fn(<<Check, Enough, Do("appstate")>>)
sendAssignmentPatch == <<Check, Do("appstate")>>
Assign == <<Check>> \o sendAssignmentPatch
Unassign == <<Check>> \o sendAssignmentPatch
ListLabels == <<Check>>
DetectBusiness == <<Check, Ask>>

-----------------------------------------------------------------------------
(* Groups *)

translateGroup == <<Check>>
\* The slot is refunded when translateGroup fails: the group exists by then.
GroupAdmin_Create == <<Check>> \o Reserving("create", <<Do("newgroup")>> \o translateGroup)
Leave == <<Check, Do("group")>>

validateRosterInput == <<Check>>
\* One refused participant among several is an error of the whole call.
updateParticipants(effect) == <<Do(effect)>>
AddParticipants == validateRosterInput \o Reserving("add", updateParticipants("members"))
RemoveParticipants == validateRosterInput \o updateParticipants("group")
Promote == validateRosterInput \o updateParticipants("group")
Demote == validateRosterInput \o updateParticipants("group")

validateEditInput == <<Check>>
applyEditIcon == <<Check, Do("group")>>
\* fields: those of subject, description, icon that the patch sets, in that order.
applyEdit(fields) ==
    (IF "subject" \in fields THEN <<Do("group")>> ELSE <<>>)
    \o (IF "description" \in fields THEN <<Do("group")>> ELSE <<>>)
    \o (IF "icon" \in fields THEN applyEditIcon ELSE <<>>)
GroupAdmin_Edit(fields) == validateEditInput \o applyEdit(fields)

fetchInvite(reset) == <<Check, IF reset THEN Do("group") ELSE Ask>>
InviteGet == fetchInvite(FALSE)
InviteRevoke == fetchInvite(TRUE)
InviteJoin == <<Check, Do("group"), Check>>

\* A failing server question leaves the list empty, without an error.
Groups_List == <<Check>>
Groups_Get == Fn(<<Check, Enough, Ask>> \o translateGroup)

-----------------------------------------------------------------------------
(* The account *)

Block == <<Check, Do("blocklist")>>
Unblock == <<Check, Do("blocklist")>>
ListBlocked == <<Check, Ask>>
Privacy_Set == <<Check, Do("settings")>>
Privacy_Get == <<Check, Ask>>
SetName == <<Check, Do("settings")>>
SetStatus == <<Check, Do("settings")>>

writeContentAddressed == Fn(<<Enough, Put("avatars")>>)
httpAvatarFetcher == <<Ask>>
GetAvatar == Fn(<<Check, Ask, Enough>> \o httpAvatarFetcher \o <<Check>> \o writeContentAddressed)

\* No device, no session: the answer is then the empty session.
liveSession == <<>>
Session_Load == <<Check>> \o liveSession
\* whatsmeow has no LogoutAll at the pinned commit: always ErrUpstreamError.
LogoutAll == <<Check, Never>>
\* The store's device is deleted for the rest of the process: Do("logout").
Logout == <<Check, Do("logout")>>

\* The files are session.db, audit.log and the lock.
removePanicArtefacts == <<Keep("history"), Keep("media"), Keep("files")>>
\* Once per process; every failure on the way is collected, none stops it.
Panic == Fn(<<Enough, Try("logout")>> \o removePanicArtefacts)

deviceRetired == <<Alive>>
pairQR == <<Ask, Ask, Do("link")>>
pairPhone == <<Ask, Ask, Do("link")>>
Pair(how) ==
    deviceRetired
    \o CASE how = "live" -> <<>>
         [] how = "qr" -> pairQR
         [] how = "phone" -> pairPhone

-----------------------------------------------------------------------------
(* Media, history and contacts *)

findBySHA == <<Look>>
loadObject == <<Look>>
Media_Resolve == <<Check>> \o findBySHA \o loadObject
loadAdvertisedProto == History_GetRawProto \o <<Check>>
\* What cannot be found or loaded is fetched again.
cachedDownloadReport == <<Enough>>
fetchVerifiedPayload == <<Check, Ask, Check>>
Media_Write == Fn(<<Check, Enough, Put("media")>>)
Media_Download ==
    Fn(<<Check>> \o loadAdvertisedProto \o <<Check>> \o cachedDownloadReport \o fetchVerifiedPayload \o Media_Write)
gcWalk_remove == <<Put("media")>>
\* A directory that cannot be read ends the walk; a file that is young is left.
gcWalk_visit(dryRun) == <<Check>> \o (IF dryRun THEN <<>> ELSE <<Enough>> \o gcWalk_remove)
\* The walk stops at the first file it cannot remove; the others are gone.
Media_GC(dryRun) == Fn(<<Check>> \o gcWalk_visit(dryRun) \o gcWalk_visit(dryRun))
InspectMedia == <<Check>> \o History_GetRawProto

\* A best-effort message to our own phone: no error comes back.
sendHistoryRequest == <<Try("peer")>>
forceGlobalBackfill == RecentChats \o sendHistoryRequest
forceChatScopedSync == Fn(refByOrder \o <<Enough>> \o sendHistoryRequest \o <<Check>>)
ForceHistorySync(chat) == <<Check>> \o (IF chat THEN forceChatScopedSync ELSE forceGlobalBackfill)
parsePatchName == <<Check>>
ResyncAppState == <<Check>> \o parsePatchName \o <<Check, Ask>>

Resolve == <<Check, Ask>>
Lookup == Fn(<<Check, Enough, Look>>)
ResolveLID == <<Check, Look, Check>>
ResolvePN == <<Check, Look, Check>>
GetThread == History_GetThread
LatestIncoming == History_LatestIncoming
=============================================================================
