------------------------------- MODULE Stores -------------------------------
(***************************************************************************)
(* The functions of the local stores that the handlers and the adapter     *)
(* call, as programs (see Steps): the message history, the contacts and    *)
(* their mirror, the transcripts and the tokens of the REST server.  A     *)
(* query and the scan of its rows are a check each.                        *)
(***************************************************************************)
EXTENDS Steps

-----------------------------------------------------------------------------
(* Message history: queries *)

scanStoredMessages == <<Check>>
QueryHistory == <<Look>> \o scanStoredMessages
QueryMessages == <<Look>> \o scanStoredMessages
ExportChatFiltered == <<Look>> \o scanStoredMessages
\* Thirteen columns are selected and fourteen scanned: the scan fails on the first
\* hit, and only a search without hits has an answer.
QuerySearch == Fn(<<Look, Enough, Never>>)
QueryChats == <<Look>>
QueryMessagesFiltered == <<Look>> \o scanStoredMessages
RecentChats == QueryChats
refByOrder == <<Look>>
threadMessages == <<Look>>
receiptsForChat == <<Look>>
History_GetThread == <<Check>> \o threadMessages \o receiptsForChat
History_LatestIncoming == <<Look>>
History_GetRawProto == <<Look>>
\* The bytes must still parse.
Quoted_GetRawProto == History_GetRawProto \o <<Check>>
GetSender == <<Look>>
GetMessageMeta == <<Look>>
GetMessageIdentity == <<Look>>

-----------------------------------------------------------------------------
(* Message history: writes *)

\* A message without a row is passed over without an error.
StampRevoke == <<Put("history")>>
\* A message without a row is an error.
StampEdit == <<Put("history")>>
PurgeChat == <<Put("history")>>
\* Every error of it is taken for a miss; a hit is the answer.
Transcript_Get == <<Enough>>
Transcript_Upsert == <<Put("transcripts")>>

-----------------------------------------------------------------------------
(* Contacts *)

scanContacts == <<Check>>
Contacts_Search == <<Check, Look>> \o scanContacts
ListChanged == <<Look>> \o scanContacts
Annotate == <<Check, Put("contacts")>>
Upsert == <<Check, Put("contacts")>>
mergeStoreContacts == <<Look>>
AllContacts == <<Check>> \o mergeStoreContacts
\* An error only when not one contact of several could be written.
Mirror_Sync == Fn(AllContacts \o <<Enough>> \o Upsert \o BestEffort(Upsert))

-----------------------------------------------------------------------------
(* Tokens of the REST server *)

Tokens_Open == <<Check>>
Tokens_Issue == <<Check, Put("tokens")>>
\* No row changed: the token is revoked already, or there is none.
Tokens_Revoke == Fn(<<Put("tokens"), Enough, Look>>)
Tokens_List == <<Look>>
Tokens_Sweep == <<Put("tokens")>>
\* Kept in memory and written once a minute and at the close: lost by a crash.
touch == <<Keep("last_used")>>
\* Malformed, unknown, revoked or expired: no.
Tokens_Verify == <<Check, Look, Check>> \o touch
=============================================================================
