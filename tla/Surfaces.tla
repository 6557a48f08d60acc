------------------------------ MODULE Surfaces ------------------------------
(***************************************************************************)
(* What the two adapters offer a person or an agent: the commands of the   *)
(* command line (cmd/owa) and the tools of the MCP server                  *)
(* (internal/mcpserver), one entry per method of code.                     *)
(*                                                                         *)
(* A command reads its arguments and the configuration, opens the daemon,  *)
(* makes one call and, with --approve, a second one that commits the       *)
(* preview the first one returned.  "accepts" is the answer to the first   *)
(* call it can go on from:                                                 *)
(*   result    what it asked for; it has no --approve                      *)
(*   either    that, or a preview if the policy wants one                  *)
(*   preview   a preview and nothing else ("did not produce its mandatory  *)
(*             preview")                                                   *)
(* A tool makes one call and passes the answer on; the tool that commits   *)
(* takes a token and nothing else.                                         *)
(***************************************************************************)
EXTENDS OperationClasses

Command(class, accepts) == [class |-> class, accepts |-> accepts]

MailFoldersCommand    == Command(MailFolders,    "result")
MailListCommand       == Command(MailList,       "result")
MailSearchCommand     == Command(MailSearch,     "result")
MailMoveCommand       == Command(MailMove,       "either")
MailMarkCommand       == Command(MailReadState,  "either")
MailDeleteCommand     == Command(MailDelete,     "preview")
MailBodyCommand       == Command(MailBody,       "either")
MailAttachmentCommand == Command(MailAttachment, "either")
MailDraftCommand      == Command(MailDraft,      "either")
MailSendCommand       == Command(MailSend,       "preview")
CalendarListCommand   == Command(CalendarList,   "result")
CalendarCreateCommand == Command(CalendarCreate, "preview")
CalendarUpdateCommand == Command(CalendarUpdate, "preview")
CalendarCancelCommand == Command(CalendarCancel, "preview")

Commands ==
  {MailFoldersCommand, MailListCommand, MailSearchCommand, MailMoveCommand,
   MailMarkCommand, MailDeleteCommand, MailBodyCommand, MailAttachmentCommand,
   MailDraftCommand, MailSendCommand, CalendarListCommand,
   CalendarCreateCommand, CalendarUpdateCommand, CalendarCancelCommand}

Tool(class, call) == [class |-> class, call |-> call]
ToolAndCommit(class) == {Tool(class, "prepare"), Tool(class, "commit")}

CalendarListTools    == {Tool(CalendarList, "prepare")}
CalendarCreateTools  == ToolAndCommit(CalendarCreate)
CalendarUpdateTools  == ToolAndCommit(CalendarUpdate)
CalendarCancelTools  == ToolAndCommit(CalendarCancel)
MailFoldersTools     == {Tool(MailFolders, "prepare")}
MailBodyTools        == ToolAndCommit(MailBody)
MailAttachmentTools  == ToolAndCommit(MailAttachment)
MailDraftTools       == ToolAndCommit(MailDraft)
MailSendTools        == ToolAndCommit(MailSend)
MailListTools        == {Tool(MailList, "prepare")}
MailSearchTools      == {Tool(MailSearch, "prepare")}
MailMoveTools        == ToolAndCommit(MailMove)
MailReadStateTools   == ToolAndCommit(MailReadState)
MailDeleteTools      == ToolAndCommit(MailDelete)

Tools ==
  CalendarListTools \cup CalendarCreateTools \cup CalendarUpdateTools
  \cup CalendarCancelTools \cup MailFoldersTools \cup MailBodyTools
  \cup MailAttachmentTools \cup MailDraftTools \cup MailSendTools
  \cup MailListTools \cup MailSearchTools \cup MailMoveTools
  \cup MailReadStateTools \cup MailDeleteTools
=============================================================================
