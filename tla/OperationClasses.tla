-------------------------- MODULE OperationClasses --------------------------
(***************************************************************************)
(* The operations the application offers and their effect classes: the     *)
(* entry points of the services in internal/application.                   *)
(*                                                                         *)
(* An operation class is a record.  "service" says what the service method *)
(* does with the verdict of the guard:                                     *)
(*   direct    runs on allow; it has no approval path                      *)
(*   either    runs on allow, hands out the preview on preview             *)
(*   approved  refuses to run on allow ("attempted to bypass mandatory     *)
(*             preview"); it runs only from a commit                       *)
(***************************************************************************)
Reads == {"read", "sensitive_read"}
Writes == {"reversible_write", "external_write", "destructive_write"}

\* domain.Effect.IsWrite
IsWrite(effect) == effect \in Writes

Class(name, effect, service) ==
  [name |-> name, effect |-> effect, service |-> service]

MailList       == Class("mail.list",           "read",              "direct")
MailSearch     == Class("mail.search",         "read",              "direct")
MailFolders    == Class("mail.folders.list",   "read",              "direct")
MailBody       == Class("mail.get_body",       "sensitive_read",    "either")
MailAttachment == Class("mail.get_attachment", "sensitive_read",    "either")
MailDraft      == Class("mail.create_draft",   "reversible_write",  "either")
MailMove       == Class("mail.move",           "reversible_write",  "either")
MailReadState  == Class("mail.set_read_state", "reversible_write",  "either")
MailSend       == Class("mail.send",           "external_write",    "approved")
MailDelete     == Class("mail.delete",         "destructive_write", "approved")
CalendarList   == Class("calendar.list",       "read",              "direct")
CalendarCreate == Class("calendar.create",     "external_write",    "approved")
CalendarUpdate == Class("calendar.update",     "external_write",    "approved")
CalendarCancel == Class("calendar.cancel",     "destructive_write", "approved")

Catalogue ==
  {MailList, MailSearch, MailFolders, MailBody, MailAttachment, MailDraft,
   MailMove, MailReadState, MailSend, MailDelete, CalendarList,
   CalendarCreate, CalendarUpdate, CalendarCancel}

\* The service runs the operation at once.
RunsOn(class, verdict) == verdict = "allow" /\ class.service # "approved"

\* The service hands the preview out.
Offers(class) == class.service # "direct"

\* The classes a commit method exists for.
Committable == {class \in Catalogue : Offers(class)}

\* How the executed event classifies the error of a transport call: the
\* services of reads never look for ErrWriteOutcomeUnknown.
Outcomes(class) ==
  {"success", "failure"} \cup (IF IsWrite(class.effect) THEN {"unknown"} ELSE {})
=============================================================================
