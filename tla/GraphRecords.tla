----------------------------- MODULE GraphRecords ------------------------------
(***************************************************************************)
(* Records behind Microsoft Graph: mail and calendar (graph.rs, model.rs   *)
(* and doc.rs of sim-lib-mail), lists and drives of SharePoint (graph.rs   *)
(* and model.rs of sim-site-sharepoint).  An absent JSON field is None; a  *)
(* reading is refused whole, as None, where one record of it is.           *)
(***************************************************************************)
EXTENDS GraphClient, SequencesExt

CONSTANT FieldOrder     \* the names of list fields, in the order of their bytes

\* The elements of a sequence that are members of a set, in their order.
Kept(seq, set) ==
    LET kept[n \in 0..Len(seq)] ==
            IF n = 0 THEN <<>>
            ELSE IF seq[n] \in set THEN Append(kept[n - 1], seq[n]) ELSE kept[n - 1]
    IN kept[Len(seq)]

\* Items converted one by one, or None where one of them cannot be.
AllOrNone(records) == IF None \in ToSet(records) THEN None ELSE records

OptionalText(text) == IF text = None \/ Blank(text) THEN None ELSE text
OrElse(text, other) == IF text = None THEN other ELSE text

\* A reference to something outside.
ExternalRef(backend, id, version, url) ==
    [backend |-> backend, external_id |-> id, version |-> version, web_url |-> url]

(***************************************************************************)
(* Targets                                                                 *)
(***************************************************************************)
MailboxBase(user) ==
    IF Blank(user) THEN None ELSE IF user = "me" THEN <<"me">> ELSE <<"users", user>>
\* A folder or a calendar narrows the path if it is not blank.
TargetPath(user, collection, container, narrowed) ==
    IF MailboxBase(user) = None THEN None
    ELSE Path(MailboxBase(user)
              \o (IF OptionalText(narrowed) = None THEN <<collection>>
                  ELSE <<container, narrowed, collection>>))
MessagesPath(target) == TargetPath(target.user, "messages", "mailFolders", target.narrowed)
EventsPath(target) == TargetPath(target.user, "events", "calendars", target.narrowed)
DraftsPath(target) == TargetPath(target.user, "messages", "mailFolders", None)

ItemsPath(target) == Path(<<"sites", target.site, "lists", target.list, "items">>)
ChildrenPath(target) ==
    Path(<<"sites", target.site, "drives", target.drive>>
         \o (IF target.item = None THEN <<"root">> ELSE <<"items", target.item>>) \o <<"children">>)

(***************************************************************************)
(* Times: an instant in minutes, written with its offset, or as local time *)
(* of a zone, or in no form that can be read.                              *)
(***************************************************************************)
UtcZones == {"UTC", "Etc/UTC", "Etc/GMT", "GMT", "Greenwich Standard Time"}

\* Mutant of ParseGraphDatetime: a local time is taken for UTC in every zone.
ParseGraphDatetimeAsUtc(time) ==
    CASE time = None -> None
      [] time # None /\ time.form \in {"offset", "local"} -> time.minutes
      [] OTHER -> None

\* parse_graph_datetime: without an offset the zone must be UTC by name.
ParseGraphDatetime(time) ==
    CASE time = None -> None
      [] time # None /\ time.form = "offset" -> time.minutes
      [] time # None /\ time.form = "local" -> IF time.zone \in UtcZones THEN time.minutes ELSE None
      [] OTHER -> None

(***************************************************************************)
(* Mail and events                                                         *)
(***************************************************************************)
\* graph_email: the address, or else the name.
GraphEmail(person) ==
    IF person = None THEN None
    ELSE OrElse(OptionalText(person.address), OptionalText(person.name))

\* external_ref_from_response: the id must be there, the version is the etag or
\* else the change key.
ExternalRefFromResponse(json) ==
    IF json.id = None THEN None
    ELSE ExternalRef("site/msgraph", json.id, OrElse(OptionalText(json.etag), OptionalText(json.change)),
                     OptionalText(json.url))

AttachmentsFromMessage(json) ==
    IF json.attachments = None THEN <<>>
    ELSE AllOrNone([i \in 1..Len(json.attachments) |-> ExternalRefFromResponse(json.attachments[i])])

\* Attendees without address and name are left out.
AttendeesFromEvent(json) ==
    IF json.attendees = None THEN <<>>
    ELSE LET emails == [i \in 1..Len(json.attendees) |-> GraphEmail(json.attendees[i])]
         IN Kept(emails, ToSet(emails) \ {None})

\* message_from_json: an id; a time that is given must be readable.
MessageFromJson(json) ==
    IF \/ json.id = None
       \/ json.received # None /\ ParseGraphDatetime(json.received) = None
       \/ AttachmentsFromMessage(json) = None
    THEN None
    ELSE [kind |-> "mail", id |-> json.id,
          subject |-> OrElse(OptionalText(json.subject), ""),
          from |-> OrElse(GraphEmail(json.from), ""),
          received |-> ParseGraphDatetime(json.received),
          preview |-> OrElse(OptionalText(json.preview), ""),
          attachments |-> AttachmentsFromMessage(json)]

CalendarEvent(id, subject, starts, ends, attendees) ==
    [kind |-> "calendar-event", id |-> id, subject |-> subject, starts |-> starts, ends |-> ends,
     attendees |-> attendees]

\* calendar_event_from_json: an id and both times.
CalendarEventFromJson(json) ==
    IF json.id = None \/ None \in {ParseGraphDatetime(json.start), ParseGraphDatetime(json.end)}
    THEN None
    ELSE CalendarEvent(json.id, OrElse(OptionalText(json.subject), ""),
                       ParseGraphDatetime(json.start), ParseGraphDatetime(json.end),
                       AttendeesFromEvent(json))

\* read_messages and read_calendar_events, on the answer of the call.
ReadMessages(answer) ==
    IF ~answer.ok THEN None
    ELSE IF answer.body.value = None THEN None
    ELSE AllOrNone([i \in 1..Len(answer.body.value) |-> MessageFromJson(answer.body.value[i])])
ReadCalendarEvents(answer) ==
    IF ~answer.ok THEN None
    ELSE IF answer.body.value = None THEN None
    ELSE AllOrNone([i \in 1..Len(answer.body.value) |->
                       CalendarEventFromJson(answer.body.value[i])])

(***************************************************************************)
(* Their documents                                                         *)
(***************************************************************************)
\* datetime_expr and datetime_from_expr: an instant is written with its offset.
DatetimeExpr(minutes) == [form |-> "offset", minutes |-> minutes, zone |-> None]
DatetimeFromExpr(time) == IF time.form = "offset" THEN time.minutes ELSE None

\* mail_to_doc and calendar_event_to_doc: an id, and no end before the start.
MailToDoc(mail) ==
    IF Blank(mail.id) THEN None
    ELSE [kind |-> "mail", id |-> mail.id,
          body |-> [mail EXCEPT !.received = IF @ = None THEN None ELSE DatetimeExpr(@)]]
CalendarEventToDoc(event) ==
    IF Blank(event.id) \/ event.ends < event.starts THEN None
    ELSE [kind |-> "calendar-event", id |-> event.id,
          body |-> CalendarEvent(event.id, event.subject, DatetimeExpr(event.starts),
                                 DatetimeExpr(event.ends), event.attendees)]

\* doc_to_mail and doc_to_calendar_event, which check neither.
DocToMail(doc) ==
    IF doc.kind # "mail" THEN None
    ELSE [doc.body EXCEPT !.received = IF @ = None THEN None ELSE DatetimeFromExpr(@)]
DocToCalendarEvent(doc) ==
    IF doc.kind # "calendar-event" THEN None
    ELSE CalendarEvent(doc.body.id, doc.body.subject, DatetimeFromExpr(doc.body.starts),
                       DatetimeFromExpr(doc.body.ends), doc.body.attendees)

(***************************************************************************)
(* Drafts                                                                  *)
(***************************************************************************)
\* validate_draft: a subject, and recipients, none of them blank.
ValidDraft(draft) ==
    ~Blank(draft.subject) /\ draft.to # <<>> /\ \A i \in 1..Len(draft.to) : ~Blank(draft.to[i])
DraftToJson(draft) ==
    [subject |-> draft.subject, content_type |-> "Text", content |-> draft.body, to |-> draft.to]

DraftRefused(draft) == ~ValidDraft(draft) \/ DraftsPath(draft.target) = None

\* What the host is told: the error, the subject of its text, and a reference.
DraftError(error, about) == [error |-> error, about |-> about, ref |-> None]

\* create_draft on the answer of the call: a draft that is refused, every
\* failure of the call, its cause redacted, as invalid mail too, and a response
\* without an id as a wrong body.
CreateDraft(mode, granted, draft, response) ==
    LET answer == GraphPost(mode, granted, DraftsPath(draft.target), DraftToJson(draft), response)
    IN IF DraftRefused(draft) THEN DraftError("InvalidMail", "draft")
       ELSE IF ~answer.ok THEN DraftError("InvalidMail", "call")
       ELSE IF ExternalRefFromResponse(answer.body) = None
       THEN DraftError("WrongDocBody", "response")
       ELSE [error |-> "none", about |-> "none", ref |-> ExternalRefFromResponse(answer.body)]

(***************************************************************************)
(* Lists and drives                                                        *)
(***************************************************************************)
FixedHeaders == <<"id", "webUrl", "eTag">>
EtagField == "@odata.etag"

ItemEtag(item) == OrElse(item.etag, item.odata)

\* json_to_cell: null and the empty text are blank, numbers and nested values
\* become texts.
JsonToCell(json) ==
    [kind |-> CASE json.type = "bool" -> "bool"
                [] json.type = "null" \/ (json.type = "string" /\ json.text = "") -> "blank"
                [] OTHER -> "text",
     text |-> json.text]
TextCell(text) == [kind |-> IF text = "" THEN "blank" ELSE "text", text |-> text]

\* list_field_names and list_headers: the fixed columns, then every field of
\* any item by name.
ListFieldNames(items) ==
    (UNION {DOMAIN items[i].fields : i \in 1..Len(items)}) \ {EtagField}
ListHeaders(items) == FixedHeaders \o Kept(FieldOrder, ListFieldNames(items))

\* write_list_item_row: a field named like a fixed column shows the item's own.
ListCell(item, header) ==
    CASE header = "id" -> TextCell(item.id)
      [] header = "webUrl" -> TextCell(OrElse(item.url, ""))
      [] header = "eTag" -> TextCell(ItemEtag(item))
      [] OTHER -> IF header \in DOMAIN item.fields THEN JsonToCell(item.fields[header])
                                                   ELSE TextCell("")

\* list_items on the answer of the call: a header row and a row for each item,
\* refused if an item lacks its id, its version or its fields.
ListItems(target, answer) ==
    LET items == answer.body.value
        headers == ListHeaders(items)
    IN IF ~answer.ok THEN None
       ELSE IF items = None THEN None
       ELSE IF \E i \in 1..Len(items) : None \in {items[i].id, ItemEtag(items[i]), items[i].fields}
       THEN None
       ELSE [kind |-> "sheet", id |-> <<"site/sharepoint", target.site, target.list>>,
             headers |-> headers,
             rows |-> [i \in 1..Len(items) |->
                          [j \in 1..Len(headers) |-> ListCell(items[i], headers[j])]]]

\* drive_children: a reference for each child, with id and version.
DriveItemRef(target, item) ==
    IF None \in {item.id, ItemEtag(item)} THEN None
    ELSE ExternalRef("site/sharepoint", <<target.site, target.drive, item.id>>,
                     ItemEtag(item), item.url)
DriveChildren(target, answer) ==
    IF ~answer.ok THEN None
    ELSE IF answer.body.value = None THEN None
    ELSE AllOrNone([i \in 1..Len(answer.body.value) |->
                       DriveItemRef(target, answer.body.value[i])])
===============================================================================
