----------------------------- MODULE OfficeSites -------------------------------
(***************************************************************************)
(* A host and the services outside it: document sites in a context with    *)
(* capabilities, drafts made through Microsoft Graph, mail and calendars   *)
(* read from it, SharePoint lists read, edited by others and changed by    *)
(* batches, and exchanges with the LibreOffice helper.                     *)
(*                                                                         *)
(* A call borrows the context until it is answered, so calls of one host   *)
(* do not overlap.  What a service does of a call, and when, is open: a    *)
(* request can fail to arrive, arrive late, or be answered in vain.        *)
(***************************************************************************)
EXTENDS GraphRecords, SharePointRest, LibreOfficeHelper

CONSTANTS
    Scenario,    \* name -> what a behaviour is about: capabilities and sites,
                 \* requests to sites, modes, drafts, commands of the helper, list
                 \* items, operations of batches, responses to readings
    RemoteId,    \* n -> the id a service gives to what call n makes
    Tag,         \* n -> the version tag of the n-th change of an item
    NewItemId,   \* n -> the id of an item made by the n-th change
    ZoneShift    \* time zone -> minutes it is ahead of UTC

\* The helper is reached in one of two ways.
ASSUME TransportAssumption ==
    \A s \in DOMAIN Scenario : \A c \in Scenario[s].configs : c.transport \in {"process", "ipc"}

VARIABLES
    scenario,
    granted, registry,   \* the context
    log,                 \* history: what last went out or was answered by a site,
                         \* with the capabilities held then; None before
    calls,               \* drafts and helper exchanges: how each went out, and
                         \* what the host was told of it
    performed, pending,  \* the calls a service carried out, and may yet carry out
    items, changes,      \* a SharePoint list, and the number of its changes
    posted,              \* batches on their way
    batches,             \* how many batches the host sent
    list, shown,         \* the last list read; history: versions the host was shown
    reading, docs        \* the last records read, and the documents made of them

context == <<granted, registry>>
exchange == <<calls, performed, pending>>
service == <<items, changes, posted, batches>>
lists == <<list, shown>>
records == <<reading, docs>>
vars == <<scenario, context, log, exchange, service, lists, records>>

NoList == [items |-> None, sheet |-> None]
NoReading == [kind |-> "none", source |-> None, records |-> None]

Init ==
    /\ scenario \in DOMAIN Scenario
    /\ granted = GrantedByProfile /\ registry = <<>>
    /\ log = None
    /\ calls = <<>> /\ performed = {} /\ pending = {}
    /\ items \in Scenario[scenario].lists /\ changes = Len(items)
    /\ posted = {} /\ batches = 0
    /\ list = NoList /\ shown = {}
    /\ reading = NoReading /\ docs = <<>>

(***************************************************************************)
(* The context                                                             *)
(***************************************************************************)
Grant(capability) ==
    /\ granted' = granted \cup {capability}
    /\ UNCHANGED <<scenario, registry, log, exchange, service, lists, records>>

\* A context made anew holds what the profile grants, and no site.
NewContext ==
    /\ granted' = GrantedByProfile /\ registry' = <<>>
    /\ UNCHANGED <<scenario, log, exchange, service, lists, records>>

Register(site) ==
    /\ registry' = RegisterSite(registry, site)
    /\ UNCHANGED <<scenario, granted, log, exchange, service, lists, records>>

Realize(id, request) ==
    /\ RealizeSiteOp(registry, granted, id, request) # None
    /\ log' = [act |-> request.op, modeled |-> registry[id].modeled,
               needs |-> registry[id].required, held |-> granted]
    /\ UNCHANGED <<scenario, context, exchange, service, lists, records>>

\* The entry of what leaves the process for a site that is not modeled.
Sent(act, site) == [act |-> act, modeled |-> FALSE, needs |-> site.required, held |-> granted]
LogOf(sends, act) == IF sends THEN Sent(act, MsgraphSite(FALSE)) ELSE log

(***************************************************************************)
(* Drafts                                                                  *)
(***************************************************************************)
\* What can become of the request for a draft, and the response to it.
DraftFates == {"made", "made_without_id", "made_garbled", "made_unheard", "made_failed",
               "failed", "late", "unreached"}
DraftResponse(fate, n) ==
    LET body(id) == [id |-> id, etag |-> None, change |-> RemoteId[n], url |-> None]
    IN CASE fate = "made" -> Response(201, body(RemoteId[n]))
         [] fate = "made_without_id" -> Response(201, body(None))
         [] fate = "made_garbled" -> Response(200, None)
         [] fate \in {"made_failed", "failed"} -> Response(503, body(RemoteId[n]))
         [] OTHER -> None
DraftMade(fate) ==
    fate \in {"made", "made_without_id", "made_garbled", "made_unheard", "made_failed"}

SendDraft(mode, draft, fate) ==
    LET n == Len(calls) + 1
        sends == /\ ~DraftRefused(draft)
                 /\ Sends(mode, granted, DraftsPath(draft.target))
        result == CreateDraft(mode, granted, draft, DraftResponse(fate, n))
    IN /\ n <= Scenario[scenario].maxCalls
       /\ sends \/ fate = "unreached"
       /\ calls' = Append(calls, [via |-> IF mode.modeled THEN "modeled" ELSE "live",
                                  error |-> result.error, about |-> result.about,
                                  ref |-> result.ref])
       /\ performed' = IF DraftMade(fate) THEN performed \cup {n} ELSE performed
       /\ pending' = IF fate = "late" THEN pending \cup {n} ELSE pending
       /\ log' = LogOf(sends, "draft")
       /\ UNCHANGED <<scenario, context, service, lists, records>>

\* A request that arrives after the host has given it up, or never.
Arrive(n) ==
    /\ n \in pending
    /\ pending' = pending \ {n}
    /\ performed' \in {performed, performed \cup {n}}
    /\ UNCHANGED <<scenario, context, log, calls, service, lists, records>>

(***************************************************************************)
(* The helper                                                              *)
(***************************************************************************)
\* What a port can report of an exchange.
Attempt(kind, exit, reply) == [kind |-> kind, exit |-> exit, reply |-> reply]
Reply(n, error, id) ==
    [error |-> error, id |-> id, backend |-> None, version |-> None, url |-> None]
Attempts(transport, n) ==
    {Attempt("completed", 0, reply) :
        reply \in {None, Reply(n, TRUE, None), Reply(n, FALSE, None), Reply(n, FALSE, RemoteId[n])}}
    \cup (IF transport = "process"
          THEN {Attempt("completed", 1, None)}
               \cup {Attempt(kind, 0, None) : kind \in
                        {"spawn_failed", "not_dispatched", "stopped_after_timeout",
                         "stopped_after_cancel", "unknown"}}
          ELSE {Attempt(kind, 0, None) : kind \in
                   {"not_found", "connection_refused", "unsupported", "connect_timed_out",
                    "connect_failed", "timeout_unset", "write_failed", "flush_failed",
                    "read_timed_out", "read_failed"}})

\* What the helper can have done by then: a port that reports a stop has seen
\* the process end, a command that was not written whole is not taken.
Aftermath(attempt) ==
    CASE attempt.kind = "completed" /\ attempt.reply # None ->
            IF attempt.reply.id # None THEN {"done"} ELSE {"done", "not_done"}
      [] attempt.kind = "completed" /\ attempt.reply = None -> {"done", "not_done"}
      [] attempt.kind \in {"stopped_after_timeout", "stopped_after_cancel"} -> {"done", "not_done"}
      [] attempt.kind \in {"unknown", "flush_failed", "read_timed_out", "read_failed"} ->
            {"done", "not_done", "late"}
      [] OTHER -> {"not_done"}

\* Commands open an input, or export what an exchange before has opened.
Commands ==
    Scenario[scenario].commands
    \cup {ExportPdf(calls[i].ref, out) :
             i \in {k \in DOMAIN calls : calls[k].ref # None}, out \in Scenario[scenario].outputs}

RunHelper(config, command, attempt, aftermath) ==
    LET n == Len(calls) + 1
        asked == HelperRefusal(config, command, granted) = "none"
        result == RunUno(config, command, granted, attempt)
    IN /\ n <= Scenario[scenario].maxCalls
       /\ calls' = Append(calls, [via |-> config.transport, error |-> result.error,
                                  about |-> "exchange", ref |-> result.external])
       /\ performed' = IF asked /\ aftermath = "done" THEN performed \cup {n} ELSE performed
       /\ pending' = IF asked /\ aftermath = "late" THEN pending \cup {n} ELSE pending
       /\ log' = IF asked THEN Sent(config.transport, LibreofficeSite(FALSE)) ELSE log
       /\ UNCHANGED <<scenario, context, service, lists, records>>

(***************************************************************************)
(* Lists                                                                   *)
(***************************************************************************)
\* An item as the service shows it: its version in eTag, in the annotation of
\* OData, or not at all.
ItemJson(item) ==
    [id |-> item.id, url |-> item.url, fields |-> item.fields,
     etag |-> IF item.tagged = "eTag" THEN item.version ELSE None,
     odata |-> IF item.tagged = "odata" THEN item.version ELSE None]
ListResponse ==
    Response(200, [value |-> [i \in 1..Len(items) |-> ItemJson(items[i])]])

ReadList(mode, target, response) ==
    LET answer == GraphGet(mode, granted, ItemsPath(target), response)
        sheet == ListItems(target, answer)
    IN /\ list' = [items |-> IF answer.ok THEN answer.body.value ELSE None, sheet |-> sheet]
       /\ shown' = IF sheet = None THEN shown
                   ELSE shown \cup {<<sheet.rows[i][1].text, sheet.rows[i][3].text>> :
                                       i \in 1..Len(sheet.rows)}
       /\ log' = LogOf(Sends(mode, granted, ItemsPath(target)), "list")
       /\ UNCHANGED <<scenario, context, exchange, service, records>>

\* The fields with a new title; what is shown without fields stays so.
Titled(fields, value) ==
    IF fields = None THEN None
    ELSE [name \in DOMAIN fields \cup {"Title"} |-> IF name = "Title" THEN value ELSE fields[name]]

\* An item with a new title, under the n-th version tag.
Changed(item, value, by, n) ==
    [id |-> item.id, url |-> item.url, fields |-> Titled(item.fields, value),
     version |-> Tag[n], tagged |-> item.tagged, by |-> by]

\* Somebody else changes an item.
EditItem(i, value) ==
    /\ changes + 1 \in DOMAIN Tag /\ items[i].fields # None
    /\ items' = [items EXCEPT ![i] = Changed(@, value, "other", changes + 1)]
    /\ changes' = changes + 1
    /\ UNCHANGED <<scenario, context, log, exchange, posted, batches, lists, records>>

\* Operations on the items of the sheet the host holds: with the version of
\* the row, with a blank one, or with none.  A host could also write `If-Match:
\* *`, or a POST whose headers override its method, which the precondition lets
\* through and the service takes for any version: those are left out.
Operations ==
    LET rows == IF list.sheet = None THEN <<>> ELSE list.sheet.rows
        path(row) == ApiPath("bare", row[1].text)
    IN {BatchPost(ApiPath("bare", None), Scenario[scenario].value), BatchGet(ApiPath("other", None))}
       \cup UNION {{PatchChecked(path(row), Scenario[scenario].value, row[3].text),
                    PatchChecked(path(row), Scenario[scenario].value, " "),
                    Patch(path(row), Scenario[scenario].value),
                    DeleteChecked(path(row), row[3].text), Delete(path(row))} : row \in ToSet(rows)}

\* An operation is about an item by its id, and its version if it names one.
Names(op, item) == op.url.path.item = item.id /\ op.etag \in {None, item.version}

\* The service takes the operations of a batch one by one; an operation about
\* no item changes nothing.
Serve(state, op) ==
    LET named == {item \in ToSet(state.items) : Names(op, item)}
        next == state.changes + 1
    IN CASE op.method = "POST" ->
              [changes |-> next,
               items |-> Append(state.items,
                            [id |-> NewItemId[next], url |-> None, fields |-> [Title |-> op.body],
                             version |-> Tag[next], tagged |-> "eTag", by |-> "host"])]
         [] op.method = "PATCH" /\ named # {} ->
              [changes |-> next,
               items |-> [i \in 1..Len(state.items) |->
                  IF state.items[i] \in named THEN Changed(state.items[i], op.body, "host", next)
                                              ELSE state.items[i]]]
         [] op.method = "DELETE" ->
              [changes |-> state.changes, items |-> Kept(state.items, ToSet(state.items) \ named)]
         [] OTHER -> state
Served(body) ==
    LET served[n \in 0..Len(body)] ==
            IF n = 0 THEN [items |-> items, changes |-> changes]
            ELSE Serve(served[n - 1], body[n])
    IN served[Len(body)]

\* A batch of the host: answered, answered in vain, late, or lost.
SendBatch(carrier, url, ops, fate) ==
    LET body == BatchSent(carrier, url, ops)
    IN /\ body # None \/ fate = "lost"
       /\ \/ /\ fate = "served" /\ changes + Len(ops) \in DOMAIN Tag
             /\ items' = Served(body).items /\ changes' = Served(body).changes
          \/ fate # "served" /\ UNCHANGED <<items, changes>>
       /\ posted' = IF fate = "late" THEN posted \cup {body} ELSE posted
       /\ batches' = batches + 1
       /\ log' = IF body = None THEN log ELSE Sent("batch", SharepointSite(FALSE))
       /\ UNCHANGED <<scenario, context, exchange, lists, records>>

\* A late batch arrives.
Deliver(body) ==
    /\ changes + Len(body) \in DOMAIN Tag
    /\ items' = Served(body).items /\ changes' = Served(body).changes
    /\ posted' = posted \ {body}
    /\ UNCHANGED <<scenario, context, log, exchange, batches, lists, records>>

(***************************************************************************)
(* Readings                                                                *)
(***************************************************************************)
ReadPath(kind, target) ==
    CASE kind = "mail" -> MessagesPath(target)
      [] kind = "calendar-event" -> EventsPath(target)
      [] kind = "drive" -> ChildrenPath(target)

\* Mail, events or drive children, from the response of the service.
Read(kind, mode, target, response) ==
    LET path == ReadPath(kind, target)
        answer == GraphGet(mode, granted, path, response)
    IN /\ path # None
       /\ reading' = [kind |-> kind, source |-> IF answer.ok THEN answer.body.value ELSE None,
                      records |-> CASE kind = "mail" -> ReadMessages(answer)
                                    [] kind = "calendar-event" -> ReadCalendarEvents(answer)
                                    [] kind = "drive" -> DriveChildren(target, answer)]
       /\ docs' = <<>>
       /\ log' = LogOf(Sends(mode, granted, path), kind)
       /\ UNCHANGED <<scenario, context, exchange, service, lists>>

\* The documents of the records read; None where a record makes none.
Keep ==
    /\ reading.records # None /\ reading.kind # "drive"
    /\ docs' = [i \in 1..Len(reading.records) |->
                   IF reading.kind = "mail" THEN MailToDoc(reading.records[i])
                   ELSE CalendarEventToDoc(reading.records[i])]
    /\ UNCHANGED <<scenario, context, log, exchange, service, lists, reading>>

(***************************************************************************)
(* What is assumed of the services.  A list is a sequence of items, and a  *)
(* time that is given an instant in whole minutes; the names of all fields *)
(* have their order, and the zones that count as UTC are not shifted.  A   *)
(* cassette holds JSON.                                                    *)
(***************************************************************************)
Timed(time) == time = None \/ time.minutes \in Int
Listed(seq) == seq = None \/ seq \in Seq(ToSet(seq))
FieldsOrdered(item) == item.fields = None \/ DOMAIN item.fields \subseteq ToSet(FieldOrder)

RecordTyped(kind, json) ==
    /\ kind = "mail" => Timed(json.received) /\ Listed(json.attachments)
    /\ kind = "calendar-event" => Timed(json.start) /\ Timed(json.end) /\ Listed(json.attendees)
    /\ kind = "list" => FieldsOrdered(json)
BodyTyped(kind, body) ==
    body.value # None =>
        body.value \in Seq(ToSet(body.value)) /\ \A json \in ToSet(body.value) : RecordTyped(kind, json)
ResponseTyped(kind, response) ==
    response # None => response.body = None \/ BodyTyped(kind, response.body)
CassetteTyped(kind, mode, path) ==
    path \in DOMAIN mode.gets /\ Success(mode.gets[path]) =>
        mode.gets[path].body # None /\ BodyTyped(kind, mode.gets[path].body)

ASSUME OrderAssumption == FieldOrder \in Seq(ToSet(FieldOrder)) /\ "Title" \in ToSet(FieldOrder)
ASSUME ZoneAssumption == \A zone \in UtcZones : ZoneShift[zone] = 0
ASSUME ListsAssumption ==
    \A s \in DOMAIN Scenario :
       /\ \A its \in Scenario[s].lists :
             its \in Seq(ToSet(its)) /\ \A item \in ToSet(its) : FieldsOrdered(item)
       /\ \A mode \in Scenario[s].modes, target \in Scenario[s].listTargets :
             CassetteTyped("list", mode, ItemsPath(target))
ASSUME ReadingsAssumption ==
    \A s \in DOMAIN Scenario : \A r \in Scenario[s].readings :
       /\ r.kind \in {"mail", "calendar-event", "drive"} /\ ResponseTyped(r.kind, r.response)
       /\ \A mode \in Scenario[s].modes : CassetteTyped(r.kind, mode, ReadPath(r.kind, r.target))
\* A time is not absent.
ASSUME NoneAssumption == None \notin [form : {"offset"}, minutes : Int, zone : {None}]

Next ==
    \/ \E c \in Scenario[scenario].capabilities : Grant(c)
    \/ NewContext
    \/ \E site \in Scenario[scenario].sites : Register(site)
    \/ \E id \in DOMAIN registry, request \in Scenario[scenario].requests : Realize(id, request)
    \/ \E mode \in Scenario[scenario].modes, draft \in Scenario[scenario].drafts,
          fate \in DraftFates : SendDraft(mode, draft, fate)
    \/ \E n \in pending : Arrive(n)
    \/ /\ Len(calls) < Scenario[scenario].maxCalls
       /\ \E config \in Scenario[scenario].configs : \E command \in Commands,
          attempt \in Attempts(config.transport, Len(calls) + 1) :
             \E aftermath \in Aftermath(attempt) : RunHelper(config, command, attempt, aftermath)
    \/ \E mode \in Scenario[scenario].modes, target \in Scenario[scenario].listTargets,
          response \in {ListResponse, Response(404, None), None} : ReadList(mode, target, response)
    \/ \E i \in 1..Len(items), value \in Scenario[scenario].edits : EditItem(i, value)
    \/ /\ batches < Scenario[scenario].maxBatches
       /\ \E carrier \in Scenario[scenario].carriers, url \in Scenario[scenario].urls, n \in 0..2 :
             \E ops \in [1..n -> Operations], fate \in {"served", "late", "lost"} :
                SendBatch(carrier, url, ops, fate)
    \/ \E body \in posted : Deliver(body)
    \/ \E mode \in Scenario[scenario].modes, r \in Scenario[scenario].readings :
          Read(r.kind, mode, r.target, r.response)
    \/ Keep

Spec == Init /\ [][Next]_vars

(***************************************************************************)
(* Properties                                                              *)
(***************************************************************************)
\* What the descriptors of the sites say (place.rs, "Capabilities required for
\* live access"): nothing leaves the process, and no live site answers, without
\* the capabilities of its site being granted in the context of the moment.  The
\* code does not keep to it: over IPC the helper is asked whatever the context
\* holds.
EffectsLicensed == log = None \/ log.modeled \/ log.needs \subseteq log.held

\* What mail says of its error InvalidMail (model.rs, "A mail or calendar record
\* was invalid"): the record was wrong, so nothing came of it.  The code tells
\* every failure of Graph so.
InvalidUnsent == \A n \in DOMAIN calls : calls[n].error = "InvalidMail" => n \notin performed \cup pending

\* The errors by which the host is told that nothing was asked of the outside.
ToldUnsent(call) ==
    \/ call.error \in {"denied", "missing"}
    \/ call.error = "InvalidMail" /\ call.about = "draft"

\* What the host is told of a draft or an exchange is so outside, then and ever
\* after, however late a request arrives: a success has made what its reference
\* names; a call refused for its draft, its capabilities or a missing helper,
\* and a modeled one, has done nothing and never will; nor will a process that
\* was stopped at its deadline.  Every other error leaves it open by what is
\* said: InvalidMail about the call, WrongDocBody, HelperRefused, a timeout over
\* IPC, and IpcUnavailable, which also follows a command that was written.
OutcomesTrue ==
    \A n \in DOMAIN calls :
       LET call == calls[n]
       IN /\ call.error = "none" /\ call.via # "modeled" =>
                n \in performed /\ call.ref.external_id = RemoteId[n]
          /\ ToldUnsent(call) \/ call.via = "modeled" => n \notin performed \cup pending
          /\ call.via = "process" /\ call.error = "timeout" => n \notin pending

\* However calls are repeated, lost or late, a batch of the host never
\* overwrites or removes a version of an item that the host was not shown; a
\* host that writes `If-Match: *` or overrides the method of a POST, which the
\* code lets through, is not among those of this module.
NoLostUpdate ==
    [][\A i \in 1..Len(items) :
          \/ <<items[i].id, items[i].version>> \in shown
          \/ \E j \in 1..Len(items') :
                items'[j].id = items[i].id /\ (items'[j] = items[i] \/ items'[j].by = "other")]_vars

\* The instant that a time of the service stands for.
TrueInstant(time) ==
    IF time.form = "offset" THEN time.minutes ELSE time.minutes - ZoneShift[time.zone]

\* Whether a text says anything, and what is to be shown of two: the first that
\* says something, or what stands for neither.
Says(text) == text # None /\ ~Blank(text)
Shows(shows, none, first, second) ==
    /\ Says(first) => shows = first
    /\ ~Says(first) /\ Says(second) => shows = second
    /\ ~Says(first) /\ ~Says(second) => shows = none

\* Fields that no column of a sheet shows: the version of the fields, and those
\* named like a column of the item itself, which shows the item's own.
Hidden == {EtagField, "id", "webUrl", "eTag"}
ListFaithful(source, sheet) ==
    /\ Len(sheet.rows) = Len(source)
    /\ \A i \in 1..Len(source), j \in 1..Len(sheet.headers) :
          LET header == sheet.headers[j]
              shows == sheet.rows[i][j].text
          IN CASE header = "id" -> shows = source[i].id
               [] header = "eTag" -> shows \in {source[i].etag, source[i].odata} \ {None}
               [] header = "webUrl" -> shows = IF source[i].url = None THEN "" ELSE source[i].url
               [] OTHER -> shows = IF header \in DOMAIN source[i].fields
                                   THEN source[i].fields[header].text ELSE ""
    /\ {"id", "eTag", "webUrl"} \subseteq ToSet(sheet.headers)
    /\ \A i \in 1..Len(source) : DOMAIN source[i].fields \ Hidden \subseteq ToSet(sheet.headers)

\* Every attendee who has an address or a name, in order, and nobody else.
Reachable(person) == person # None /\ (Says(person.address) \/ Says(person.name))
AttendeesFaithful(source, attendees) ==
    LET people == IF source = None THEN <<>> ELSE source
    IN \E at \in [1..Len(attendees) -> 1..Len(people)] :
          /\ \A j, k \in 1..Len(attendees) : j < k => at[j] < at[k]
          /\ \A k \in 1..Len(attendees) :
                /\ Reachable(people[at[k]])
                /\ Shows(attendees[k], None, people[at[k]].address, people[at[k]].name)
          /\ \A i \in 1..Len(people) : Reachable(people[i]) => \E k \in 1..Len(attendees) : at[k] = i
EventFaithful(source, event) ==
    /\ event.id = source.id
    /\ Shows(event.subject, "", source.subject, None)
    /\ event.starts = TrueInstant(source.start)
    /\ event.ends = TrueInstant(source.end)
    /\ AttendeesFaithful(source.attendees, event.attendees)

\* Every attachment, in order, with its id, its version and its address.
AttachmentsFaithful(source, refs) ==
    /\ Len(refs) = IF source = None THEN 0 ELSE Len(source)
    /\ \A k \in 1..Len(refs) :
          /\ refs[k].external_id = source[k].id
          /\ Shows(refs[k].version, None, source[k].etag, source[k].change)
          /\ Shows(refs[k].web_url, None, source[k].url, None)
MailFaithful(source, mail) ==
    /\ mail.id = source.id
    /\ Shows(mail.subject, "", source.subject, None)
    /\ IF source.from = None THEN mail.from = ""
                             ELSE Shows(mail.from, "", source.from.address, source.from.name)
    /\ Shows(mail.preview, "", source.preview, None)
    /\ source.received = None <=> mail.received = None
    /\ source.received # None => mail.received = TrueInstant(source.received)
    /\ AttachmentsFaithful(source.attachments, mail.attachments)

\* A version that the item shows, for a write to name.
ChildFaithful(source, ref) ==
    /\ ref.external_id[3] = source.id
    /\ ref.version \in {source.etag, source.odata} \ {None}
    /\ ref.web_url = source.url

RecordFaithful(kind, source, record) ==
    CASE kind = "mail" -> MailFaithful(source, record)
      [] kind = "calendar-event" -> EventFaithful(source, record)
      [] kind = "drive" -> ChildFaithful(source, record)

\* A reading holds every item, message, event or child of the response, in
\* order, with its id, its version, its texts and contacts and the instants the
\* service meant, or it is refused; only the fields above stay hidden.  The
\* documents made of the records give them back.
ReadingsFaithful ==
    /\ list.sheet # None => ListFaithful(list.items, list.sheet)
    /\ reading.records # None =>
          /\ Len(reading.records) = Len(reading.source)
          /\ \A i \in 1..Len(reading.source) :
                RecordFaithful(reading.kind, reading.source[i], reading.records[i])
    /\ \A i \in 1..Len(docs) :
          docs[i] # None =>
             reading.records[i] = IF reading.kind = "mail" THEN DocToMail(docs[i])
                                                           ELSE DocToCalendarEvent(docs[i])
===============================================================================
