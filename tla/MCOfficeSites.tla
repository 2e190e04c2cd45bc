---------------------------- MODULE MCOfficeSites -----------------------------
(* Small instances of OfficeSites for TLC. *)
EXTENDS OfficeSites

MCRemoteId == <<"draft-1", "draft-2", "draft-3">>
MCTag == <<"v1", "v2", "v3">>
MCNewItemId == <<"item-1", "item-2", "item-3">>
MCFieldOrder == <<EtagField, "Due", "Title", "eTag", "id">>
MCZoneShift == ("UTC" :> 0) @@ ("Etc/UTC" :> 0) @@ ("Etc/GMT" :> 0) @@ ("GMT" :> 0)
               @@ ("Greenwich Standard Time" :> 0) @@ ("Pacific Standard Time" :> -480)
               @@ (None :> 60)

LiveMode == Live("https", "token")
NoCassette == Modeled(<<>>, <<>>)
Url(https, query) == [https |-> https, query |-> query]

\* Drafts, and a cassette that knows one of them.
Me == [user |-> "me", narrowed |-> None]
GoodDraft == [target |-> Me, subject |-> "plan", body |-> "text", to |-> <<"a@b">>]
Drafts == {GoodDraft, [GoodDraft EXCEPT !.to = <<"a@b", " ">>],
           [GoodDraft EXCEPT !.target.user = " "]}
DraftCassette ==
    InsertPost(NoCassette, DraftsPath(Me), DraftToJson(GoodDraft),
               Response(201, [id |-> "draft-1", etag |-> None, change |-> " ", url |-> None]))

\* Helper commands: inputs and outputs inside and outside their roots.
Helper == HelperPath("helper", "soffice")
GoodConfig(transport) == Config(1, 1, Helper, TRUE, transport)
Configs == {GoodConfig("process"), GoodConfig("ipc"), [GoodConfig("ipc") EXCEPT !.output = 0],
            [GoodConfig("process") EXCEPT !.nameable = FALSE],
            [GoodConfig("process") EXCEPT !.helper = HelperPath("input", "soffice")]}

\* Items of a list.
Text(text) == [type |-> "string", text |-> text]
Item(n, fields, tagged) ==
    [id |-> MCNewItemId[n], url |-> None, fields |-> fields, version |-> MCTag[n],
     tagged |-> tagged, by |-> "other"]
Plain == Item(1, "Title" :> Text("a"), "eTag")
Lists ==
    {<<Plain, Item(2, f, t)>> : t \in {"eTag", "odata", "no"},
        f \in {"Title" :> Text("b"),
               ("Due" :> [type |-> "number", text |-> "7"]) @@ (EtagField :> Text("v9")),
               ("id" :> Text("x")) @@ ("eTag" :> Text("v1")) @@ ("Due" :> [type |-> "null", text |-> ""])}}
    \cup {<<>>, <<[Plain EXCEPT !.fields = None]>>, <<[Plain EXCEPT !.id = None]>>}
ListTarget == [site |-> "s", list |-> "l"]

\* Responses to readings.
Time(form, minutes, zone) == [form |-> form, minutes |-> minutes, zone |-> zone]
Times == {Time("offset", 600, None), Time("local", 700, "UTC"), Time("local", 600, None),
          Time("local", 800, "Pacific Standard Time"), Time("bad", 0, "UTC"), None}
Person(address, name) == [address |-> address, name |-> name]
Event(id, start, end) ==
    [id |-> id, subject |-> " ", start |-> start, end |-> end,
     attendees |-> <<Person("a@b", None), Person(" ", None), Person(None, "Ann")>>]
Message(id, received, attachments) ==
    [id |-> id, subject |-> "plan", from |-> IF id = " " THEN None ELSE Person(None, "Ann"),
     received |-> received, preview |-> None, attachments |-> attachments]
Attachment(id) == [id |-> id, etag |-> " ", change |-> "v2", url |-> "u"]
Values(seq) == Response(200, [value |-> seq])
Reading(kind, target, response) == [kind |-> kind, target |-> target, response |-> response]
Diary == [user |-> "ann", narrowed |-> "team"]
Drive == [site |-> "s", drive |-> "d", item |-> None]
Child(id, etag) == [id |-> id, etag |-> None, odata |-> etag, url |-> "u"]
Readings ==
    {Reading("calendar-event", Diary, Values(<<Event(id, s, e), Event("e2", e, s)>>)) :
        id \in {"e1", " ", None}, s \in Times, e \in Times}
    \cup {Reading("mail", target, Values(<<Message(id, t, a)>>)) :
             target \in {Me, Diary}, id \in {"m1", " ", None}, t \in Times,
             a \in {None, <<Attachment("a1"), Attachment("a2")>>, <<Attachment(None)>>}}
    \cup {Reading("drive", [Drive EXCEPT !.item = i], Values(<<Child("c1", "v1"), Child(id, etag)>>)) :
             i \in {None, "folder"}, id \in {"c2", None}, etag \in {"v2", None}}
    \cup {Reading("mail", Me, r) : r \in {Response(200, [value |-> None]), Response(404, None),
                                          Response(200, None), None}}
ReadCassette ==
    InsertGet(InsertGet(NoCassette, MessagesPath(Me), Values(<<Message("m1", None, None)>>)),
              EventsPath(Diary), Response(404, None))

Nothing == [capabilities |-> {NetConnect, Credentials}, sites |-> {}, requests |-> {}, modes |-> {},
            drafts |-> {}, configs |-> {}, commands |-> {}, outputs |-> {}, lists |-> {<<>>},
            listTargets |-> {}, edits |-> {}, carriers |-> {}, urls |-> {}, value |-> Text("c"),
            maxBatches |-> 0, maxCalls |-> 0, readings |-> {}]
MCScenario ==
    [sites |-> [Nothing EXCEPT !.capabilities = DeniedByProfile,
                   !.sites = {MsgraphSite(TRUE), MsgraphSite(FALSE), SharepointSite(FALSE),
                              LibreofficeSite(FALSE)},
                   !.requests = {[op |-> o, path |-> p, body |-> "text"] :
                                    o \in {"read", "preview-write", "delete", None},
                                    p \in {"/me", None}}],
     drafts |-> [Nothing EXCEPT !.drafts = Drafts, !.maxCalls = 3,
                    !.modes = {LiveMode, Live(" ", "token"), Live("https", None), DraftCassette}],
     helper |-> [Nothing EXCEPT !.capabilities = {ProcessSpawn}, !.configs = Configs, !.maxCalls = 2,
                    !.commands = {OpenCommand(HelperPath("input", "plan")),
                                  OpenCommand(HelperPath("output", "plan"))},
                    !.outputs = {HelperPath("output", "pdf"), HelperPath("input", "pdf")}],
     lists |-> [Nothing EXCEPT !.lists = Lists, !.listTargets = {ListTarget},
                   !.modes = {LiveMode, InsertGet(NoCassette, ItemsPath(ListTarget),
                                                  Values(<<ItemJson(Plain)>>))},
                   !.edits = {Text("d"), Text("")}],
     batches |-> [Nothing EXCEPT !.lists = {<<Plain>>},
                     !.listTargets = {ListTarget}, !.modes = {LiveMode},
                     !.edits = {Text("d")}, !.carriers = {"host"}, !.urls = {Url(TRUE, FALSE)},
                     !.maxBatches = 2],
     carriers |-> [Nothing EXCEPT !.lists = {<<Plain>>},
                      !.listTargets = {ListTarget}, !.modes = {LiveMode},
                      !.edits = {Text("d")}, !.carriers = {"host", "live", "modeled"},
                      !.urls = {Url(TRUE, FALSE), Url(TRUE, TRUE), Url(FALSE, FALSE)},
                      !.maxBatches = 1],
     readings |-> [Nothing EXCEPT !.modes = {LiveMode, ReadCassette}, !.readings = Readings]]

\* One exchange with a helper over IPC, and drafts made live.
MCHelperAlone ==
    [helper |-> [MCScenario["helper"] EXCEPT !.configs = {GoodConfig("ipc")}, !.maxCalls = 1]]
MCDraftsAlone ==
    [drafts |-> [MCScenario["drafts"] EXCEPT !.modes = {LiveMode}, !.drafts = {GoodDraft}]]
===============================================================================
