--------------------------- MODULE OfficeSitesProofs ----------------------------
(***************************************************************************)
(* What the host is told of a call is so outside, no batch overwrites what *)
(* was not shown, and a reading holds its response or is refused, for any  *)
(* lists, responses, drafts, commands, configurations and bounds.          *)
(***************************************************************************)
EXTENDS OfficeSites, WellFoundedInduction, TLAPS

(***************************************************************************)
(* What each action leaves alone                                           *)
(***************************************************************************)
LEMMA ScenarioKept == [Next]_vars => scenario' = scenario
<1>. SUFFICES ASSUME [Next]_vars PROVE scenario' = scenario
  OBVIOUS
<1>1. \A c : Grant(c) => scenario' = scenario
  BY DEF Grant
<1>2. NewContext => scenario' = scenario
  BY DEF NewContext
<1>3. \A site : Register(site) => scenario' = scenario
  BY DEF Register
<1>4. \A id, request : Realize(id, request) => scenario' = scenario
  BY DEF Realize
<1>5. \A mode, draft, fate : SendDraft(mode, draft, fate) => scenario' = scenario
  BY DEF SendDraft
<1>6. \A n : Arrive(n) => scenario' = scenario
  BY DEF Arrive
<1>7. \A config, command, attempt, aftermath :
         RunHelper(config, command, attempt, aftermath) => scenario' = scenario
  BY DEF RunHelper
<1>8. \A mode, target, response : ReadList(mode, target, response) => scenario' = scenario
  BY DEF ReadList
<1>9. \A i, value : EditItem(i, value) => scenario' = scenario
  BY DEF EditItem
<1>10. \A carrier, url, ops, fate : SendBatch(carrier, url, ops, fate) => scenario' = scenario
  BY DEF SendBatch
<1>11. \A body : Deliver(body) => scenario' = scenario
  BY DEF Deliver
<1>12. \A kind, mode, target, response : Read(kind, mode, target, response) => scenario' = scenario
  BY DEF Read
<1>13. Keep => scenario' = scenario
  BY DEF Keep
<1> QED
  BY <1>1, <1>2, <1>3, <1>4, <1>5, <1>6, <1>7, <1>8, <1>9, <1>10, <1>11, <1>12, <1>13 DEF Next, vars

\* Only drafts, their arrival and helpers touch the calls of the host.
LEMMA ExchangeKept ==
    /\ \A c : Grant(c) => UNCHANGED <<scenario, exchange>>
    /\ NewContext => UNCHANGED <<scenario, exchange>>
    /\ \A site : Register(site) => UNCHANGED <<scenario, exchange>>
    /\ \A id, request : Realize(id, request) => UNCHANGED <<scenario, exchange>>
    /\ \A mode, target, response :
          ReadList(mode, target, response) => UNCHANGED <<scenario, exchange>>
    /\ \A i, value : EditItem(i, value) => UNCHANGED <<scenario, exchange>>
    /\ \A carrier, url, ops, fate :
          SendBatch(carrier, url, ops, fate) => UNCHANGED <<scenario, exchange>>
    /\ \A body : Deliver(body) => UNCHANGED <<scenario, exchange>>
    /\ \A kind, mode, target, response :
          Read(kind, mode, target, response) => UNCHANGED <<scenario, exchange>>
    /\ Keep => UNCHANGED <<scenario, exchange>>
<1>1. \A c : Grant(c) => UNCHANGED <<scenario, exchange>>
  BY DEF Grant
<1>2. NewContext => UNCHANGED <<scenario, exchange>>
  BY DEF NewContext
<1>3. \A site : Register(site) => UNCHANGED <<scenario, exchange>>
  BY DEF Register
<1>4. \A id, request : Realize(id, request) => UNCHANGED <<scenario, exchange>>
  BY DEF Realize
<1>5. \A mode, target, response : ReadList(mode, target, response) => UNCHANGED <<scenario, exchange>>
  BY DEF ReadList
<1>6. \A i, value : EditItem(i, value) => UNCHANGED <<scenario, exchange>>
  BY DEF EditItem
<1>7. \A carrier, url, ops, fate :
         SendBatch(carrier, url, ops, fate) => UNCHANGED <<scenario, exchange>>
  BY DEF SendBatch
<1>8. \A body : Deliver(body) => UNCHANGED <<scenario, exchange>>
  BY DEF Deliver
<1>9. \A kind, mode, target, response :
         Read(kind, mode, target, response) => UNCHANGED <<scenario, exchange>>
  BY DEF Read
<1>10. Keep => UNCHANGED <<scenario, exchange>>
  BY DEF Keep
<1> QED
  BY <1>1, <1>2, <1>3, <1>4, <1>5, <1>6, <1>7, <1>8, <1>9, <1>10

\* Only a list read, an edit and a batch touch the lists.
LEMMA ListsAlone ==
    /\ \A c : Grant(c) => UNCHANGED <<service, lists>>
    /\ NewContext => UNCHANGED <<service, lists>>
    /\ \A site : Register(site) => UNCHANGED <<service, lists>>
    /\ \A id, request : Realize(id, request) => UNCHANGED <<service, lists>>
    /\ \A mode, draft, fate : SendDraft(mode, draft, fate) => UNCHANGED <<service, lists>>
    /\ \A n : Arrive(n) => UNCHANGED <<service, lists>>
    /\ \A config, command, attempt, aftermath :
          RunHelper(config, command, attempt, aftermath) => UNCHANGED <<service, lists>>
    /\ \A kind, mode, target, response :
          Read(kind, mode, target, response) => UNCHANGED <<service, lists>>
    /\ Keep => UNCHANGED <<service, lists>>
<1>1. \A c : Grant(c) => UNCHANGED <<service, lists>>
  BY DEF Grant
<1>2. NewContext => UNCHANGED <<service, lists>>
  BY DEF NewContext
<1>3. \A site : Register(site) => UNCHANGED <<service, lists>>
  BY DEF Register
<1>4. \A id, request : Realize(id, request) => UNCHANGED <<service, lists>>
  BY DEF Realize
<1>5. \A mode, draft, fate : SendDraft(mode, draft, fate) => UNCHANGED <<service, lists>>
  BY DEF SendDraft
<1>6. \A n : Arrive(n) => UNCHANGED <<service, lists>>
  BY DEF Arrive
<1>7. \A config, command, attempt, aftermath :
         RunHelper(config, command, attempt, aftermath) => UNCHANGED <<service, lists>>
  BY DEF RunHelper
<1>8. \A kind, mode, target, response :
         Read(kind, mode, target, response) => UNCHANGED <<service, lists>>
  BY DEF Read
<1>9. Keep => UNCHANGED <<service, lists>>
  BY DEF Keep
<1> QED
  BY <1>1, <1>2, <1>3, <1>4, <1>5, <1>6, <1>7, <1>8, <1>9

\* Only a reading and its keeping touch the records.
LEMMA RecordsKept ==
    /\ \A c : Grant(c) => UNCHANGED records
    /\ NewContext => UNCHANGED records
    /\ \A site : Register(site) => UNCHANGED records
    /\ \A id, request : Realize(id, request) => UNCHANGED records
    /\ \A mode, draft, fate : SendDraft(mode, draft, fate) => UNCHANGED records
    /\ \A n : Arrive(n) => UNCHANGED records
    /\ \A config, command, attempt, aftermath :
          RunHelper(config, command, attempt, aftermath) => UNCHANGED records
    /\ \A mode, target, response : ReadList(mode, target, response) => UNCHANGED records
    /\ \A i, value : EditItem(i, value) => UNCHANGED records
    /\ \A carrier, url, ops, fate : SendBatch(carrier, url, ops, fate) => UNCHANGED records
    /\ \A body : Deliver(body) => UNCHANGED records
<1>1. \A c : Grant(c) => UNCHANGED records
  BY DEF Grant
<1>2. NewContext => UNCHANGED records
  BY DEF NewContext
<1>3. \A site : Register(site) => UNCHANGED records
  BY DEF Register
<1>4. \A id, request : Realize(id, request) => UNCHANGED records
  BY DEF Realize
<1>5. \A mode, draft, fate : SendDraft(mode, draft, fate) => UNCHANGED records
  BY DEF SendDraft
<1>6. \A n : Arrive(n) => UNCHANGED records
  BY DEF Arrive
<1>7. \A config, command, attempt, aftermath :
         RunHelper(config, command, attempt, aftermath) => UNCHANGED records
  BY DEF RunHelper
<1>8. \A mode, target, response : ReadList(mode, target, response) => UNCHANGED records
  BY DEF ReadList
<1>9. \A i, value : EditItem(i, value) => UNCHANGED records
  BY DEF EditItem
<1>10. \A carrier, url, ops, fate : SendBatch(carrier, url, ops, fate) => UNCHANGED records
  BY DEF SendBatch
<1>11. \A body : Deliver(body) => UNCHANGED records
  BY DEF Deliver
<1> QED
  BY <1>1, <1>2, <1>3, <1>4, <1>5, <1>6, <1>7, <1>8, <1>9, <1>10, <1>11

(***************************************************************************)
(* What the host is told of a draft                                        *)
(***************************************************************************)
DraftSends(mode, draft) ==
    ~DraftRefused(draft) /\ Sends(mode, granted, DraftsPath(draft.target))

\* What each fate of a request leaves of the response.
LEMMA DraftResponses ==
    ASSUME NEW n, NEW fate \in DraftFates
    PROVE  /\ fate = "made" =>
                 /\ DraftResponse(fate, n).status = 201
                 /\ DraftResponse(fate, n).body.id = RemoteId[n]
           /\ fate = "made_without_id" => DraftResponse(fate, n).body.id = None
           /\ fate = "made_garbled" => DraftResponse(fate, n).body = None
           /\ fate \in {"made_failed", "failed"} => DraftResponse(fate, n).status = 503
           /\ fate \in {"made_unheard", "late", "unreached"} => DraftResponse(fate, n) = None
<1>1. CASE fate = "made"
  <2>1. DraftResponse(fate, n) =
          Response(201, [id |-> RemoteId[n], etag |-> None, change |-> RemoteId[n], url |-> None])
    BY <1>1, Zenon DEF DraftResponse
  <2> QED
    BY <1>1, <2>1 DEF Response
<1>2. CASE fate = "made_without_id"
  <2>1. DraftResponse(fate, n) =
          Response(201, [id |-> None, etag |-> None, change |-> RemoteId[n], url |-> None])
    BY <1>2, Zenon DEF DraftResponse
  <2> QED
    BY <1>2, <2>1 DEF Response
<1>3. CASE fate = "made_garbled"
  <2>1. DraftResponse(fate, n) = Response(200, None)
    BY <1>3, Zenon DEF DraftResponse
  <2> QED
    BY <1>3, <2>1 DEF Response
<1>4. CASE fate \in {"made_failed", "failed"}
  <2>1. DraftResponse(fate, n) =
          Response(503, [id |-> RemoteId[n], etag |-> None, change |-> RemoteId[n], url |-> None])
    BY <1>4, ZenonT(60) DEF DraftResponse
  <2> QED
    BY <1>4, <2>1 DEF Response
<1>5. CASE fate \in {"made_unheard", "late", "unreached"}
  <2>1. DraftResponse(fate, n) = None
    BY <1>5, ZenonT(60) DEF DraftResponse
  <2> QED
    BY <1>5, <2>1
<1> QED
  BY <1>1, <1>2, <1>3, <1>4, <1>5 DEF DraftFates

\* The path of a draft that is not refused is local to the service.
LEMMA DraftsPathLocal ==
    ASSUME NEW draft, ~DraftRefused(draft) PROVE DraftsPath(draft.target).local
<1>1. DraftsPath(draft.target) # None
  BY DEF DraftRefused
<1> QED
  BY <1>1 DEF DraftsPath, TargetPath, Path

\* A draft that is sent is answered by the transport alone.
LEMMA SentAnswer ==
    ASSUME NEW mode, NEW draft, NEW response, DraftSends(mode, draft)
    PROVE  GraphPost(mode, granted, DraftsPath(draft.target), DraftToJson(draft), response)
             = IF response = None THEN GraphError("transport") ELSE DecodeResponse(response)
  BY DraftsPathLocal DEF DraftSends, Sends, GraphPost, LiveAnswer

\* A live draft that is not sent fails.
LEMMA UnsentAnswer ==
    ASSUME NEW mode, NEW draft, NEW response, ~DraftSends(mode, draft), ~mode.modeled,
           ~DraftRefused(draft)
    PROVE  ~GraphPost(mode, granted, DraftsPath(draft.target), DraftToJson(draft), response).ok
<1>1. LiveRefusal(mode, granted) # "none"
  BY DraftsPathLocal DEF DraftSends, Sends
<1> QED
  BY <1>1, DraftsPathLocal DEF GraphPost, LiveAnswer, GraphError

LEMMA DraftTold ==
    ASSUME NEW mode, NEW draft, NEW fate \in DraftFates, NEW n,
           DraftSends(mode, draft) \/ fate = "unreached",
           NEW result, result = CreateDraft(mode, granted, draft, DraftResponse(fate, n))
    PROVE  /\ ~mode.modeled /\ result.error = "none" =>
                 DraftMade(fate) /\ result.ref.external_id = RemoteId[n]
           /\ mode.modeled \/ ToldUnsent(result) => fate = "unreached"
<1> DEFINE response == DraftResponse(fate, n)
           answer == GraphPost(mode, granted, DraftsPath(draft.target), DraftToJson(draft), response)
<1>1. CASE ~DraftSends(mode, draft)
  <2>1. ~mode.modeled => result.error # "none"
    <3>1. CASE DraftRefused(draft)
      BY <3>1 DEF CreateDraft, DraftError
    <3>2. CASE ~DraftRefused(draft)
      BY <1>1, <3>2, UnsentAnswer DEF CreateDraft, DraftError
    <3> QED
      BY <3>1, <3>2
  <2> QED
    BY <1>1, <2>1
<1>2. CASE DraftSends(mode, draft)
  <2>1. ~mode.modeled /\ ~DraftRefused(draft)
    BY <1>2 DEF DraftSends, Sends
  <2>2. answer = IF response = None THEN GraphError("transport") ELSE DecodeResponse(response)
    BY <1>2, SentAnswer
  <2> HIDE DEF answer, response
  <2>3. result = IF ~answer.ok THEN DraftError("InvalidMail", "call")
                 ELSE IF ExternalRefFromResponse(answer.body) = None
                 THEN DraftError("WrongDocBody", "response")
                 ELSE [error |-> "none", about |-> "none",
                       ref |-> ExternalRefFromResponse(answer.body)]
    BY <2>1 DEF CreateDraft, answer, response
  <2>4. ~ToldUnsent(result)
    BY <2>3 DEF ToldUnsent, DraftError
  <2>5. ASSUME result.error = "none"
        PROVE  DraftMade(fate) /\ result.ref.external_id = RemoteId[n]
    <3>1. /\ answer.ok /\ result.ref = ExternalRefFromResponse(answer.body)
          /\ ExternalRefFromResponse(answer.body) # None
      BY <2>3, <2>5 DEF DraftError
    <3>2. answer.body.id # None /\ result.ref.external_id = answer.body.id
      BY <3>1 DEF ExternalRefFromResponse, ExternalRef
    <3>3. /\ response # None /\ response.status \in 200..299
          /\ response.body # None /\ answer.body = response.body
      BY <2>2, <3>1 DEF DecodeResponse, GraphError, GraphOk, Success
    <3>4. fate = "made" /\ response.body.id = RemoteId[n]
      BY <3>2, <3>3, DraftResponses DEF response, DraftFates
    <3> QED
      BY <3>2, <3>3, <3>4 DEF DraftMade
  <2> QED
    BY <2>1, <2>4, <2>5
<1> QED
  BY <1>1, <1>2

(***************************************************************************)
(* What the host is told of an exchange with the helper                    *)
(***************************************************************************)
\* The receipts of a process, by what the port reports.
LEMMA ProcessReceipts ==
    ASSUME NEW attempt
    PROVE  /\ ProcessReceipt(attempt) \in {"none", "missing", "timeout", "refused"}
           /\ ProcessReceipt(attempt) = "none" => attempt.kind = "completed"
           /\ ProcessReceipt(attempt) = "missing" => attempt.kind = "spawn_failed"
           /\ ProcessReceipt(attempt) = "timeout" => attempt.kind = "stopped_after_timeout"
<1>1. CASE attempt.kind = "completed"
  BY <1>1, Zenon DEF ProcessReceipt
<1>2. CASE attempt.kind = "spawn_failed"
  BY <1>2, Zenon DEF ProcessReceipt
<1>3. CASE attempt.kind = "stopped_after_timeout"
  BY <1>3, Zenon DEF ProcessReceipt
<1>4. CASE attempt.kind \notin {"completed", "spawn_failed", "stopped_after_timeout"}
  <2>1. ProcessReceipt(attempt) = "refused"
    BY <1>4, Zenon DEF ProcessReceipt
  <2> QED
    BY <2>1
<1> QED
  BY <1>1, <1>2, <1>3, <1>4

\* The receipts of an exchange over IPC.
LEMMA IpcReceipts ==
    ASSUME NEW n, NEW attempt \in Attempts("ipc", n)
    PROVE  /\ IpcReceipt(attempt) \in {"none", "unavailable", "timeout", "refused"}
           /\ IpcReceipt(attempt) = "none" => attempt.kind = "completed"
<1> DEFINE Broken == {"not_found", "connection_refused", "unsupported", "connect_timed_out",
                      "connect_failed", "timeout_unset", "write_failed", "flush_failed",
                      "read_timed_out", "read_failed"}
<1>1. attempt.kind \in {"completed"} \cup Broken
  <2>1. \/ \E reply : attempt = Attempt("completed", 0, reply)
        \/ \E kind \in Broken : attempt = Attempt(kind, 0, None)
    BY "ipc" # "process" DEF Attempts
  <2> QED
    BY <2>1 DEF Attempt
<1>2. CASE attempt.kind = "completed"
  BY <1>2, Zenon DEF IpcReceipt
<1>3. CASE attempt.kind \in {"not_found", "connection_refused", "unsupported"}
  <2>1. IpcReceipt(attempt) = "unavailable"
    BY <1>3, Zenon DEF IpcReceipt
  <2> QED
    BY <2>1
<1>4. CASE attempt.kind \in {"connect_timed_out", "read_timed_out"}
  <2>1. IpcReceipt(attempt) = "timeout"
    BY <1>4, Zenon DEF IpcReceipt
  <2> QED
    BY <2>1
<1>5. CASE attempt.kind = "connect_failed"
  <2>1. IpcReceipt(attempt) = "refused"
    BY <1>5, Zenon DEF IpcReceipt
  <2> QED
    BY <2>1
<1>6. CASE attempt.kind \in {"timeout_unset", "write_failed", "flush_failed", "read_failed"}
  <2>1. IpcReceipt(attempt) = "unavailable"
    BY <1>6, Zenon DEF IpcReceipt
  <2> QED
    BY <2>1
<1> QED
  BY <1>1, <1>2, <1>3, <1>4, <1>5, <1>6

\* What can follow an attempt.
LEMMA Aftermaths ==
    ASSUME NEW attempt
    PROVE  /\ attempt.kind = "spawn_failed" => Aftermath(attempt) = {"not_done"}
           /\ attempt.kind = "stopped_after_timeout" => Aftermath(attempt) = {"done", "not_done"}
           /\ attempt.kind = "completed" /\ attempt.reply # None /\ attempt.reply.id # None =>
                 Aftermath(attempt) = {"done"}
<1>1. CASE attempt.kind = "spawn_failed"
  BY <1>1, Zenon DEF Aftermath
<1>2. CASE attempt.kind = "stopped_after_timeout"
  BY <1>2, Zenon DEF Aftermath
<1>3. CASE attempt.kind = "completed" /\ attempt.reply # None /\ attempt.reply.id # None
  BY <1>3, Zenon DEF Aftermath
<1> QED
  BY <1>1, <1>2, <1>3

\* What the result of an exchange says of what followed it.
HelperTrue(config, result, aftermath, n) ==
    /\ result.error = "none" =>
          aftermath = "done" /\ result.external.external_id = RemoteId[n]
    /\ result.error \in {"denied", "missing"} => aftermath = "not_done"
    /\ result.error # "InvalidMail"
    /\ config.transport = "process" /\ result.error = "timeout" => aftermath # "late"

LEMMA HelperTold ==
    ASSUME NEW config, config.transport \in {"process", "ipc"}, NEW command, NEW n,
           NEW attempt \in Attempts(config.transport, n), NEW aftermath \in Aftermath(attempt),
           HelperRefusal(config, command, granted) = "none"
    PROVE  HelperTrue(config, RunUno(config, command, granted, attempt), aftermath, n)
<1> DEFINE result == RunUno(config, command, granted, attempt)
           received == IF config.transport = "process" THEN ProcessReceipt(attempt)
                                                       ELSE IpcReceipt(attempt)
<1>1. result = IF received # "none" THEN Failed(received)
               ELSE IF config.transport = "process" /\ attempt.exit # 0 THEN Failed("refused")
               ELSE IntoResult(attempt.reply)
  BY DEF RunUno
<1>2. /\ received \in {"none", "missing", "timeout", "refused", "unavailable"}
      /\ received = "none" => attempt.kind = "completed"
      /\ received = "missing" => attempt.kind = "spawn_failed"
      /\ config.transport = "process" /\ received = "timeout" =>
            attempt.kind = "stopped_after_timeout"
  BY ProcessReceipts, IpcReceipts
<1> HIDE DEF received, result
<1>3. CASE received # "none"
  <2>1. result.error = received /\ result.external = None
    BY <1>1, <1>3 DEF Failed
  <2>2. received \in {"denied", "missing"} => attempt.kind = "spawn_failed"
    BY <1>2
  <2> QED
    BY <1>2, <1>3, <2>1, <2>2, Aftermaths DEF HelperTrue, result
<1>4. CASE received = "none"
  <2>1. result = Failed("refused") \/ result = IntoResult(attempt.reply)
    BY <1>1, <1>4
  <2>2. result.error \in {"none", "refused"}
    BY <2>1 DEF Failed, IntoResult
  <2>3. ASSUME result.error = "none"
        PROVE  aftermath = "done" /\ result.external.external_id = RemoteId[n]
    <3>1. /\ result = IntoResult(attempt.reply) /\ attempt.reply # None
          /\ attempt.reply.id # None /\ result.external.external_id = attempt.reply.id
      BY <2>1, <2>3 DEF Failed, IntoResult
    <3>2. attempt.reply.id = RemoteId[n]
      BY <1>2, <1>4, <3>1 DEF Attempts, Attempt, Reply
    <3> QED
      BY <1>2, <1>4, <3>1, <3>2, Aftermaths
  <2> QED
    BY <2>2, <2>3 DEF HelperTrue, result
<1> QED
  BY <1>3, <1>4

(***************************************************************************)
(* Outcomes.  What is told of a call is settled when it is made; later a   *)
(* request can only arrive or not, so what has been carried out or may     *)
(* still be grows with the calls alone.                                    *)
(***************************************************************************)
\* The effects that are or may come about are those of calls that were made.
EffectsCalled == performed \cup pending \subseteq DOMAIN calls
\* The calls are a sequence.
CallsListed == \E Made : calls \in Seq(Made)

\* What one call was told is so.
OutcomeTrue(n) ==
    /\ calls[n].error = "none" /\ calls[n].via # "modeled" =>
         n \in performed /\ calls[n].ref.external_id = RemoteId[n]
    /\ ToldUnsent(calls[n]) \/ calls[n].via = "modeled" => n \notin performed \cup pending
    /\ calls[n].via = "process" /\ calls[n].error = "timeout" => n \notin pending

\* A behaviour keeps to its scenario.
ScenarioChosen == scenario \in DOMAIN Scenario

CallsInv == CallsListed /\ EffectsCalled /\ (\A n \in DOMAIN calls : OutcomeTrue(n))

LEMMA OutcomesTold == CallsInv => OutcomesTrue
  BY DEF CallsInv, OutcomeTrue, OutcomesTrue

LEMMA InitCalls == Init => CallsInv
<1> SUFFICES ASSUME Init PROVE CallsInv
  OBVIOUS
<1>1. calls \in Seq({}) /\ performed = {} /\ pending = {} /\ DOMAIN calls = {}
  BY DEF Init
<1> QED
  BY <1>1 DEF CallsInv, CallsListed, EffectsCalled

\* A call that is told the truth is added to the others.
LEMMA CallMade ==
    ASSUME CallsInv, NEW call, calls' = Append(calls, call),
           performed' \in {performed, performed \cup {Len(calls) + 1}},
           pending' \in {pending, pending \cup {Len(calls) + 1}},
           call.error = "none" /\ call.via # "modeled" =>
              /\ performed' = performed \cup {Len(calls) + 1}
              /\ call.ref.external_id = RemoteId[Len(calls) + 1],
           ToldUnsent(call) \/ call.via = "modeled" =>
              performed' = performed /\ pending' = pending,
           call.via = "process" /\ call.error = "timeout" => pending' = pending
    PROVE  CallsInv'
<1>1. PICK Made : calls \in Seq(Made)
  BY DEF CallsInv, CallsListed
<1>2. calls \in Seq(Made \cup {call})
  BY <1>1
<1>3. /\ calls' \in Seq(Made \cup {call})
      /\ DOMAIN calls = 1..Len(calls) /\ Len(calls) \in Nat
      /\ DOMAIN calls' = 1..(Len(calls) + 1)
      /\ \A n \in DOMAIN calls : calls'[n] = calls[n]
      /\ calls'[Len(calls) + 1] = call
  BY <1>2
<1>4. CallsListed'
  BY <1>3 DEF CallsListed
<1>5. EffectsCalled'
  BY <1>3 DEF CallsInv, EffectsCalled
<1>6. ASSUME NEW n \in DOMAIN calls' PROVE OutcomeTrue(n)'
  <2>1. CASE n \in DOMAIN calls
    <3>1. OutcomeTrue(n) /\ calls'[n] = calls[n] /\ n # Len(calls) + 1
      BY <1>3, <2>1 DEF CallsInv
    <3>2. (n \in performed' <=> n \in performed) /\ (n \in pending' <=> n \in pending)
      BY <3>1
    <3> QED
      BY <3>1, <3>2 DEF OutcomeTrue
  <2>2. CASE n = Len(calls) + 1
    <3>1. n \notin performed \cup pending /\ calls'[n] = call
      BY <1>3, <2>2 DEF CallsInv, EffectsCalled
    <3> QED
      BY <2>2, <3>1 DEF OutcomeTrue
  <2> QED
    BY <1>3, <2>1, <2>2
<1> QED
  BY <1>4, <1>5, <1>6 DEF CallsInv

LEMMA SendDraftCalls ==
    ASSUME CallsInv, NEW mode, NEW draft, NEW fate \in DraftFates, SendDraft(mode, draft, fate)
    PROVE  CallsInv'
<1> DEFINE n == Len(calls) + 1
           result == CreateDraft(mode, granted, draft, DraftResponse(fate, n))
           call == [via |-> IF mode.modeled THEN "modeled" ELSE "live",
                    error |-> result.error, about |-> result.about, ref |-> result.ref]
<1>1. /\ DraftSends(mode, draft) \/ fate = "unreached"
      /\ calls' = Append(calls, call)
      /\ performed' = IF DraftMade(fate) THEN performed \cup {n} ELSE performed
      /\ pending' = IF fate = "late" THEN pending \cup {n} ELSE pending
  BY DEF SendDraft, DraftSends
<1>2. /\ ~mode.modeled /\ result.error = "none" =>
            DraftMade(fate) /\ result.ref.external_id = RemoteId[n]
      /\ mode.modeled \/ ToldUnsent(result) => fate = "unreached"
  <2>1. result = CreateDraft(mode, granted, draft, DraftResponse(fate, n))
    OBVIOUS
  <2> HIDE DEF result, n
  <2> QED
    BY <1>1, <2>1, DraftTold
<1>3. ~DraftMade("unreached")
  BY DEF DraftMade
<1> HIDE DEF result
<1>4. /\ call.ref = result.ref /\ call.error = result.error
      /\ ToldUnsent(call) <=> ToldUnsent(result)
      /\ call.via = "modeled" <=> mode.modeled
      /\ call.via # "process"
  BY DEF ToldUnsent
<1> HIDE DEF call
<1> QED
  BY <1>1, <1>2, <1>3, <1>4, CallMade

LEMMA RunHelperCalls ==
    ASSUME CallsInv, NEW config, config.transport \in {"process", "ipc"}, NEW command,
           NEW attempt \in Attempts(config.transport, Len(calls) + 1),
           NEW aftermath \in Aftermath(attempt), RunHelper(config, command, attempt, aftermath)
    PROVE  CallsInv'
<1> DEFINE n == Len(calls) + 1
           asked == HelperRefusal(config, command, granted) = "none"
           result == RunUno(config, command, granted, attempt)
           call == [via |-> config.transport, error |-> result.error,
                    about |-> "exchange", ref |-> result.external]
<1>1. /\ calls' = Append(calls, call)
      /\ performed' = IF asked /\ aftermath = "done" THEN performed \cup {n} ELSE performed
      /\ pending' = IF asked /\ aftermath = "late" THEN pending \cup {n} ELSE pending
  BY DEF RunHelper
<1>2. ~asked => result.error # "none"
  BY DEF RunUno, Failed
<1>3. result = RunUno(config, command, granted, attempt)
  OBVIOUS
<1>4. asked => HelperRefusal(config, command, granted) = "none"
  OBVIOUS
<1>n. attempt \in Attempts(config.transport, n)
  OBVIOUS
<1> HIDE DEF result, asked, n
<1>5. asked => HelperTrue(config, result, aftermath, n)
  BY <1>3, <1>4, <1>n, HelperTold
<1>6. /\ call.ref = result.external /\ call.error = result.error
      /\ ToldUnsent(call) => result.error \in {"denied", "missing"}
      /\ call.via = config.transport /\ call.via # "modeled"
  BY DEF ToldUnsent
<1> HIDE DEF call
<1> QED
  BY <1>1, <1>2, <1>5, <1>6, CallMade DEF n, HelperTrue

LEMMA CallsStep ==
    ASSUME ScenarioChosen, CallsInv, [Next]_vars
    PROVE  CallsInv' /\ ScenarioChosen'
<1>1. ASSUME NEW mode, NEW draft, NEW fate \in DraftFates, SendDraft(mode, draft, fate)
      PROVE  CallsInv' /\ ScenarioChosen'
  BY <1>1, SendDraftCalls DEF SendDraft, ScenarioChosen
<1>2. ASSUME NEW config \in Scenario[scenario].configs, NEW command,
             NEW attempt \in Attempts(config.transport, Len(calls) + 1),
             NEW aftermath \in Aftermath(attempt), RunHelper(config, command, attempt, aftermath)
      PROVE  CallsInv' /\ ScenarioChosen'
  <2>1. config.transport \in {"process", "ipc"}
    BY TransportAssumption DEF ScenarioChosen
  <2>2. scenario' = scenario
    BY <1>2 DEF RunHelper
  <2> QED
    BY <1>2, <2>1, <2>2, RunHelperCalls DEF ScenarioChosen
<1>3. ASSUME NEW n \in pending, Arrive(n) PROVE CallsInv' /\ ScenarioChosen'
  <2>1. /\ calls' = calls /\ scenario' = scenario /\ pending' = pending \ {n}
        /\ performed' \in {performed, performed \cup {n}}
    BY <1>3 DEF Arrive
  <2>2. performed \subseteq performed' /\ pending' \subseteq pending
        /\ performed' \cup pending' \subseteq performed \cup pending
    BY <2>1
  <2> QED
    BY <2>1, <2>2 DEF CallsInv, CallsListed, EffectsCalled, OutcomeTrue, ScenarioChosen
<1>4. CASE UNCHANGED <<scenario, exchange>>
  BY <1>4 DEF exchange, CallsInv, CallsListed, EffectsCalled, OutcomeTrue, ScenarioChosen
<1> QED
  BY <1>1, <1>2, <1>3, <1>4, ExchangeKept DEF Next, vars

\* What a host is told of its drafts and exchanges is so, at every moment after.
THEOREM SitesOutcomesTrue == Spec => []OutcomesTrue
<1>1. Init => CallsInv /\ ScenarioChosen
  BY InitCalls DEF Init, ScenarioChosen
<1>2. CallsInv /\ ScenarioChosen /\ [Next]_vars
        => CallsInv' /\ ScenarioChosen'
  BY CallsStep
<1> QED
  BY <1>1, <1>2, OutcomesTold, PTL DEF Spec

(***************************************************************************)
(* Sequences of elements kept.  What a recursive function is for every     *)
(* argument is shown by the least argument for which it would not be so.   *)
(***************************************************************************)
LEMMA LeastNatural ==
    ASSUME NEW S \in SUBSET Nat, S # {}
    PROVE  \E m \in S : \A y \in S : m <= y
<1>1. PICK m \in S : \A y \in S : ~(<<y, m>> \in OpToRel(<, Nat))
  BY NatLessThanWellFounded, WFMin
<1>2. \A y \in S : ~(y < m)
  BY <1>1 DEF OpToRel
<1> QED
  BY <1>2

\* One step of Kept: what is kept of the first n elements, by a function that
\* gives what is kept of fewer.
KeptBefore(seq, set, f, n) ==
    IF n = 0 THEN <<>>
    ELSE IF seq[n] \in set THEN Append(f[n - 1], seq[n]) ELSE f[n - 1]

LEMMA KeptSolved ==
    ASSUME NEW seq, NEW set, NEW N \in Nat
    PROVE  \E f : f = [n \in 0..N |-> KeptBefore(seq, set, f, n)]
<1>. DEFINE Solved(n) == \E f : f = [i \in 0..n |-> KeptBefore(seq, set, f, i)]
            unsolved == {n \in Nat : ~Solved(n)}
<1>1. SUFFICES ASSUME unsolved # {} PROVE FALSE
  OBVIOUS
<1>2. PICK n \in unsolved : \A k \in unsolved : n <= k
  BY <1>1, LeastNatural
<1>3. CASE n = 0
  <2>. DEFINE g == [i \in 0..0 |-> <<>>]
  <2>1. g = [i \in 0..0 |-> KeptBefore(seq, set, g, i)]
    BY DEF KeptBefore
  <2>. HIDE DEF g
  <2> QED
    BY <1>2, <1>3, <2>1
<1>4. CASE n # 0
  <2>1. n - 1 \in Nat /\ n - 1 \notin unsolved
    BY <1>2, <1>4
  <2>2. PICK f : f = [i \in 0..(n - 1) |-> KeptBefore(seq, set, f, i)]
    BY <2>1
  <2>. DEFINE g == [i \in 0..n |-> IF i = n THEN KeptBefore(seq, set, f, n) ELSE f[i]]
  <2>3. ASSUME NEW i \in 0..n PROVE g[i] = KeptBefore(seq, set, g, i)
    <3>1. i # 0 => i - 1 \in 0..(n - 1) /\ g[i - 1] = f[i - 1]
      BY <1>2
    <3>2. KeptBefore(seq, set, g, i) = KeptBefore(seq, set, f, i)
      BY <3>1 DEF KeptBefore
    <3>3. i # n => i \in 0..(n - 1) /\ f[i] = KeptBefore(seq, set, f, i)
      BY <1>2, <2>2
    <3> QED
      BY <3>2, <3>3
  <2>4. g = [i \in 0..n |-> KeptBefore(seq, set, g, i)]
    <3>1. g = [i \in 0..n |-> g[i]]
      OBVIOUS
    <3>. HIDE DEF g
    <3> QED
      BY <2>3, <3>1
  <2>. HIDE DEF g
  <2> QED
    BY <1>2, <2>4
<1> QED
  BY <1>3, <1>4

\* Kept is the last of the functions of what is kept of the first n elements.
LEMMA KeptSteps ==
    ASSUME NEW S, NEW seq \in Seq(S), NEW set
    PROVE  \E f : /\ Kept(seq, set) = f[Len(seq)]
                  /\ \A n \in 0..Len(seq) : f[n] = KeptBefore(seq, set, f, n)
<1>. DEFINE P(f) == f = [n \in 0..Len(seq) |->
                            IF n = 0 THEN <<>>
                            ELSE IF seq[n] \in set THEN Append(f[n - 1], seq[n]) ELSE f[n - 1]]
<1>1. \A f : P(f) <=> f = [n \in 0..Len(seq) |-> KeptBefore(seq, set, f, n)]
  BY Zenon DEF KeptBefore
<1>2. \E f : P(f)
  <2>1. Len(seq) \in Nat
    OBVIOUS
  <2>2. PICK f : f = [n \in 0..Len(seq) |-> KeptBefore(seq, set, f, n)]
    BY <2>1, KeptSolved
  <2>. HIDE DEF P
  <2> QED
    BY <1>1, <2>2
<1>3. PICK f : f = (CHOOSE g : P(g)) /\ P(f)
  <2>. HIDE DEF P
  <2> QED
    BY <1>2
<1>4. Kept(seq, set) = f[Len(seq)]
  BY <1>3, Zenon DEF Kept
<1>5. \A n \in 0..Len(seq) : f[n] = KeptBefore(seq, set, f, n)
  <2>1. f = [n \in 0..Len(seq) |-> KeptBefore(seq, set, f, n)]
    <3>. HIDE DEF P
    <3> QED
      BY <1>1, <1>3
  <2> QED
    BY <2>1, Zenon
<1>. HIDE DEF P
<1> QED
  BY <1>4, <1>5

\* What is kept of a sequence: a sequence of the members of the set that are in it.
LEMMA KeptIs ==
    ASSUME NEW S, NEW seq \in Seq(S), NEW set
    PROVE  Kept(seq, set) \in Seq(S) /\ ToSet(Kept(seq, set)) = ToSet(seq) \cap set
<1>1. PICK f : /\ Kept(seq, set) = f[Len(seq)]
               /\ \A n \in 0..Len(seq) : f[n] = KeptBefore(seq, set, f, n)
  BY KeptSteps
<1>4. Kept(seq, set) = f[Len(seq)]
  BY <1>1
<1>5. \A n \in 0..Len(seq) : f[n] = KeptBefore(seq, set, f, n)
  BY <1>1
<1>. DEFINE First(n) == {seq[i] : i \in 1..n} \cap set
            Good(n) == f[n] \in Seq(S) /\ ToSet(f[n]) = First(n)
            bad == {n \in 0..Len(seq) : ~Good(n)}
<1>6. bad = {}
  <2>1. SUFFICES ASSUME bad # {} PROVE FALSE
    OBVIOUS
  <2>2. PICK n \in bad : \A k \in bad : n <= k
    <3>1. bad \in SUBSET Nat
      OBVIOUS
    <3>. HIDE DEF bad
    <3> QED
      BY <2>1, <3>1, LeastNatural
  <2>3. CASE n = 0
    <3>1. f[n] = <<>>
      BY <1>5, <2>3 DEF KeptBefore
    <3>2. ToSet(<<>>) = {} /\ First(0) = {} /\ <<>> \in Seq(S)
      BY DEF ToSet
    <3> QED
      BY <2>2, <2>3, <3>1, <3>2
  <2>4. CASE n # 0
    <3>0. n \in 0..Len(seq) /\ Len(seq) \in Nat
      BY <2>2
    <3>1. n \in 1..Len(seq) /\ n - 1 \in 0..Len(seq) /\ n - 1 \notin bad /\ seq[n] \in S
      <4>1. n \in 1..Len(seq) /\ n - 1 \in 0..Len(seq) /\ ~(n <= n - 1)
        BY <2>4, <3>0
      <4>. HIDE DEF bad
      <4> QED
        BY <2>2, <4>1
    <3>2. f[n] = IF seq[n] \in set THEN Append(f[n - 1], seq[n]) ELSE f[n - 1]
      BY <1>5, <2>4, <3>1 DEF KeptBefore
    <3>3. f[n - 1] \in Seq(S) /\ ToSet(f[n - 1]) = First(n - 1)
      BY <3>1
    <3>4. \A i : i \in 1..n <=> i \in 1..(n - 1) \/ i = n
      BY <3>1
    <3>5. First(n) = First(n - 1) \cup ({seq[n]} \cap set)
      <4>1. {seq[i] : i \in 1..n} = {seq[i] : i \in 1..(n - 1)} \cup {seq[n]}
        BY <3>4
      <4> QED
        BY <4>1
    <3>6. ASSUME NEW t \in Seq(S), NEW e \in S
          PROVE  Append(t, e) \in Seq(S) /\ ToSet(Append(t, e)) = ToSet(t) \cup {e}
      <4>1. DOMAIN Append(t, e) = DOMAIN t \cup {Len(t) + 1}
        OBVIOUS
      <4>2. \A i \in DOMAIN t : Append(t, e)[i] = t[i]
        OBVIOUS
      <4>3. Append(t, e)[Len(t) + 1] = e
        OBVIOUS
      <4> QED
        BY <4>1, <4>2, <4>3 DEF ToSet
    <3>. HIDE DEF First
    <3>7. f[n] \in Seq(S) /\ ToSet(f[n]) = First(n)
      BY <3>1, <3>2, <3>3, <3>5, <3>6
    <3> QED
      BY <2>2, <3>7
  <2> QED
    BY <2>3, <2>4
<1>7. First(Len(seq)) = ToSet(seq) \cap set
  BY DEF ToSet
<1>8. Good(Len(seq))
  <2>1. Len(seq) \in 0..Len(seq)
    OBVIOUS
  <2> QED
    BY <1>6, <2>1
<1> QED
  BY <1>4, <1>7, <1>8

\* The places of what is kept of the first n elements: in order, each in the
\* set, and none of the set left out.
Placed(kept, seq, set, n, at) ==
    /\ at \in [1..Len(kept) -> 1..n]
    /\ \A j, k \in 1..Len(kept) : j < k => at[j] < at[k]
    /\ \A k \in 1..Len(kept) : kept[k] = seq[at[k]] /\ seq[at[k]] \in set
    /\ \A i \in 1..n : seq[i] \in set => \E k \in 1..Len(kept) : at[k] = i

LEMMA PlacedNone ==
    ASSUME NEW seq, NEW set
    PROVE  \E at : Placed(<<>>, seq, set, 0, at)
<1>. DEFINE at == [k \in 1..0 |-> k]
<1>1. 1..0 = {} /\ Len(<<>>) = 0
  OBVIOUS
<1>2. at \in [1..Len(<<>>) -> 1..0]
  BY <1>1
<1>. HIDE DEF at
<1>3. Placed(<<>>, seq, set, 0, at)
  BY <1>1, <1>2 DEF Placed
<1> QED
  BY <1>3

\* One element more, which is not kept.
LEMMA PlacedSkip ==
    ASSUME NEW S, NEW kept \in Seq(S), NEW seq, NEW set, NEW n \in Nat \ {0},
           seq[n] \notin set, NEW at, Placed(kept, seq, set, n - 1, at)
    PROVE  Placed(kept, seq, set, n, at)
<1>1. 1..(n - 1) \subseteq 1..n /\ \A i \in 1..n : i \in 1..(n - 1) \/ i = n
  OBVIOUS
<1>2. at \in [1..Len(kept) -> 1..n]
  BY <1>1 DEF Placed
<1> QED
  BY <1>1, <1>2 DEF Placed

\* One element more, which is kept.
LEMMA PlacedMore ==
    ASSUME NEW S, NEW kept \in Seq(S), NEW seq, NEW set, NEW n \in Nat \ {0},
           seq[n] \in set, seq[n] \in S, NEW before, Placed(kept, seq, set, n - 1, before)
    PROVE  \E at : Placed(Append(kept, seq[n]), seq, set, n, at)
<1>. DEFINE more == Append(kept, seq[n])
            at == [k \in 1..Len(more) |-> IF k = Len(more) THEN n ELSE before[k]]
<1>1. /\ Len(kept) \in Nat /\ Len(more) = Len(kept) + 1 /\ more[Len(more)] = seq[n]
      /\ \A k \in 1..Len(kept) : more[k] = kept[k]
      /\ \A k \in 1..Len(more) : k \in 1..Len(kept) \/ k = Len(more)
  OBVIOUS
<1>2. /\ \A k \in 1..Len(kept) : before[k] \in 1..(n - 1)
      /\ \A j, k \in 1..Len(kept) : j < k => before[j] < before[k]
      /\ \A k \in 1..Len(kept) : kept[k] = seq[before[k]] /\ seq[before[k]] \in set
      /\ \A i \in 1..(n - 1) : seq[i] \in set => \E k \in 1..Len(kept) : before[k] = i
  BY DEF Placed
<1>. HIDE DEF more
<1>3. /\ at[Len(more)] = n
      /\ \A k \in 1..Len(kept) : k \in 1..Len(more) /\ at[k] = before[k]
  BY <1>1
<1>4. at \in [1..Len(more) -> 1..n]
  BY <1>1, <1>2
<1>. HIDE DEF at
<1>5. \A j, k \in 1..Len(more) : j < k => at[j] < at[k]
  <2>. SUFFICES ASSUME NEW j \in 1..Len(more), NEW k \in 1..Len(more), j < k PROVE at[j] < at[k]
    OBVIOUS
  <2>1. j \in 1..Len(kept) /\ at[j] \in 1..(n - 1)
    BY <1>1, <1>2, <1>3
  <2>2. CASE k = Len(more)
    BY <1>3, <2>1, <2>2
  <2>3. CASE k \in 1..Len(kept)
    BY <1>2, <1>3, <2>1, <2>3
  <2> QED
    BY <1>1, <2>2, <2>3
<1>6. \A k \in 1..Len(more) : more[k] = seq[at[k]] /\ seq[at[k]] \in set
  BY <1>1, <1>2, <1>3
<1>7. \A i \in 1..n : seq[i] \in set => \E k \in 1..Len(more) : at[k] = i
  <2>. SUFFICES ASSUME NEW i \in 1..n, seq[i] \in set PROVE \E k \in 1..Len(more) : at[k] = i
    OBVIOUS
  <2>1. CASE i = n
    BY <1>1, <1>3, <2>1
  <2>2. CASE i # n
    <3>1. i \in 1..(n - 1)
      BY <2>2
    <3>2. PICK k \in 1..Len(kept) : before[k] = i
      BY <1>2, <3>1
    <3> QED
      BY <1>3, <3>2
  <2> QED
    BY <2>1, <2>2
<1>8. Placed(more, seq, set, n, at)
  BY <1>4, <1>5, <1>6, <1>7 DEF Placed
<1> QED
  BY <1>8 DEF more

\* What is kept of a sequence keeps its order, and all of the set.
LEMMA KeptPlaces ==
    ASSUME NEW S, NEW seq \in Seq(S), NEW set
    PROVE  \E at : Placed(Kept(seq, set), seq, set, Len(seq), at)
<1>1. PICK f : /\ Kept(seq, set) = f[Len(seq)]
               /\ \A n \in 0..Len(seq) : f[n] = KeptBefore(seq, set, f, n)
  BY KeptSteps
<1>. DEFINE Good(n) == f[n] \in Seq(S) /\ \E at : Placed(f[n], seq, set, n, at)
            bad == {n \in 0..Len(seq) : ~Good(n)}
<1>2. bad = {}
  <2>1. SUFFICES ASSUME bad # {} PROVE FALSE
    OBVIOUS
  <2>2. PICK n \in bad : \A k \in bad : n <= k
    <3>1. bad \in SUBSET Nat
      OBVIOUS
    <3>. HIDE DEF bad
    <3> QED
      BY <2>1, <3>1, LeastNatural
  <2>3. n \in 0..Len(seq) /\ Len(seq) \in Nat /\ ~Good(n)
    BY <2>2
  <2>4. CASE n = 0
    <3>1. f[n] = <<>>
      BY <1>1, <2>4 DEF KeptBefore
    <3> QED
      <4>1. f[n] \in Seq(S)
        BY <3>1
      <4>2. \E at : Placed(f[n], seq, set, n, at)
        BY <2>4, <3>1, PlacedNone
      <4> QED
        BY <2>3, <4>1, <4>2
  <2>5. CASE n # 0
    <3>1. n \in Nat \ {0} /\ n \in 1..Len(seq) /\ n - 1 \in 0..Len(seq) /\ ~(n <= n - 1)
      BY <2>3, <2>5
    <3>2. seq[n] \in S
      BY <3>1
    <3>3. n - 1 \notin bad
      <4>. HIDE DEF bad
      <4> QED
        BY <2>2, <3>1
    <3>4. f[n - 1] \in Seq(S) /\ \E at : Placed(f[n - 1], seq, set, n - 1, at)
      BY <3>1, <3>3
    <3>5. PICK before : Placed(f[n - 1], seq, set, n - 1, before)
      BY <3>4
    <3>6. f[n] = IF seq[n] \in set THEN Append(f[n - 1], seq[n]) ELSE f[n - 1]
      BY <1>1, <2>5, <3>1 DEF KeptBefore
    <3>7. CASE seq[n] \in set
      <4>1. f[n] \in Seq(S)
        BY <3>2, <3>4, <3>6, <3>7
      <4>2. \E at : Placed(f[n], seq, set, n, at)
        BY <3>1, <3>2, <3>4, <3>5, <3>6, <3>7, PlacedMore
      <4> QED
        BY <2>3, <4>1, <4>2
    <3>8. CASE seq[n] \notin set
      <4>1. Placed(f[n], seq, set, n, before)
        BY <3>1, <3>4, <3>5, <3>6, <3>8, PlacedSkip
      <4> QED
        BY <2>3, <3>4, <3>6, <3>8, <4>1
    <3> QED
      BY <3>7, <3>8
  <2> QED
    BY <2>4, <2>5
<1>3. Good(Len(seq))
  <2>1. Len(seq) \in 0..Len(seq)
    OBVIOUS
  <2> QED
    BY <1>2, <2>1
<1> QED
  BY <1>1, <1>3

(***************************************************************************)
(* What a batch does to the items                                          *)
(***************************************************************************)
ServedBefore(body, f, n) ==
    IF n = 0 THEN [items |-> items, changes |-> changes] ELSE Serve(f[n - 1], body[n])

LEMMA ServedSolved ==
    ASSUME NEW body, NEW N \in Nat
    PROVE  \E f : f = [n \in 0..N |-> ServedBefore(body, f, n)]
<1>. DEFINE Solved(n) == \E f : f = [i \in 0..n |-> ServedBefore(body, f, i)]
            unsolved == {n \in Nat : ~Solved(n)}
<1>1. SUFFICES ASSUME unsolved # {} PROVE FALSE
  OBVIOUS
<1>2. PICK n \in unsolved : \A k \in unsolved : n <= k
  BY <1>1, LeastNatural
<1>3. CASE n = 0
  <2>. DEFINE g == [i \in 0..0 |-> [items |-> items, changes |-> changes]]
  <2>1. g = [i \in 0..0 |-> ServedBefore(body, g, i)]
    BY DEF ServedBefore
  <2>. HIDE DEF g
  <2> QED
    BY <1>2, <1>3, <2>1
<1>4. CASE n # 0
  <2>1. n - 1 \in Nat /\ n - 1 \notin unsolved
    BY <1>2, <1>4
  <2>2. PICK f : f = [i \in 0..(n - 1) |-> ServedBefore(body, f, i)]
    BY <2>1
  <2>. DEFINE g == [i \in 0..n |-> IF i = n THEN ServedBefore(body, f, n) ELSE f[i]]
  <2>3. ASSUME NEW i \in 0..n PROVE g[i] = ServedBefore(body, g, i)
    <3>1. i # 0 => i - 1 \in 0..(n - 1) /\ g[i - 1] = f[i - 1]
      BY <1>2
    <3>2. ServedBefore(body, g, i) = ServedBefore(body, f, i)
      BY <3>1 DEF ServedBefore
    <3>3. i # n => i \in 0..(n - 1) /\ f[i] = ServedBefore(body, f, i)
      BY <1>2, <2>2
    <3> QED
      BY <3>2, <3>3
  <2>4. g = [i \in 0..n |-> ServedBefore(body, g, i)]
    <3>1. g = [i \in 0..n |-> g[i]]
      OBVIOUS
    <3>. HIDE DEF g
    <3> QED
      BY <2>3, <3>1
  <2>. HIDE DEF g
  <2> QED
    BY <1>2, <2>4
<1> QED
  BY <1>3, <1>4

\* Items are a sequence, and their fields have names with an order.
ItemsOK(its) == (\E S : its \in Seq(S)) /\ \A item \in ToSet(its) : FieldsOrdered(item)

\* A write that is on its way names a version that the host was shown.
OpShown(op) ==
    op.method \in {"PATCH", "DELETE"} => op.etag # None /\ <<op.url.path.item, op.etag>> \in shown

LEMMA ChangedOrdered ==
    ASSUME NEW item, FieldsOrdered(item), NEW value, NEW by, NEW n
    PROVE  FieldsOrdered(Changed(item, value, by, n))
<1>1. Changed(item, value, by, n).fields = Titled(item.fields, value)
  BY DEF Changed
<1>2. item.fields # None => DOMAIN Titled(item.fields, value) \subseteq ToSet(FieldOrder)
  BY OrderAssumption DEF FieldsOrdered, Titled
<1>3. item.fields = None => Titled(item.fields, value) = None
  BY DEF Titled
<1> QED
  BY <1>1, <1>2, <1>3 DEF FieldsOrdered

\* One operation leaves every item alone whose version the host was not shown.
ServeGood(state, op) ==
    /\ ItemsOK(Serve(state, op).items)
    /\ \A item \in ToSet(state.items) :
          item \in ToSet(Serve(state, op).items) \/ <<item.id, item.version>> \in shown

LEMMA ServeKeeps ==
    ASSUME NEW state, ItemsOK(state.items), NEW op, OpShown(op)
    PROVE  ServeGood(state, op)
<1>. DEFINE its == state.items
            named == {item \in ToSet(its) : Names(op, item)}
            next == state.changes + 1
<1>1. PICK S : its \in Seq(S)
  BY DEF ItemsOK
<1>2. \A item \in ToSet(its) : FieldsOrdered(item)
  BY DEF ItemsOK
<1>3. \A item \in named : op.method \in {"PATCH", "DELETE"} => <<item.id, item.version>> \in shown
  BY DEF Names, OpShown
<1>4. CASE op.method = "POST"
  <2>. DEFINE new == [id |-> NewItemId[next], url |-> None, fields |-> [Title |-> op.body],
                      version |-> Tag[next], tagged |-> "eTag", by |-> "host"]
  <2>1. Serve(state, op).items = Append(its, new)
    <3>1. Serve(state, op) = [changes |-> next, items |-> Append(its, new)]
      BY <1>4, Zenon DEF Serve
    <3> QED
      BY <3>1
  <2>2. FieldsOrdered(new)
    <3>1. DOMAIN new.fields = {"Title"}
      OBVIOUS
    <3> QED
      BY <3>1, OrderAssumption DEF FieldsOrdered
  <2>. HIDE DEF new
  <2>3. Append(its, new) \in Seq(S \cup {new})
    BY <1>1
  <2>4. ToSet(Append(its, new)) = ToSet(its) \cup {new}
    <3>1. DOMAIN Append(its, new) = DOMAIN its \cup {Len(its) + 1}
      BY <1>1
    <3>2. \A i \in DOMAIN its : Append(its, new)[i] = its[i]
      BY <1>1
    <3>3. Append(its, new)[Len(its) + 1] = new
      BY <1>1
    <3> QED
      BY <3>1, <3>2, <3>3 DEF ToSet
  <2>. HIDE DEF its
  <2>5. ItemsOK(Append(its, new))
    BY <1>2, <2>2, <2>3, <2>4 DEF ItemsOK
  <2> QED
    BY <2>1, <2>4, <2>5 DEF ServeGood, its
<1>5. CASE op.method = "PATCH" /\ named # {}
  <2>. DEFINE new == [i \in 1..Len(its) |->
                        IF its[i] \in named THEN Changed(its[i], op.body, "host", next) ELSE its[i]]
  <2>1. Serve(state, op).items = new
    <3>1. Serve(state, op) = [changes |-> next, items |-> new]
      BY <1>5, Zenon DEF Serve
    <3> QED
      BY <3>1
  <2>2. new \in Seq({new[i] : i \in 1..Len(its)}) /\ DOMAIN new = 1..Len(its) /\ DOMAIN its = 1..Len(its)
    BY <1>1
  <2>3. \A i \in 1..Len(its) : its[i] \in ToSet(its) /\ FieldsOrdered(its[i])
    BY <1>2, <2>2 DEF ToSet
  <2>4. ASSUME NEW i \in 1..Len(its)
        PROVE  /\ FieldsOrdered(new[i])
               /\ its[i] \in ToSet(new) \/ <<its[i].id, its[i].version>> \in shown
    <3>1. CASE its[i] \in named
      <4>1. new[i] = Changed(its[i], op.body, "host", next)
        BY <3>1
      <4> QED
        BY <1>3, <1>5, <2>3, <3>1, <4>1, ChangedOrdered
    <3>2. CASE its[i] \notin named
      <4>1. new[i] = its[i]
        BY <3>2
      <4> QED
        BY <2>2, <2>3, <4>1 DEF ToSet
    <3> QED
      BY <3>1, <3>2
  <2>. HIDE DEF new
  <2>5. ItemsOK(new)
    BY <2>2, <2>4 DEF ItemsOK, ToSet
  <2>6. \A item \in ToSet(its) : \E i \in 1..Len(its) : item = its[i]
    BY <2>2 DEF ToSet
  <2> QED
    BY <2>1, <2>4, <2>5, <2>6 DEF ServeGood
<1>6. CASE op.method = "DELETE"
  <2>. DEFINE new == Kept(its, ToSet(its) \ named)
  <2>1. Serve(state, op).items = new
    <3>1. Serve(state, op) = [changes |-> state.changes, items |-> new]
      BY <1>6, Zenon DEF Serve
    <3> QED
      BY <3>1
  <2>2. new \in Seq(S) /\ ToSet(new) = ToSet(its) \cap (ToSet(its) \ named)
    BY <1>1, KeptIs
  <2>. HIDE DEF new
  <2> QED
    BY <1>2, <1>3, <1>6, <2>1, <2>2 DEF ServeGood, ItemsOK
<1>7. CASE op.method \notin {"POST", "DELETE"} /\ ~(op.method = "PATCH" /\ named # {})
  <2>1. Serve(state, op) = state
    BY <1>7, Zenon DEF Serve
  <2> QED
    BY <2>1 DEF ServeGood
<1> QED
  BY <1>4, <1>5, <1>6, <1>7

\* So does a whole batch.
BatchShown(body) == Len(body) \in Nat /\ \A k \in 1..Len(body) : OpShown(body[k])
BatchKeeps(its) ==
    /\ ItemsOK(its)
    /\ \A i \in 1..Len(items) : items[i] \in ToSet(its) \/ <<items[i].id, items[i].version>> \in shown

LEMMA ServedKeeps ==
    ASSUME ItemsOK(items), NEW body, BatchShown(body)
    PROVE  BatchKeeps(Served(body).items)
<1>. DEFINE P(f) == f = [n \in 0..Len(body) |->
                            IF n = 0 THEN [items |-> items, changes |-> changes]
                            ELSE Serve(f[n - 1], body[n])]
<1>1. \A f : P(f) <=> f = [n \in 0..Len(body) |-> ServedBefore(body, f, n)]
  BY Zenon DEF ServedBefore
<1>2. \E f : P(f)
  <2>1. Len(body) \in Nat
    BY DEF BatchShown
  <2>2. PICK f : f = [n \in 0..Len(body) |-> ServedBefore(body, f, n)]
    BY <2>1, ServedSolved
  <2>. HIDE DEF P
  <2> QED
    BY <1>1, <2>2
<1>3. PICK f : f = (CHOOSE g : P(g)) /\ P(f)
  <2>. HIDE DEF P
  <2> QED
    BY <1>2
<1>4. Served(body) = f[Len(body)]
  BY <1>3, Zenon DEF Served
<1>5. \A n \in 0..Len(body) : f[n] = ServedBefore(body, f, n)
  <2>1. f = [n \in 0..Len(body) |-> ServedBefore(body, f, n)]
    <3>. HIDE DEF P
    <3> QED
      BY <1>1, <1>3
  <2> QED
    BY <2>1, Zenon
<1>. DEFINE bad == {n \in 0..Len(body) : ~BatchKeeps(f[n].items)}
<1>6. bad = {}
  <2>1. SUFFICES ASSUME bad # {} PROVE FALSE
    OBVIOUS
  <2>2. PICK n \in bad : \A k \in bad : n <= k
    <3>1. bad \in SUBSET Nat
      BY DEF BatchShown
    <3>. HIDE DEF bad
    <3> QED
      BY <2>1, <3>1, LeastNatural
  <2>3. n \in 0..Len(body) /\ Len(body) \in Nat /\ ~BatchKeeps(f[n].items)
    BY <2>2 DEF BatchShown
  <2>4. CASE n = 0
    <3>1. f[n].items = items
      BY <1>5, <2>3, <2>4 DEF ServedBefore
    <3>2. \A i \in 1..Len(items) : items[i] \in ToSet(items)
      BY DEF ItemsOK, ToSet
    <3> QED
      BY <2>3, <3>1, <3>2 DEF BatchKeeps
  <2>5. CASE n # 0
    <3>1. n \in 1..Len(body) /\ n - 1 \in 0..Len(body) /\ ~(n <= n - 1)
      BY <2>3, <2>5
    <3>2. f[n] = Serve(f[n - 1], body[n])
      BY <1>5, <2>5, <3>1 DEF ServedBefore
    <3>3. BatchKeeps(f[n - 1].items)
      BY <2>2, <3>1
    <3>4. PICK state, op : state = f[n - 1] /\ op = body[n]
      OBVIOUS
    <3>5. ServeGood(state, op)
      BY <3>1, <3>3, <3>4, ServeKeeps DEF BatchKeeps, BatchShown
    <3>6. BatchKeeps(f[n].items)
      BY <3>2, <3>3, <3>4, <3>5 DEF BatchKeeps, ServeGood
    <3> QED
      BY <2>3, <3>6
  <2> QED
    BY <2>4, <2>5
<1>7. Len(body) \in 0..Len(body)
  BY DEF BatchShown
<1> QED
  BY <1>4, <1>6, <1>7

(***************************************************************************)
(* Lists and batches                                                       *)
(***************************************************************************)
\* A call that succeeds answers from the cassette or from the response.
LEMMA GetAnswered ==
    ASSUME NEW mode, NEW held, NEW path, NEW response, GraphGet(mode, held, path, response).ok
    PROVE  LET body == GraphGet(mode, held, path, response).body
           IN \/ /\ path \in DOMAIN mode.gets /\ Success(mode.gets[path])
                 /\ body = mode.gets[path].body
              \/ response # None /\ response.body # None /\ body = response.body
<1>1. path.local
  BY DEF GraphGet, GraphError
<1>2. CASE mode.modeled
  <2>1. GraphGet(mode, held, path, response) = CassetteAnswer(mode.gets, path)
    BY <1>1, <1>2 DEF GraphGet
  <2> QED
    BY <2>1 DEF CassetteAnswer, GraphError, GraphOk
<1>3. CASE ~mode.modeled
  <2>1. GraphGet(mode, held, path, response) = LiveAnswer(mode, held, response, DecodeResponse(response))
    BY <1>1, <1>3 DEF GraphGet
  <2>2. response # None /\ DecodeResponse(response).ok
        /\ GraphGet(mode, held, path, response) = DecodeResponse(response)
    BY <2>1 DEF LiveAnswer, GraphError
  <2> QED
    BY <2>2 DEF DecodeResponse, GraphError, GraphOk
<1> QED
  BY <1>2, <1>3

LEMMA AnswerTyped ==
    ASSUME NEW kind, NEW mode, NEW held, NEW path, NEW response,
           CassetteTyped(kind, mode, path), ResponseTyped(kind, response),
           GraphGet(mode, held, path, response).ok
    PROVE  BodyTyped(kind, GraphGet(mode, held, path, response).body)
<1>. DEFINE answer == GraphGet(mode, held, path, response)
<1>1. CASE path \in DOMAIN mode.gets /\ Success(mode.gets[path]) /\ answer.body = mode.gets[path].body
  BY <1>1 DEF CassetteTyped
<1>2. CASE response # None /\ response.body # None /\ answer.body = response.body
  BY <1>2 DEF ResponseTyped
<1> QED
  BY <1>1, <1>2, GetAnswered

\* The list the host holds: its sheet is made of the items of one response.
SheetMade(source, sheet) ==
    /\ \E S : source \in Seq(S)
    /\ \A item \in ToSet(source) :
          None \notin {item.id, ItemEtag(item), item.fields} /\ FieldsOrdered(item)
    /\ sheet.headers = ListHeaders(source)
    /\ sheet.rows = [i \in 1..Len(source) |->
                        [j \in 1..Len(sheet.headers) |-> ListCell(source[i], sheet.headers[j])]]

LEMMA ListItemsMade ==
    ASSUME NEW target, NEW answer, answer.ok => BodyTyped("list", answer.body),
           ListItems(target, answer) # None
    PROVE  answer.ok /\ SheetMade(answer.body.value, ListItems(target, answer))
<1>. DEFINE source == answer.body.value
            sheet == ListItems(target, answer)
            headers == ListHeaders(source)
<1>1. /\ answer.ok /\ source # None
      /\ ~ \E i \in 1..Len(source) : None \in {source[i].id, ItemEtag(source[i]), source[i].fields}
      /\ sheet = [kind |-> "sheet", id |-> <<"site/sharepoint", target.site, target.list>>,
                  headers |-> headers,
                  rows |-> [i \in 1..Len(source) |->
                               [j \in 1..Len(headers) |-> ListCell(source[i], headers[j])]]]
  BY DEF ListItems
<1>2. source \in Seq(ToSet(source)) /\ \A item \in ToSet(source) : RecordTyped("list", item)
  BY <1>1 DEF BodyTyped
<1>3. sheet.headers = headers
      /\ sheet.rows = [i \in 1..Len(source) |->
                         [j \in 1..Len(headers) |-> ListCell(source[i], headers[j])]]
  <2>. HIDE DEF headers, source, sheet
  <2> QED
    BY <1>1
<1>. HIDE DEF source, sheet
<1>4. \A item \in ToSet(source) : \E i \in 1..Len(source) : item = source[i]
  BY <1>2 DEF ToSet
<1>5. \A item \in ToSet(source) :
         None \notin {item.id, ItemEtag(item), item.fields} /\ FieldsOrdered(item)
  BY <1>1, <1>2, <1>4 DEF RecordTyped
<1>6. SheetMade(source, sheet)
  BY <1>2, <1>3, <1>5 DEF SheetMade
<1> QED
  BY <1>1, <1>6 DEF source, sheet

RowsShown(sheet) == \A row \in ToSet(sheet.rows) : <<row[1].text, row[3].text>> \in shown

ListsInv ==
    /\ ItemsOK(items)
    /\ list.sheet # None => SheetMade(list.items, list.sheet) /\ RowsShown(list.sheet)
    /\ \A body \in posted : BatchShown(body)

\* The service shows its items in a response to the request.
LEMMA ListResponseTyped ==
    ASSUME ItemsOK(items) PROVE ResponseTyped("list", ListResponse)
<1>. DEFINE value == [i \in 1..Len(items) |-> ItemJson(items[i])]
<1>1. ListResponse.body.value = value
  BY DEF ListResponse, Response
<1>2. Len(items) \in Nat /\ \A i \in 1..Len(items) : items[i] \in ToSet(items)
  BY DEF ItemsOK, ToSet
<1>3. \A i \in 1..Len(items) : FieldsOrdered(ItemJson(items[i]))
  BY <1>2 DEF ItemsOK, FieldsOrdered, ItemJson
<1>4. value \in Seq(ToSet(value)) /\ DOMAIN value = 1..Len(items)
  BY <1>2 DEF ToSet
<1>5. \A json \in ToSet(value) : RecordTyped("list", json)
  BY <1>3, <1>4 DEF ToSet, RecordTyped
<1>. HIDE DEF value
<1> QED
  BY <1>1, <1>4, <1>5 DEF ResponseTyped, BodyTyped

\* An operation the host can make, and that is valid, is on a version shown.
LEMMA OperationShown ==
    ASSUME list.sheet # None => RowsShown(list.sheet), NEW op \in Operations, WritePrecondition(op),
           op.method \in {"PATCH", "DELETE"}
    PROVE  \E item : op.path = ApiPath("bare", item) /\ op.etag # None /\ <<item, op.etag>> \in shown
<1>1. op.etag # None /\ op.etag # " "
  BY BlanksAssumption DEF WritePrecondition, Blank
<1>2. PICK row : /\ list.sheet # None /\ row \in ToSet(list.sheet.rows)
                 /\ op \in {PatchChecked(ApiPath("bare", row[1].text), Scenario[scenario].value, row[3].text),
                            PatchChecked(ApiPath("bare", row[1].text), Scenario[scenario].value, " "),
                            Patch(ApiPath("bare", row[1].text), Scenario[scenario].value),
                            DeleteChecked(ApiPath("bare", row[1].text), row[3].text),
                            Delete(ApiPath("bare", row[1].text))}
  <2>1. op # BatchPost(ApiPath("bare", None), Scenario[scenario].value) /\ op # BatchGet(ApiPath("other", None))
    BY DEF BatchPost, BatchGet, RestBatchOp
  <2>2. list.sheet = None => ToSet(IF list.sheet = None THEN <<>> ELSE list.sheet.rows) = {}
    BY DEF ToSet
  <2> QED
    BY <2>1, <2>2, Zenon DEF Operations
<1>3. <<row[1].text, row[3].text>> \in shown
  BY <1>2 DEF RowsShown
<1>4. op.path = ApiPath("bare", row[1].text) /\ op.etag \in {row[3].text, " ", None}
  <2>1. ASSUME NEW path, NEW value, NEW tag
        PROVE  /\ Patch(path, value).path = path /\ Patch(path, value).etag = None
               /\ Delete(path).path = path /\ Delete(path).etag = None
               /\ PatchChecked(path, value, tag).path = path /\ PatchChecked(path, value, tag).etag = tag
               /\ DeleteChecked(path, tag).path = path /\ DeleteChecked(path, tag).etag = tag
    BY DEF PatchChecked, DeleteChecked, WithIfMatch, Patch, Delete, RestBatchOp
  <2>. DEFINE path == ApiPath("bare", row[1].text)
              value == Scenario[scenario].value
  <2>2. op \in {PatchChecked(path, value, row[3].text), PatchChecked(path, value, " "),
               Patch(path, value), DeleteChecked(path, row[3].text), Delete(path)}
    BY <1>2
  <2>. HIDE DEF path, value
  <2>3. op = PatchChecked(path, value, row[3].text) \/ op = DeleteChecked(path, row[3].text) =>
           op.path = path /\ op.etag = row[3].text
    BY <2>1
  <2>4. op = PatchChecked(path, value, " ") => op.path = path /\ op.etag = " "
    <3>1. PICK blank : blank = " "
      OBVIOUS
    <3>2. PatchChecked(path, value, blank).path = path /\ PatchChecked(path, value, blank).etag = blank
      BY <2>1
    <3> QED
      BY <3>1, <3>2
  <2>5. op = Patch(path, value) \/ op = Delete(path) => op.path = path /\ op.etag = None
    BY <2>1
  <2> QED
    BY <2>2, <2>3, <2>4, <2>5 DEF path
<1> QED
  BY <1>1, <1>3, <1>4

LEMMA SentShown ==
    ASSUME list.sheet # None => RowsShown(list.sheet), NEW n \in Nat, NEW ops \in [1..n -> Operations],
           NEW carrier, NEW url, BatchSent(carrier, url, ops) # None
    PROVE  BatchShown(BatchSent(carrier, url, ops))
<1>. DEFINE body == BatchSent(carrier, url, ops)
<1>1. Len(ops) = n /\ ops \in Seq(Operations)
  OBVIOUS
<1>2. /\ \A i \in 1..n : WritePrecondition(ops[i]) /\ ApiUrlFor(url, ops[i].path) # None
      /\ body = [i \in 1..n |->
                   [method |-> ops[i].method, url |-> ApiUrlFor(url, ops[i].path),
                    headers |-> OperationHeaders(ops[i]), etag |-> ops[i].etag, body |-> ops[i].body]]
  BY <1>1 DEF BatchSent, OdataBatchBody
<1>. HIDE DEF body
<1>3. Len(body) = n
  BY <1>2
<1>4. ASSUME NEW i \in 1..n, body[i].method \in {"PATCH", "DELETE"}
      PROVE  body[i].etag # None /\ <<body[i].url.path.item, body[i].etag>> \in shown
  <2>1. PICK op \in Operations : op = ops[i]
    OBVIOUS
  <2>2. body[i].method = op.method /\ body[i].etag = op.etag /\ body[i].url = ApiUrlFor(url, op.path)
    BY <1>2, <2>1
  <2>3. WritePrecondition(op) /\ ApiUrlFor(url, op.path) # None
    BY <1>2, <2>1
  <2>4. PICK item : op.path = ApiPath("bare", item) /\ op.etag # None /\ <<item, op.etag>> \in shown
    BY <1>4, <2>2, <2>3, OperationShown
  <2>5. NormalizeApiPath(op.path) = [form |-> "slashed", item |-> item]
    BY <2>4 DEF NormalizeApiPath, ApiPath
  <2>6. ApiUrlFor(url, op.path).path = NormalizeApiPath(op.path)
    BY <2>3 DEF ApiUrlFor
  <2>7. body[i].url.path.item = item
    BY <2>2, <2>5, <2>6
  <2> QED
    BY <2>2, <2>4, <2>7
<1> QED
  BY <1>3, <1>4 DEF BatchShown, OpShown, body

(***************************************************************************)
(* The steps that change lists, items and batches                          *)
(***************************************************************************)
LEMMA ListChosen ==
    ASSUME ScenarioChosen
    PROVE  /\ \A its \in Scenario[scenario].lists : ItemsOK(its)
           /\ \A mode \in Scenario[scenario].modes, target \in Scenario[scenario].listTargets :
                 CassetteTyped("list", mode, ItemsPath(target))
  BY ListsAssumption, Zenon DEF ScenarioChosen, ItemsOK

LEMMA InitLists == Init => ListsInv
<1> SUFFICES ASSUME Init PROVE ListsInv
  OBVIOUS
<1>1. ItemsOK(items)
  BY ListChosen DEF Init, ScenarioChosen
<1>2. list.sheet = None /\ posted = {}
  BY DEF Init, NoList
<1> QED
  BY <1>1, <1>2 DEF ListsInv

\* What was shown stays shown.
LEMMA ShownStays ==
    ASSUME shown \subseteq shown', posted' = posted, \A body \in posted : BatchShown(body)
    PROVE  \A body \in posted' : BatchShown(body)'
  BY DEF BatchShown, OpShown

LEMMA ReadListLists ==
    ASSUME ListsInv, ScenarioChosen, NEW mode \in Scenario[scenario].modes,
           NEW target \in Scenario[scenario].listTargets,
           NEW response \in {ListResponse, Response(404, None), None},
           ReadList(mode, target, response)
    PROVE  ListsInv'
<1>. DEFINE answer == GraphGet(mode, granted, ItemsPath(target), response)
            sheet == ListItems(target, answer)
<1>1. /\ list' = [items |-> IF answer.ok THEN answer.body.value ELSE None, sheet |-> sheet]
      /\ shown' = IF sheet = None THEN shown
                  ELSE shown \cup {<<sheet.rows[i][1].text, sheet.rows[i][3].text>> :
                                      i \in 1..Len(sheet.rows)}
      /\ items' = items /\ posted' = posted
  BY DEF ReadList, service
<1>2. ResponseTyped("list", response)
  <2>1. ResponseTyped("list", Response(404, None)) /\ ResponseTyped("list", None)
    BY DEF ResponseTyped, Response
  <2> QED
    BY <2>1, ListResponseTyped DEF ListsInv
<1>3. answer.ok => BodyTyped("list", answer.body)
  BY <1>2, ListChosen, AnswerTyped
<1>. HIDE DEF answer
<1>4. ASSUME sheet # None
      PROVE  SheetMade(list.items, list.sheet)' /\ RowsShown(list.sheet)'
  <2>1. answer.ok /\ SheetMade(answer.body.value, sheet)
    BY <1>3, <1>4, ListItemsMade
  <2>. HIDE DEF sheet
  <2>2. list'.items = answer.body.value /\ list'.sheet = sheet
    BY <1>1, <2>1
  <2>3. SheetMade(list'.items, list'.sheet)
    BY <2>1, <2>2
  <2>4. DOMAIN sheet.rows = 1..Len(sheet.rows)
    BY <2>1 DEF SheetMade
  <2>5. \A row \in ToSet(sheet.rows) : <<row[1].text, row[3].text>> \in shown'
    BY <1>1, <1>4, <2>4 DEF ToSet
  <2> QED
    BY <2>2, <2>3, <2>5 DEF SheetMade, RowsShown
<1>. HIDE DEF sheet
<1>5. list'.sheet = sheet /\ shown \subseteq shown'
  BY <1>1
<1>6. ItemsOK(items)'
  BY <1>1 DEF ListsInv, ItemsOK
<1> QED
  BY <1>1, <1>4, <1>5, <1>6, ShownStays DEF ListsInv

\* What a step leaves of the lists, where it reads none.
LEMMA ListsKept ==
    ASSUME ListsInv, UNCHANGED lists, ItemsOK(items'),
           \A body \in posted' : body \in posted \/ BatchShown(body)
    PROVE  ListsInv'
<1>1. list' = list /\ shown' = shown
  BY DEF lists
<1>2. list'.sheet # None => SheetMade(list.items, list.sheet)' /\ RowsShown(list.sheet)'
  BY <1>1 DEF ListsInv, SheetMade, RowsShown
<1>3. \A body \in posted' : BatchShown(body)'
  BY <1>1 DEF ListsInv, BatchShown, OpShown
<1> QED
  BY <1>2, <1>3 DEF ListsInv, ItemsOK

LEMMA EditItemLists ==
    ASSUME ListsInv, NEW i \in 1..Len(items), NEW value, EditItem(i, value)
    PROVE  ListsInv'
<1>. DEFINE new == Changed(items[i], value, "other", changes + 1)
<1>1. items' = [items EXCEPT ![i] = new] /\ posted' = posted /\ UNCHANGED lists
  BY DEF EditItem
<1>2. PICK S : items \in Seq(S)
  BY DEF ListsInv, ItemsOK
<1>3. items[i] \in ToSet(items)
  BY <1>2 DEF ToSet
<1>4. FieldsOrdered(new)
  BY <1>3, ChangedOrdered DEF ListsInv, ItemsOK
<1>. HIDE DEF new
<1>5. items' \in Seq(S \cup {new}) /\ ToSet(items') \subseteq ToSet(items) \cup {new}
  BY <1>1, <1>2 DEF ToSet
<1>6. ItemsOK(items')
  BY <1>4, <1>5 DEF ListsInv, ItemsOK
<1> QED
  BY <1>1, <1>6, ListsKept

LEMMA SendBatchLists ==
    ASSUME ListsInv, NEW carrier, NEW url, NEW n \in Nat, NEW ops \in [1..n -> Operations], NEW fate,
           SendBatch(carrier, url, ops, fate)
    PROVE  /\ ListsInv'
           /\ items' = items \/ BatchKeeps(items')
<1>. DEFINE body == BatchSent(carrier, url, ops)
<1>1. /\ body # None \/ fate = "lost"
      /\ \/ fate = "served" /\ items' = Served(body).items
         \/ fate # "served" /\ items' = items
      /\ posted' = IF fate = "late" THEN posted \cup {body} ELSE posted
      /\ UNCHANGED lists
  BY DEF SendBatch
<1>2. body # None => BatchShown(body)
  BY SentShown DEF ListsInv
<1>. HIDE DEF body
<1>3. items' = items \/ BatchKeeps(items')
  BY <1>1, <1>2, ServedKeeps DEF ListsInv
<1>4. ItemsOK(items')
  BY <1>3 DEF ListsInv, BatchKeeps
<1>5. \A b \in posted' : b \in posted \/ BatchShown(b)
  BY <1>1, <1>2
<1> QED
  BY <1>1, <1>3, <1>4, <1>5, ListsKept

LEMMA DeliverLists ==
    ASSUME ListsInv, NEW body \in posted, Deliver(body)
    PROVE  ListsInv' /\ BatchKeeps(items')
<1>1. items' = Served(body).items /\ posted' = posted \ {body} /\ UNCHANGED lists
  BY DEF Deliver
<1>2. BatchKeeps(items')
  BY <1>1, ServedKeeps DEF ListsInv
<1> QED
  BY <1>1, <1>2, ListsKept DEF BatchKeeps

\* The items after a step, for each item before it.
Overwritten ==
    \A i \in 1..Len(items) :
       \/ <<items[i].id, items[i].version>> \in shown
       \/ \E j \in 1..Len(items') :
             items'[j].id = items[i].id /\ (items'[j] = items[i] \/ items'[j].by = "other")

LEMMA KeepsOverwritten ==
    ASSUME ItemsOK(items), items' = items \/ BatchKeeps(items') PROVE Overwritten
<1>1. ItemsOK(items') /\ \A i \in 1..Len(items) :
         items[i] \in ToSet(items') \/ <<items[i].id, items[i].version>> \in shown
  BY DEF BatchKeeps, ItemsOK, ToSet
<1>2. \A item \in ToSet(items') : \E j \in 1..Len(items') : items'[j] = item
  BY <1>1 DEF ItemsOK, ToSet
<1> QED
  BY <1>1, <1>2 DEF Overwritten

LEMMA ListsStep ==
    ASSUME ListsInv, ScenarioChosen, [Next]_vars
    PROVE  ListsInv' /\ Overwritten
<1>1. ASSUME NEW mode \in Scenario[scenario].modes, NEW target \in Scenario[scenario].listTargets,
             NEW response \in {ListResponse, Response(404, None), None},
             ReadList(mode, target, response)
      PROVE  ListsInv' /\ Overwritten
  <2>1. items' = items
    BY <1>1 DEF ReadList, service
  <2> QED
    BY <1>1, <2>1, ReadListLists, KeepsOverwritten DEF ListsInv
<1>2. ASSUME NEW i \in 1..Len(items), NEW value, EditItem(i, value)
      PROVE  ListsInv' /\ Overwritten
  <2>. DEFINE new == Changed(items[i], value, "other", changes + 1)
  <2>1. items' = [items EXCEPT ![i] = new]
    BY <1>2 DEF EditItem
  <2>2. new.id = items[i].id /\ new.by = "other"
    BY DEF Changed
  <2>. HIDE DEF new
  <2>3. Len(items') = Len(items) /\ DOMAIN items = 1..Len(items)
    BY <2>1 DEF ListsInv, ItemsOK
  <2>4. \A j \in 1..Len(items) : items'[j] = IF j = i THEN new ELSE items[j]
    BY <2>1, <2>3
  <2>5. Overwritten
    BY <2>2, <2>3, <2>4 DEF Overwritten
  <2> QED
    BY <1>2, <2>5, EditItemLists
<1>3. ASSUME NEW carrier, NEW url, NEW n \in 0..2, NEW ops \in [1..n -> Operations], NEW fate,
             SendBatch(carrier, url, ops, fate)
      PROVE  ListsInv' /\ Overwritten
  <2>1. n \in Nat
    OBVIOUS
  <2> QED
    BY <1>3, <2>1, SendBatchLists, KeepsOverwritten DEF ListsInv
<1>4. ASSUME NEW body \in posted, Deliver(body) PROVE ListsInv' /\ Overwritten
  BY <1>4, DeliverLists, KeepsOverwritten DEF ListsInv
<1>5. CASE UNCHANGED <<service, lists>>
  <2>1. items' = items /\ posted' = posted /\ UNCHANGED lists
    BY <1>5 DEF service
  <2> QED
    BY <2>1, ListsKept, KeepsOverwritten DEF ListsInv
<1> QED
  BY <1>1, <1>2, <1>3, <1>4, <1>5, ListsAlone DEF Next, vars

\* However requests are repeated, lost or late, no batch of the host overwrites
\* or removes a version of an item that the host has not been shown.
THEOREM SitesNoLostUpdate == Spec => NoLostUpdate
<1>1. Init => ListsInv /\ ScenarioChosen
  BY InitLists DEF Init, ScenarioChosen
<1>2. ListsInv /\ ScenarioChosen /\ [Next]_vars => ListsInv' /\ ScenarioChosen'
  BY ScenarioKept, ListsStep DEF ScenarioChosen
<1>3. ListsInv /\ ScenarioChosen /\ [Next]_vars => [Overwritten]_vars
  BY ListsStep
<1> QED
  BY <1>1, <1>2, <1>3, PTL DEF Spec, NoLostUpdate, Overwritten

(***************************************************************************)
(* What a sheet, a record and a document say of the response               *)
(***************************************************************************)
\* What is shown of an item in a column.
LEMMA CellShows ==
    ASSUME NEW item, NEW header, ItemEtag(item) # None
    PROVE  /\ header = "id" => ListCell(item, header).text = item.id
           /\ header = "eTag" => ListCell(item, header).text \in {item.etag, item.odata} \ {None}
           /\ header = "webUrl" =>
                 ListCell(item, header).text = IF item.url = None THEN "" ELSE item.url
           /\ header \notin {"id", "eTag", "webUrl"} =>
                 ListCell(item, header).text =
                    IF header \in DOMAIN item.fields THEN item.fields[header].text ELSE ""
<1>1. \A text : TextCell(text).text = text
  BY Zenon DEF TextCell
<1>2. \A json : JsonToCell(json).text = json.text
  BY Zenon DEF JsonToCell
<1>3. CASE header = "id"
  <2>1. ListCell(item, header) = TextCell(item.id)
    BY <1>3, Zenon DEF ListCell
  <2> QED
    BY <1>1, <1>3, <2>1, Zenon
<1>4. CASE header = "eTag"
  <2>1. ListCell(item, header) = TextCell(ItemEtag(item))
    BY <1>4, Zenon DEF ListCell
  <2>2. ItemEtag(item) \in {item.etag, item.odata} \ {None}
    BY DEF ItemEtag, OrElse
  <2> QED
    BY <1>1, <1>4, <2>1, <2>2, Zenon
<1>5. CASE header = "webUrl"
  <2>1. ListCell(item, header) = TextCell(OrElse(item.url, ""))
    BY <1>5, Zenon DEF ListCell
  <2>2. OrElse(item.url, "") = IF item.url = None THEN "" ELSE item.url
    BY Zenon DEF OrElse
  <2> QED
    BY <1>1, <1>5, <2>1, <2>2, Zenon
<1>6. CASE header \notin {"id", "eTag", "webUrl"}
  <2>1. ListCell(item, header) = IF header \in DOMAIN item.fields THEN JsonToCell(item.fields[header])
                                                                  ELSE TextCell("")
    BY <1>6, Zenon DEF ListCell
  <2> QED
    BY <1>1, <1>2, <1>6, <2>1, Zenon
<1> QED
  BY <1>3, <1>4, <1>5, <1>6, Zenon

LEMMA PartsOf ==
    ASSUME NEW T, NEW first \in Seq(T), NEW last \in Seq(T)
    PROVE  ToSet(first) \subseteq ToSet(first \o last) /\ ToSet(last) \subseteq ToSet(first \o last)
<1>0. ASSUME NEW k \in DOMAIN first
      PROVE  k \in DOMAIN (first \o last) /\ (first \o last)[k] = first[k]
  OBVIOUS
<1>1. ASSUME NEW k \in DOMAIN last
      PROVE  /\ k + Len(first) \in DOMAIN (first \o last)
             /\ (first \o last)[k + Len(first)] = last[k]
  OBVIOUS
<1> QED
  BY <1>0, <1>1 DEF ToSet

\* The columns of a sheet include those of the items themselves.
LEMMA HeadersFixed ==
    ASSUME NEW source
    PROVE  {"id", "eTag", "webUrl"} \subseteq ToSet(ListHeaders(source))
<1>. DEFINE kept == Kept(FieldOrder, ListFieldNames(source))
<1>1. kept \in Seq(ToSet(FieldOrder))
  BY OrderAssumption, KeptIs
<1>. HIDE DEF kept
<1>2. PICK T : T = {"id", "webUrl", "eTag"} \cup ToSet(FieldOrder)
  OBVIOUS
<1>3. FixedHeaders \in Seq(T) /\ kept \in Seq(T)
  BY <1>1, <1>2 DEF FixedHeaders
<1>4. {"id", "eTag", "webUrl"} \subseteq ToSet(FixedHeaders)
  <2>1. /\ 1 \in DOMAIN FixedHeaders /\ FixedHeaders[1] = "id"
        /\ 2 \in DOMAIN FixedHeaders /\ FixedHeaders[2] = "webUrl"
        /\ 3 \in DOMAIN FixedHeaders /\ FixedHeaders[3] = "eTag"
    BY DEF FixedHeaders
  <2> QED
    BY <2>1 DEF ToSet
<1> QED
  BY <1>3, <1>4, PartsOf DEF ListHeaders, kept

\* The columns of a sheet include every field of every item.
LEMMA HeadersComplete ==
    ASSUME NEW S, NEW source \in Seq(S), NEW i \in 1..Len(source), FieldsOrdered(source[i]),
           source[i].fields # None
    PROVE  DOMAIN source[i].fields \ {EtagField} \subseteq ToSet(ListHeaders(source))
<1>. DEFINE kept == Kept(FieldOrder, ListFieldNames(source))
<1>1. kept \in Seq(ToSet(FieldOrder)) /\ ToSet(kept) = ToSet(FieldOrder) \cap ListFieldNames(source)
  BY OrderAssumption, KeptIs
<1>2. ToSet(kept) \subseteq ToSet(FixedHeaders \o kept)
  <2>. HIDE DEF kept
  <2>1. PICK T : T = {"id", "webUrl", "eTag"} \cup ToSet(FieldOrder)
    OBVIOUS
  <2>2. FixedHeaders \in Seq(T) /\ kept \in Seq(T)
    BY <1>1, <2>1 DEF FixedHeaders
  <2> QED
    BY <2>2, PartsOf
<1>3. DOMAIN source[i].fields \ {EtagField} \subseteq ListFieldNames(source)
  <2>1. PICK all : all = {DOMAIN source[k].fields : k \in 1..Len(source)}
    OBVIOUS
  <2>2. DOMAIN source[i].fields \in all
    BY <2>1
  <2>3. ListFieldNames(source) = (UNION all) \ {EtagField}
    BY <2>1 DEF ListFieldNames
  <2>4. DOMAIN source[i].fields \subseteq UNION all
    BY <2>2
  <2> QED
    BY <2>3, <2>4
<1>4. DOMAIN source[i].fields \subseteq ToSet(FieldOrder)
  BY DEF FieldsOrdered
<1> QED
  BY <1>1, <1>2, <1>3, <1>4 DEF ListHeaders

LEMMA SheetFaithful ==
    ASSUME NEW source, NEW sheet, SheetMade(source, sheet) PROVE ListFaithful(source, sheet)
<1>1. PICK S : source \in Seq(S)
  BY DEF SheetMade
<1>2. /\ sheet.headers = ListHeaders(source)
      /\ sheet.rows = [i \in 1..Len(source) |->
                          [j \in 1..Len(sheet.headers) |-> ListCell(source[i], sheet.headers[j])]]
      /\ \A i \in 1..Len(source) :
            FieldsOrdered(source[i]) /\ source[i].fields # None /\ ItemEtag(source[i]) # None
  BY <1>1 DEF SheetMade, ToSet
<1>3. Len(sheet.rows) = Len(source)
  BY <1>1, <1>2
<1>4. ASSUME NEW i \in 1..Len(source), NEW j \in 1..Len(sheet.headers)
      PROVE  sheet.rows[i][j] = ListCell(source[i], sheet.headers[j])
  BY <1>2
<1>5. \A i \in 1..Len(source) : DOMAIN source[i].fields \ Hidden \subseteq ToSet(sheet.headers)
  BY <1>1, <1>2, HeadersComplete DEF Hidden
<1>7. {"id", "eTag", "webUrl"} \subseteq ToSet(sheet.headers)
  BY <1>2, HeadersFixed
<1>6. ASSUME NEW i \in 1..Len(source), NEW j \in 1..Len(sheet.headers)
      PROVE  CASE sheet.headers[j] = "id" -> sheet.rows[i][j].text = source[i].id
               [] sheet.headers[j] = "eTag" ->
                     sheet.rows[i][j].text \in {source[i].etag, source[i].odata} \ {None}
               [] sheet.headers[j] = "webUrl" ->
                     sheet.rows[i][j].text = IF source[i].url = None THEN "" ELSE source[i].url
               [] OTHER -> sheet.rows[i][j].text =
                              IF sheet.headers[j] \in DOMAIN source[i].fields
                              THEN source[i].fields[sheet.headers[j]].text ELSE ""
  <2>. DEFINE header == sheet.headers[j]
              shows == sheet.rows[i][j].text
  <2>1. /\ header = "id" => shows = source[i].id
        /\ header = "eTag" => shows \in {source[i].etag, source[i].odata} \ {None}
        /\ header = "webUrl" => shows = IF source[i].url = None THEN "" ELSE source[i].url
        /\ header \notin {"id", "eTag", "webUrl"} =>
              shows = IF header \in DOMAIN source[i].fields THEN source[i].fields[header].text ELSE ""
    <3>1. PICK item, name : item = source[i] /\ name = header
      OBVIOUS
    <3>2. shows = ListCell(item, name).text /\ ItemEtag(item) # None
      BY <1>2, <1>4, <3>1
    <3> QED
      BY <3>1, <3>2, CellShows, Zenon
  <2>. HIDE DEF header, shows
  <2>2. CASE header = "id"
    BY <2>1, <2>2, Zenon DEF header, shows
  <2>3. CASE header = "eTag"
    BY <2>1, <2>3, Zenon DEF header, shows
  <2>4. CASE header = "webUrl"
    BY <2>1, <2>4, Zenon DEF header, shows
  <2>5. CASE header \notin {"id", "eTag", "webUrl"}
    BY <2>1, <2>5, Zenon DEF header, shows
  <2> QED
    BY <2>2, <2>3, <2>4, <2>5, Zenon
<1> QED
  BY <1>3, <1>5, <1>6, <1>7, Zenon DEF ListFaithful

\* A time that can be read is the instant it stands for.
LEMMA ParsedTrue ==
    ASSUME NEW time, Timed(time), ParseGraphDatetime(time) # None
    PROVE  time # None /\ ParseGraphDatetime(time) = TrueInstant(time) /\ TrueInstant(time) \in Int
<1>1. time # None
  <2>1. time = None => ParseGraphDatetime(time) = None
    BY Zenon DEF ParseGraphDatetime
  <2> QED
    BY <2>1
<1>2. time.minutes \in Int
  BY <1>1 DEF Timed
<1>3. CASE time.form = "offset"
  <2>1. ParseGraphDatetime(time) = time.minutes
    BY <1>1, <1>3, Zenon DEF ParseGraphDatetime
  <2> QED
    BY <1>1, <1>2, <1>3, <2>1 DEF TrueInstant
<1>4. CASE time.form = "local"
  <2>1. ParseGraphDatetime(time) = IF time.zone \in UtcZones THEN time.minutes ELSE None
    BY <1>1, <1>4, Zenon DEF ParseGraphDatetime
  <2>2. ParseGraphDatetime(time) = time.minutes /\ ZoneShift[time.zone] = 0
    BY <2>1, ZoneAssumption
  <2> QED
    BY <1>1, <1>2, <1>4, <2>2 DEF TrueInstant
<1>5. CASE time.form \notin {"offset", "local"}
  BY <1>1, <1>5, Zenon DEF ParseGraphDatetime
<1> QED
  BY <1>3, <1>4, <1>5

LEMMA UnreadTime == ParseGraphDatetime(None) = None
  BY Zenon DEF ParseGraphDatetime

\* What a record says of what it was read from.
RecordMade(kind, json, record) ==
    /\ record # None /\ RecordTyped(kind, json)
    /\ kind = "mail" => record = MessageFromJson(json)
    /\ kind = "calendar-event" => record = CalendarEventFromJson(json)
    /\ kind = "drive" => \E target : record = DriveItemRef(target, json)

\* A text, a contact and a reference show what they were read from.
LEMMA TextShown ==
    ASSUME NEW text PROVE Shows(OrElse(OptionalText(text), ""), "", text, None)
  BY DEF Shows, Says, OrElse, OptionalText

LEMMA ContactShown ==
    ASSUME NEW person
    PROVE  /\ Reachable(person) <=> GraphEmail(person) # None
           /\ Reachable(person) => Shows(GraphEmail(person), None, person.address, person.name)
           /\ person = None => OrElse(GraphEmail(person), "") = ""
           /\ person # None =>
                 Shows(OrElse(GraphEmail(person), ""), "", person.address, person.name)
  BY DEF Shows, Says, Reachable, GraphEmail, OrElse, OptionalText

LEMMA RefShown ==
    ASSUME NEW json, NEW ref, ref = ExternalRefFromResponse(json), ref # None
    PROVE  /\ ref.external_id = json.id
           /\ Shows(ref.version, None, json.etag, json.change)
           /\ Shows(ref.web_url, None, json.url, None)
<1>1. ref = ExternalRef("site/msgraph", json.id,
                        OrElse(OptionalText(json.etag), OptionalText(json.change)),
                        OptionalText(json.url))
  BY DEF ExternalRefFromResponse
<1>2. /\ ref.external_id = json.id
      /\ ref.version = OrElse(OptionalText(json.etag), OptionalText(json.change))
      /\ ref.web_url = OptionalText(json.url)
  BY <1>1 DEF ExternalRef
<1> QED
  BY <1>2 DEF Shows, Says, OrElse, OptionalText

LEMMA AllConverted ==
    ASSUME NEW made, AllOrNone(made) # None
    PROVE  AllOrNone(made) = made /\ \A i \in DOMAIN made : made[i] # None
  BY DEF AllOrNone, ToSet

LEMMA AttachmentsShown ==
    ASSUME NEW json, Listed(json.attachments), AttachmentsFromMessage(json) # None
    PROVE  AttachmentsFaithful(json.attachments, AttachmentsFromMessage(json))
<1>1. CASE json.attachments = None
  <2>1. AttachmentsFromMessage(json) = <<>>
    BY <1>1 DEF AttachmentsFromMessage
  <2> QED
    BY <1>1, <2>1 DEF AttachmentsFaithful
<1>2. CASE json.attachments # None
  <2>. DEFINE source == json.attachments
              refs == [k \in 1..Len(source) |-> ExternalRefFromResponse(source[k])]
  <2>1. source \in Seq(ToSet(source))
    BY <1>2 DEF Listed
  <2>2. AttachmentsFromMessage(json) = AllOrNone(refs)
    BY <1>2 DEF AttachmentsFromMessage
  <2>3. Len(refs) = Len(source) /\ DOMAIN refs = 1..Len(source)
    BY <2>1
  <2>4. \A k \in 1..Len(source) : refs[k] = ExternalRefFromResponse(source[k])
    OBVIOUS
  <2>. HIDE DEF refs
  <2>5. AllOrNone(refs) = refs /\ \A k \in 1..Len(source) : refs[k] # None
    BY <2>2, <2>3, AllConverted
  <2>. HIDE DEF source
  <2>6. AttachmentsFaithful(source, refs)
    BY <1>2, <2>3, <2>4, <2>5, RefShown DEF AttachmentsFaithful, source
  <2> QED
    BY <2>2, <2>5, <2>6 DEF source
<1> QED
  BY <1>1, <1>2

LEMMA AttendeesShown ==
    ASSUME NEW json, Listed(json.attendees)
    PROVE  AttendeesFaithful(json.attendees, AttendeesFromEvent(json))
<1>1. CASE json.attendees = None
  <2>. DEFINE at == [k \in 1..0 |-> k]
  <2>1. AttendeesFromEvent(json) = <<>> /\ Len(<<>>) = 0 /\ 1..0 = {}
    BY <1>1 DEF AttendeesFromEvent
  <2>2. at \in [1..Len(<<>>) -> 1..Len(<<>>)]
    BY <2>1
  <2>. HIDE DEF at
  <2>3. AttendeesFaithful(None, <<>>)
    BY <2>1, <2>2 DEF AttendeesFaithful
  <2> QED
    BY <1>1, <2>1, <2>3
<1>2. CASE json.attendees # None
  <2>. DEFINE people == json.attendees
              emails == [i \in 1..Len(people) |-> GraphEmail(people[i])]
              told == ToSet(emails) \ {None}
              shown_ == Kept(emails, told)
  <2>1. people \in Seq(ToSet(people))
    BY <1>2 DEF Listed
  <2>2. AttendeesFromEvent(json) = shown_
    BY <1>2 DEF AttendeesFromEvent
  <2>3. Len(emails) = Len(people) /\ emails \in Seq(ToSet(emails))
    <3>1. Len(people) \in Nat
      BY <2>1
    <3>2. \A i \in 1..Len(people) : emails[i] \in ToSet(emails)
      BY DEF ToSet
    <3>3. emails = [i \in 1..Len(people) |-> emails[i]]
      OBVIOUS
    <3>. HIDE DEF emails
    <3> QED
      BY <3>1, <3>2, <3>3
  <2>4. \A i \in 1..Len(people) :
           emails[i] = GraphEmail(people[i]) /\ (emails[i] \in told <=> Reachable(people[i]))
    <3>1. \A i \in 1..Len(people) : emails[i] = GraphEmail(people[i]) /\ emails[i] \in ToSet(emails)
      BY DEF ToSet
    <3>. HIDE DEF emails
    <3> QED
      BY <3>1, ContactShown
  <2>5. PICK at : Placed(shown_, emails, told, Len(people), at)
    BY <2>3, KeptPlaces
  <2>. HIDE DEF emails, told, shown_, people
  <2>6. /\ at \in [1..Len(shown_) -> 1..Len(people)]
        /\ \A j, k \in 1..Len(shown_) : j < k => at[j] < at[k]
        /\ \A i \in 1..Len(people) : Reachable(people[i]) => \E k \in 1..Len(shown_) : at[k] = i
    BY <2>4, <2>5 DEF Placed
  <2>7. ASSUME NEW k \in 1..Len(shown_)
        PROVE  /\ Reachable(people[at[k]])
               /\ Shows(shown_[k], None, people[at[k]].address, people[at[k]].name)
    <3>1. at[k] \in 1..Len(people) /\ shown_[k] = emails[at[k]] /\ emails[at[k]] \in told
      BY <2>5 DEF Placed
    <3>2. Reachable(people[at[k]]) /\ shown_[k] = GraphEmail(people[at[k]])
      BY <2>4, <3>1
    <3> QED
      BY <3>2, ContactShown
  <2>8. AttendeesFaithful(people, shown_)
    BY <1>2, <2>6, <2>7 DEF AttendeesFaithful, people
  <2> QED
    BY <2>2, <2>8 DEF people
<1> QED
  BY <1>1, <1>2

LEMMA MailMade ==
    ASSUME NEW json, NEW record, RecordMade("mail", json, record)
    PROVE  MailFaithful(json, record)
<1>1. /\ record = MessageFromJson(json) /\ record # None
      /\ Timed(json.received) /\ Listed(json.attachments)
  BY DEF RecordMade, RecordTyped
<1>2. /\ record.id = json.id /\ record.received = ParseGraphDatetime(json.received)
      /\ record.subject = OrElse(OptionalText(json.subject), "")
      /\ record.from = OrElse(GraphEmail(json.from), "")
      /\ record.preview = OrElse(OptionalText(json.preview), "")
      /\ record.attachments = AttachmentsFromMessage(json)
      /\ AttachmentsFromMessage(json) # None
      /\ json.received = None \/ ParseGraphDatetime(json.received) # None
  BY <1>1 DEF MessageFromJson
<1>3. /\ json.received = None <=> record.received = None
      /\ json.received # None => record.received = TrueInstant(json.received)
  BY <1>1, <1>2, ParsedTrue, UnreadTime
<1>4. /\ Shows(record.subject, "", json.subject, None)
      /\ Shows(record.preview, "", json.preview, None)
  BY <1>2, TextShown
<1>5. IF json.from = None THEN record.from = ""
      ELSE Shows(record.from, "", json.from.address, json.from.name)
  BY <1>2, ContactShown
<1>6. AttachmentsFaithful(json.attachments, record.attachments)
  BY <1>1, <1>2, AttachmentsShown
<1> QED
  BY <1>2, <1>3, <1>4, <1>5, <1>6, Zenon DEF MailFaithful

LEMMA EventMade ==
    ASSUME NEW json, NEW record, RecordMade("calendar-event", json, record)
    PROVE  EventFaithful(json, record)
<1>1. /\ record = CalendarEventFromJson(json) /\ record # None
      /\ Timed(json.start) /\ Timed(json.end) /\ Listed(json.attendees)
  BY DEF RecordMade, RecordTyped
<1>2. /\ record.id = json.id /\ record.starts = ParseGraphDatetime(json.start)
      /\ record.ends = ParseGraphDatetime(json.end)
      /\ record.subject = OrElse(OptionalText(json.subject), "")
      /\ record.attendees = AttendeesFromEvent(json)
      /\ ParseGraphDatetime(json.start) # None /\ ParseGraphDatetime(json.end) # None
  BY <1>1 DEF CalendarEventFromJson, CalendarEvent
<1>3. record.starts = TrueInstant(json.start) /\ record.ends = TrueInstant(json.end)
  BY <1>1, <1>2, ParsedTrue
<1>4. Shows(record.subject, "", json.subject, None)
  BY <1>2, TextShown
<1>5. AttendeesFaithful(json.attendees, record.attendees)
  BY <1>1, <1>2, AttendeesShown
<1> QED
  BY <1>2, <1>3, <1>4, <1>5, Zenon DEF EventFaithful

LEMMA DriveMade ==
    ASSUME NEW json, NEW record, RecordMade("drive", json, record)
    PROVE  ChildFaithful(json, record)
<1>1. PICK target : record = DriveItemRef(target, json) /\ record # None
  BY DEF RecordMade
<1>2. /\ record = ExternalRef("site/sharepoint", <<target.site, target.drive, json.id>>,
                              ItemEtag(json), json.url)
      /\ ItemEtag(json) # None
  BY <1>1 DEF DriveItemRef
<1>3. ItemEtag(json) \in {json.etag, json.odata}
  BY DEF ItemEtag, OrElse
<1> QED
  BY <1>2, <1>3 DEF ExternalRef, ChildFaithful

\* A document gives back the message it was made of.
LEMMA MailReturned ==
    ASSUME NEW json, NEW record, RecordMade("mail", json, record), MailToDoc(record) # None
    PROVE  DocToMail(MailToDoc(record)) = record
<1>1. record = MessageFromJson(json) /\ record # None /\ Timed(json.received)
  BY DEF RecordMade, RecordTyped
<1>2. PICK id, subject, from, received, preview, attachments :
         record = [kind |-> "mail", id |-> id, subject |-> subject, from |-> from,
                   received |-> received, preview |-> preview, attachments |-> attachments]
  BY <1>1 DEF MessageFromJson
<1>3. record.received = None \/ record.received \in Int
  <2>1. record.received = ParseGraphDatetime(json.received)
    BY <1>1 DEF MessageFromJson
  <2> QED
    BY <1>1, <2>1, ParsedTrue
<1>4. received = None \/ received \in Int
  BY <1>2, <1>3
<1>. DEFINE time == IF received = None THEN None ELSE DatetimeExpr(received)
            body == [kind |-> "mail", id |-> id, subject |-> subject, from |-> from,
                     received |-> time, preview |-> preview, attachments |-> attachments]
<1>5. received # None => time # None /\ DatetimeFromExpr(time) = received
  <2>1. ASSUME received # None PROVE time # None /\ DatetimeFromExpr(time) = received
    <3>1. time = [form |-> "offset", minutes |-> received, zone |-> None] /\ received \in Int
      BY <1>4, <2>1 DEF DatetimeExpr
    <3>2. time \in [form : {"offset"}, minutes : Int, zone : {None}]
      BY <3>1
    <3>. HIDE DEF time
    <3> QED
      BY <3>1, <3>2, NoneAssumption DEF DatetimeFromExpr
  <2> QED
    BY <2>1
<1>6. MailToDoc(record) = [kind |-> "mail", id |-> record.id, body |-> body]
  <2>1. MailToDoc(record) =
           [kind |-> "mail", id |-> record.id,
            body |-> [record EXCEPT !.received = IF @ = None THEN None ELSE DatetimeExpr(@)]]
    BY DEF MailToDoc
  <2>2. [record EXCEPT !.received = IF @ = None THEN None ELSE DatetimeExpr(@)] = body
    BY <1>2
  <2> QED
    BY <2>1, <2>2
<1>. HIDE DEF time
<1>7. received = None => time = None
  BY DEF time
<1>8. DocToMail(MailToDoc(record)) =
         [body EXCEPT !.received = IF @ = None THEN None ELSE DatetimeFromExpr(@)]
  <2>. HIDE DEF body
  <2> QED
    BY <1>6 DEF DocToMail
<1>9. [body EXCEPT !.received = IF @ = None THEN None ELSE DatetimeFromExpr(@)] = record
  BY <1>2, <1>5, <1>7
<1> QED
  BY <1>8, <1>9

LEMMA EventReturned ==
    ASSUME NEW json, NEW record, RecordMade("calendar-event", json, record),
           CalendarEventToDoc(record) # None
    PROVE  DocToCalendarEvent(CalendarEventToDoc(record)) = record
<1>1. record = CalendarEventFromJson(json) /\ record # None
  BY DEF RecordMade
<1>2. PICK id, subject, starts, ends, attendees :
         record = CalendarEvent(id, subject, starts, ends, attendees)
  BY <1>1 DEF CalendarEventFromJson
<1>3. \A minutes : DatetimeFromExpr(DatetimeExpr(minutes)) = minutes
  BY DEF DatetimeFromExpr, DatetimeExpr
<1>4. /\ record.id = id /\ record.subject = subject /\ record.starts = starts
      /\ record.ends = ends /\ record.attendees = attendees
  BY <1>2 DEF CalendarEvent
<1>. DEFINE body == CalendarEvent(id, subject, DatetimeExpr(starts), DatetimeExpr(ends), attendees)
<1>5. CalendarEventToDoc(record) = [kind |-> "calendar-event", id |-> id, body |-> body]
  BY <1>4 DEF CalendarEventToDoc
<1>6. /\ body.id = id /\ body.subject = subject /\ body.starts = DatetimeExpr(starts)
      /\ body.ends = DatetimeExpr(ends) /\ body.attendees = attendees
  BY DEF CalendarEvent
<1>. HIDE DEF body
<1>7. DocToCalendarEvent(CalendarEventToDoc(record)) =
         CalendarEvent(id, subject, DatetimeFromExpr(DatetimeExpr(starts)),
                       DatetimeFromExpr(DatetimeExpr(ends)), attendees)
  BY <1>5, <1>6 DEF DocToCalendarEvent
<1> QED
  BY <1>2, <1>3, <1>7

(***************************************************************************)
(* Readings                                                                *)
(***************************************************************************)
RecordsMade(kind, source, made) ==
    /\ \E S : source \in Seq(S)
    /\ Len(made) = Len(source) /\ DOMAIN made = 1..Len(source)
    /\ \A i \in 1..Len(source) : RecordMade(kind, source[i], made[i])

DocsMade(kind, made) ==
    docs = [i \in 1..Len(made) |-> IF kind = "mail" THEN MailToDoc(made[i])
                                    ELSE CalendarEventToDoc(made[i])]

ReadingsInv ==
    /\ reading.records # None =>
          /\ reading.kind \in {"mail", "calendar-event", "drive"}
          /\ RecordsMade(reading.kind, reading.source, reading.records)
    /\ \/ docs = <<>>
       \/ /\ reading.records # None /\ reading.kind # "drive"
          /\ DocsMade(reading.kind, reading.records)

LEMMA SourceTyped ==
    ASSUME NEW kind, NEW body, BodyTyped(kind, body), body.value # None
    PROVE  /\ body.value \in Seq(ToSet(body.value))
           /\ \A i \in 1..Len(body.value) : RecordTyped(kind, body.value[i])
<1>1. body.value \in Seq(ToSet(body.value)) /\ \A json \in ToSet(body.value) : RecordTyped(kind, json)
  BY DEF BodyTyped
<1>2. \A i \in 1..Len(body.value) : body.value[i] \in ToSet(body.value)
  BY <1>1 DEF ToSet
<1> QED
  BY <1>1, <1>2

\* The records of a response, converted one by one.
LEMMA Converted ==
    ASSUME NEW kind, NEW body, BodyTyped(kind, body), body.value # None,
           NEW made, DOMAIN made = 1..Len(body.value),
           made = [i \in 1..Len(body.value) |-> made[i]],
           \A i \in 1..Len(body.value) :
              made[i] # None /\ RecordTyped(kind, body.value[i]) =>
                 RecordMade(kind, body.value[i], made[i]),
           AllOrNone(made) # None
    PROVE  RecordsMade(kind, body.value, AllOrNone(made))
<1>1. /\ body.value \in Seq(ToSet(body.value))
      /\ \A i \in 1..Len(body.value) : RecordTyped(kind, body.value[i])
  BY SourceTyped
<1>2. Len(made) = Len(body.value)
  BY <1>1
<1> QED
  BY <1>1, <1>2, AllConverted DEF RecordsMade

LEMMA ReadRecords ==
    ASSUME NEW kind \in {"mail", "calendar-event", "drive"}, NEW target, NEW answer,
           answer.ok => BodyTyped(kind, answer.body),
           NEW made,
           made = CASE kind = "mail" -> ReadMessages(answer)
                       [] kind = "calendar-event" -> ReadCalendarEvents(answer)
                       [] kind = "drive" -> DriveChildren(target, answer),
           made # None
    PROVE  answer.ok /\ RecordsMade(kind, answer.body.value, made)
<1>. DEFINE source == answer.body.value
<1>1. CASE kind = "mail"
  <2>. DEFINE all == [i \in 1..Len(source) |-> MessageFromJson(source[i])]
  <2>1. made = ReadMessages(answer)
    BY <1>1, Zenon
  <2>2. answer.ok /\ source # None /\ made = AllOrNone(all)
    BY <2>1 DEF ReadMessages
  <2>3. \A i \in 1..Len(source) :
           all[i] # None /\ RecordTyped(kind, source[i]) => RecordMade(kind, source[i], all[i])
    BY <1>1 DEF RecordMade
  <2>4. DOMAIN all = 1..Len(source) /\ all = [i \in 1..Len(source) |-> all[i]]
    OBVIOUS
  <2>. HIDE DEF all
  <2>5. answer.ok /\ AllOrNone(all) # None /\ BodyTyped(kind, answer.body)
    BY <2>2
  <2>6. RecordsMade(kind, source, AllOrNone(all))
    BY <2>2, <2>3, <2>4, <2>5, Converted
  <2> QED
    BY <2>2, <2>6
<1>2. CASE kind = "calendar-event"
  <2>. DEFINE all == [i \in 1..Len(source) |-> CalendarEventFromJson(source[i])]
  <2>1. made = ReadCalendarEvents(answer)
    BY <1>2, Zenon
  <2>2. answer.ok /\ source # None /\ made = AllOrNone(all)
    BY <2>1 DEF ReadCalendarEvents
  <2>3. \A i \in 1..Len(source) :
           all[i] # None /\ RecordTyped(kind, source[i]) => RecordMade(kind, source[i], all[i])
    BY <1>2 DEF RecordMade
  <2>4. DOMAIN all = 1..Len(source) /\ all = [i \in 1..Len(source) |-> all[i]]
    OBVIOUS
  <2>. HIDE DEF all
  <2>5. answer.ok /\ AllOrNone(all) # None /\ BodyTyped(kind, answer.body)
    BY <2>2
  <2>6. RecordsMade(kind, source, AllOrNone(all))
    BY <2>2, <2>3, <2>4, <2>5, Converted
  <2> QED
    BY <2>2, <2>6
<1>3. CASE kind = "drive"
  <2>. DEFINE all == [i \in 1..Len(source) |-> DriveItemRef(target, source[i])]
  <2>1. made = DriveChildren(target, answer)
    BY <1>3, Zenon
  <2>2. answer.ok /\ source # None /\ made = AllOrNone(all)
    BY <2>1 DEF DriveChildren
  <2>3. \A i \in 1..Len(source) :
           all[i] # None /\ RecordTyped(kind, source[i]) => RecordMade(kind, source[i], all[i])
    BY <1>3 DEF RecordMade
  <2>4. DOMAIN all = 1..Len(source) /\ all = [i \in 1..Len(source) |-> all[i]]
    OBVIOUS
  <2>. HIDE DEF all
  <2>5. answer.ok /\ AllOrNone(all) # None /\ BodyTyped(kind, answer.body)
    BY <2>2
  <2>6. RecordsMade(kind, source, AllOrNone(all))
    BY <2>2, <2>3, <2>4, <2>5, Converted
  <2> QED
    BY <2>2, <2>6
<1> QED
  BY <1>1, <1>2, <1>3

LEMMA ReadReadings ==
    ASSUME ScenarioChosen, NEW mode \in Scenario[scenario].modes, NEW r \in Scenario[scenario].readings,
           Read(r.kind, mode, r.target, r.response)
    PROVE  ReadingsInv'
<1>. DEFINE path == ReadPath(r.kind, r.target)
            answer == GraphGet(mode, granted, path, r.response)
            made == CASE r.kind = "mail" -> ReadMessages(answer)
                         [] r.kind = "calendar-event" -> ReadCalendarEvents(answer)
                         [] r.kind = "drive" -> DriveChildren(r.target, answer)
<1>1. /\ reading' = [kind |-> r.kind, source |-> IF answer.ok THEN answer.body.value ELSE None,
                     records |-> made]
      /\ docs' = <<>>
  BY Zenon DEF Read
<1>2. /\ r.kind \in {"mail", "calendar-event", "drive"} /\ ResponseTyped(r.kind, r.response)
      /\ CassetteTyped(r.kind, mode, path)
  BY ReadingsAssumption, Zenon DEF ScenarioChosen
<1>3. answer.ok => BodyTyped(r.kind, answer.body)
  BY <1>2, AnswerTyped
<1>4. PICK all : all = made
  OBVIOUS
<1>5. all # None => answer.ok /\ RecordsMade(r.kind, answer.body.value, all)
  <2>. HIDE DEF answer
  <2> QED
    BY <1>2, <1>3, <1>4, ReadRecords, Zenon
<1>. HIDE DEF answer, made
<1>6. /\ reading'.kind = r.kind /\ reading'.records = all
      /\ answer.ok => reading'.source = answer.body.value
  BY <1>1, <1>4
<1>7. reading'.records # None => RecordsMade(reading'.kind, reading'.source, reading'.records)
  BY <1>5, <1>6
<1> QED
  BY <1>1, <1>2, <1>6, <1>7 DEF ReadingsInv, RecordsMade, RecordMade

\* What a step that reads nothing leaves of the readings.
LEMMA ReadingsStay ==
    ASSUME ReadingsInv, UNCHANGED records PROVE ReadingsInv'
<1>1. reading' = reading /\ docs' = docs
  BY DEF records
<1> QED
  BY <1>1 DEF ReadingsInv, DocsMade

LEMMA KeepReadings ==
    ASSUME ReadingsInv, Keep PROVE ReadingsInv'
<1>1. /\ reading' = reading /\ reading.records # None /\ reading.kind # "drive"
      /\ docs' = [i \in 1..Len(reading.records) |->
                     IF reading.kind = "mail" THEN MailToDoc(reading.records[i])
                                              ELSE CalendarEventToDoc(reading.records[i])]
  BY DEF Keep
<1> QED
  BY <1>1 DEF ReadingsInv, DocsMade

LEMMA ReadingsStep ==
    ASSUME ReadingsInv, ScenarioChosen, [Next]_vars PROVE ReadingsInv'
<1>1. ASSUME NEW mode \in Scenario[scenario].modes, NEW r \in Scenario[scenario].readings,
             Read(r.kind, mode, r.target, r.response)
      PROVE  ReadingsInv'
  BY <1>1, ReadReadings
<1>2. CASE Keep
  BY <1>2, KeepReadings
<1>3. CASE UNCHANGED records
  BY <1>3, ReadingsStay
<1> QED
  BY <1>1, <1>2, <1>3, RecordsKept DEF Next, vars

\* Every record of a reading is faithful to what it was read from.
LEMMA RecordsFaithful ==
    ASSUME NEW kind \in {"mail", "calendar-event", "drive"}, NEW source, NEW all,
           RecordsMade(kind, source, all)
    PROVE  /\ Len(all) = Len(source)
           /\ \A i \in 1..Len(source) : RecordFaithful(kind, source[i], all[i])
<1>1. Len(all) = Len(source) /\ \A i \in 1..Len(source) : RecordMade(kind, source[i], all[i])
  BY DEF RecordsMade
<1>2. ASSUME NEW json, NEW record, RecordMade(kind, json, record)
      PROVE  RecordFaithful(kind, json, record)
  <2>1. CASE kind = "mail"
    BY <1>2, <2>1, MailMade, Zenon DEF RecordFaithful
  <2>2. CASE kind = "calendar-event"
    BY <1>2, <2>2, EventMade, Zenon DEF RecordFaithful
  <2>3. CASE kind = "drive"
    <3>1. ChildFaithful(json, record)
      BY <1>2, <2>3, DriveMade
    <3>2. kind # "mail" /\ kind # "calendar-event"
      BY <2>3
    <3> QED
      BY <2>3, <3>1, <3>2, Zenon DEF RecordFaithful
  <2> QED
    BY <2>1, <2>2, <2>3
<1> QED
  BY <1>1, <1>2

LEMMA DocsFaithful ==
    ASSUME ReadingsInv, NEW i \in 1..Len(docs), docs[i] # None
    PROVE  reading.records[i] = IF reading.kind = "mail" THEN DocToMail(docs[i])
                                                         ELSE DocToCalendarEvent(docs[i])
<1>. DEFINE all == reading.records
<1>1. docs # <<>>
  OBVIOUS
<1>2. /\ all # None /\ reading.kind \in {"mail", "calendar-event"}
      /\ RecordsMade(reading.kind, reading.source, all) /\ DocsMade(reading.kind, all)
  BY <1>1 DEF ReadingsInv
<1>. HIDE DEF all
<1>3. Len(all) \in Nat /\ Len(all) = Len(reading.source)
  BY <1>2 DEF RecordsMade
<1>4. i \in 1..Len(all) /\ docs[i] = IF reading.kind = "mail" THEN MailToDoc(all[i])
                                                              ELSE CalendarEventToDoc(all[i])
  BY <1>2, <1>3 DEF DocsMade
<1>5. RecordMade(reading.kind, reading.source[i], all[i])
  BY <1>2, <1>3, <1>4 DEF RecordsMade
<1> QED
  BY <1>2, <1>4, <1>5, MailReturned, EventReturned DEF all

LEMMA InvFaithful == ListsInv /\ ReadingsInv => ReadingsFaithful
<1> SUFFICES ASSUME ListsInv, ReadingsInv PROVE ReadingsFaithful
  OBVIOUS
<1>1. list.sheet # None => ListFaithful(list.items, list.sheet)
  BY SheetFaithful DEF ListsInv
<1>2. reading.records # None =>
         /\ Len(reading.records) = Len(reading.source)
         /\ \A i \in 1..Len(reading.source) :
               RecordFaithful(reading.kind, reading.source[i], reading.records[i])
  BY RecordsFaithful DEF ReadingsInv
<1>3. \A i \in 1..Len(docs) :
         docs[i] # None =>
            reading.records[i] = IF reading.kind = "mail" THEN DocToMail(docs[i])
                                                          ELSE DocToCalendarEvent(docs[i])
  BY DocsFaithful
<1> QED
  BY <1>1, <1>2, <1>3, Zenon DEF ReadingsFaithful

\* A reading holds every record of its response, in order, with the ids,
\* versions, fields and instants of the service, or it is refused whole; a
\* document made of a record gives it back.
THEOREM SitesReadingsFaithful == Spec => []ReadingsFaithful
<1>1. Init => ListsInv /\ ReadingsInv /\ ScenarioChosen
  BY InitLists DEF Init, ScenarioChosen, ReadingsInv, NoReading
<1>2. ListsInv /\ ReadingsInv /\ ScenarioChosen /\ [Next]_vars
        => ListsInv' /\ ReadingsInv' /\ ScenarioChosen'
  BY ScenarioKept, ListsStep, ReadingsStep DEF ScenarioChosen
<1> QED
  BY <1>1, <1>2, InvFaithful, PTL DEF Spec

================================================================================
