--------------------------- MODULE LibreOfficeHelper ---------------------------
(***************************************************************************)
(* One exchange with the LibreOffice helper: helper.rs of                  *)
(* sim-site-libreoffice.  The helper is a process that the port spawns,    *)
(* stops and waits for, or one that runs already and is reached over IPC.  *)
(***************************************************************************)
EXTENDS DocSites

\* A path below one of the roots; commands open an input or export an output.
HelperPath(root, name) == [root |-> root, name |-> name]
OpenCommand(path) == [op |-> "open", doc |-> None, path |-> path]
ExportPdf(doc, out) == [op |-> "export_pdf", doc |-> doc, path |-> out]

\* The configuration: budgets, the helper's path, whether the port can take
\* the names in it, and how the helper is reached.
Config(timeout, output, helper, nameable, transport) ==
    [timeout |-> timeout, output |-> output, helper |-> helper, nameable |-> nameable,
     transport |-> transport]

Failed(error) == [error |-> error, external |-> None]

\* validate_site: budgets above zero, the helper below its root, an input
\* below the input root, an output below the output root.
SiteRefusal(config, command) ==
    CASE 0 \in {config.timeout, config.output} -> "refused"
      [] 0 \notin {config.timeout, config.output} /\ config.helper.root # "helper" -> "missing"
      [] OTHER -> IF command.path.root # (IF command.op = "open" THEN "input" ELSE "output")
                  THEN "refused" ELSE "none"

\* into_result: an error of the helper, a reply without an id, or a reference;
\* a reply that is no JSON is None.
IntoResult(reply) ==
    IF reply = None THEN Failed("refused")
    ELSE IF reply.error \/ reply.id = None THEN Failed("refused")
    ELSE [error |-> "none",
          external |-> [backend |-> IF reply.backend = None THEN "site/libreoffice"
                                                            ELSE reply.backend,
                        external_id |-> reply.id, version |-> reply.version,
                        web_url |-> reply.url]]

\* Mutant of ProcessReceipt: what is unknown is told as not dispatched.
ProcessReceiptUnknownMissing(attempt) ==
    CASE attempt.kind = "completed" -> "none"
      [] attempt.kind \in {"spawn_failed", "unknown"} -> "missing"
      [] attempt.kind = "stopped_after_timeout" -> "timeout"
      [] OTHER -> "refused"

\* process_receipt: "none" for an exchange that was completed.
ProcessReceipt(attempt) ==
    CASE attempt.kind = "completed" -> "none"
      [] attempt.kind = "spawn_failed" -> "missing"
      [] attempt.kind = "stopped_after_timeout" -> "timeout"
      [] OTHER -> "refused"

\* The IPC branch: connecting, setting the timeout, writing, flushing and
\* reading a line can fail, each in ways of its own.
IpcReceipt(attempt) ==
    CASE attempt.kind \in {"not_found", "connection_refused", "unsupported"} -> "unavailable"
      [] attempt.kind \in {"connect_timed_out", "read_timed_out"} -> "timeout"
      [] attempt.kind = "connect_failed" -> "refused"
      [] attempt.kind \in {"timeout_unset", "write_failed", "flush_failed", "read_failed"} ->
            "unavailable"
      [] attempt.kind = "completed" -> "none"

\* What stops an exchange before the port is asked.
HelperRefusal(config, command, granted) ==
    CASE SiteRefusal(config, command) # "none" -> SiteRefusal(config, command)
      [] SiteRefusal(config, command) = "none" /\ config.transport = "process" ->
            IF ProcessSpawn \notin granted THEN "denied"
            ELSE IF ~config.nameable THEN "refused"
            ELSE "none"
      [] OTHER -> "none"

\* run_uno, on what the port made of the request.
RunUno(config, command, granted, attempt) ==
    LET received == IF config.transport = "process" THEN ProcessReceipt(attempt)
                                                    ELSE IpcReceipt(attempt)
    IN IF HelperRefusal(config, command, granted) # "none"
       THEN Failed(HelperRefusal(config, command, granted))
       ELSE IF received # "none" THEN Failed(received)
       ELSE IF config.transport = "process" /\ attempt.exit # 0 THEN Failed("refused")
       ELSE IntoResult(attempt.reply)
===============================================================================
