----------------------------- MODULE Interceptor -----------------------------
(***************************************************************************)
(* The interceptor of cmd/interceptor: a reverse proxy through which       *)
(* clients of the native API reach the CRDs.  Rewrite hands the request on *)
(* with a pipe as its body; a goroutine, the pump, copies the client's     *)
(* body into the pipe line by line while the API server reads it.          *)
(* ModifyResponse reads the whole response before the client gets any.     *)
(***************************************************************************)
EXTENDS PolicyStore

CONSTANTS Clients,
          Bodies,   \* the documents that clients write
          LongWords \* the words of lines beyond the 64 KiB of bufio.Scanner

ASSUME BodiesAssumption ==
  /\ Bodies \subseteq Document /\ NoSpec \notin Bodies
  /\ LongWords \subseteq Words

VARIABLES
  req,    \* req[c]: the request of client c
  seen,   \* seen[c]: the resource version c was last given, 0 for none
  writes  \* writing requests sent so far

interceptorVars == <<req, seen, writes>>
proxyVars == <<log, interceptorVars>>

native == "admissionregistration.k8s.io/v1alpha1"
crd == "admissionregistration.x-k8s.io/v1alpha1"

\* bytes.ReplaceAll, wherever the line spells the version out.
ReplaceAll(line, from, to) ==
  [line EXCEPT !.versions = {IF v = from THEN to ELSE v : v \in @}]

\* ModifyResponse: the spec that a client reads in an answer of version rv.
ModifyResponse(rv) ==
  [i \in DOMAIN Version(rv).spec |-> ReplaceAll(Version(rv).spec[i], crd, native)]

WithBody == {"Create", "Update", "Patch"}
WithoutBody == {"Get", "Delete", "DeleteCollection", "Watch"}
Reads == {"Get", "Watch"}

\* state: where the request is; in: lines the pump has still to read; out:
\* lines it has written; pump: whether the pump runs; gone: the client has
\* hung up; ok: the client is to hear that the request was accepted.
NoRequest ==
  [op |-> "none", rv |-> 0, state |-> "idle", body |-> <<>>,
   in |-> <<>>, out |-> <<>>, pump |-> FALSE, gone |-> FALSE, ok |-> FALSE]

InterceptorTypeOK ==
  /\ \A c \in Clients :
       /\ req[c].op \in WithBody \cup WithoutBody \cup {"none"}
       /\ req[c].state \in {"idle", "sent", "streaming", "responding", "answered"}
       /\ req[c].rv \in 0..MaxRV
       /\ req[c].out \in Document
       /\ req[c].pump \in BOOLEAN
  /\ seen \in [Clients -> 0..MaxRV]
  /\ writes \in 0..MaxWrites

InterceptorInit ==
  /\ req = [c \in Clients |-> NoRequest]
  /\ seen = [c \in Clients |-> 0]
  /\ writes = 0

Send(c, op, body) ==
  /\ req[c] = NoRequest
  /\ writes' = IF op \in Reads THEN writes ELSE writes + 1
  /\ writes' <= MaxWrites
  /\ req' = [req EXCEPT ![c] =
       [NoRequest EXCEPT !.op = op, !.rv = seen[c], !.state = "sent",
                         !.body = body, !.in = body, !.pump = TRUE]]
  /\ UNCHANGED <<log, seen>>

\* Rewrite: the path is renamed, and the pump started, whatever the method.
\* A client writes a document of its own, or what it has read.
Rewrite(c) ==
  \/ \E op \in WithBody, body \in Bodies : Send(c, op, body)
  \/ Version(seen[c]) # Absent /\ Send(c, "Update", ModifyResponse(seen[c]))
  \/ \E op \in WithoutBody : Send(c, op, <<>>)

\* Mutant of PumpLine: the scanner goes on after a line it cannot hold.
PumpLine_SkipsLong(c) ==
  /\ req[c].pump /\ req[c].in # <<>>
  /\ req' = [req EXCEPT ![c].in = Tail(@),
                        ![c].out = IF Head(req[c].in).word \in LongWords THEN @
                                   ELSE Append(@, ReplaceAll(Head(req[c].in), native, crd))]
  /\ UNCHANGED <<log, seen, writes>>

\* The next line is there and fits the scanner's buffer.
Scannable(c) == req[c].in # <<>> /\ Head(req[c].in).word \notin LongWords

\* A line is read, the native API version replaced wherever the line has it,
\* and written to the pipe, without the newline, which JSON can do without; if
\* the reader is closed the write fails, which the pump ignores.
PumpLine(c) ==
  /\ req[c].pump /\ Scannable(c)
  /\ req' = [req EXCEPT ![c].in = Tail(@),
                        ![c].out = Append(@, ReplaceAll(Head(req[c].in), native, crd))]
  /\ UNCHANGED <<log, seen, writes>>

PumpReturns(c) ==
  req' = [req EXCEPT ![c] = IF @.state = "answered" THEN NoRequest
                            ELSE [@ EXCEPT !.pump = FALSE]]

\* Mutant of PumpEnd: the loop is left at the end of the body only, and
\* otherwise goes round.
PumpEnd_AtEOF(c) ==
  /\ req[c].pump
  /\ ~Scannable(c)
  /\ IF req[c].in = <<>> THEN PumpReturns(c) ELSE UNCHANGED req
  /\ UNCHANGED <<log, seen, writes>>

\* Scan returns false at the end of the body, at a line that is too long, and
\* when the client has hung up or the proxy has closed the body; the pipe is
\* closed as if the body had ended.
PumpEnd(c) ==
  /\ req[c].pump
  /\ ~Scannable(c) \/ req[c].gone \/ req[c].state = "answered"
  /\ PumpReturns(c)
  /\ UNCHANGED <<log, seen, writes>>

\* A JSON document that is cut short does not decode; one with lines missing
\* in the middle may, as something else.
Cut(c) == Len(req[c].out) < Len(req[c].body) /\ req[c].in # <<>>

Outcome(c) ==
  LET r == req[c] IN
  IF Cut(c) THEN Refused("BadRequest") ELSE
  CASE r.op = "Create" -> Create(r.out)
    [] r.op = "Update" -> Update(r.out, r.rv)
    [] r.op = "Patch" -> Patch(r.out)
    [] r.op = "Delete" -> Delete
    [] r.op = "DeleteCollection" -> DeleteCollection
    [] OTHER -> Get

\* The API server handles the request once it has all of the body.
Serve(c) ==
  /\ req[c].state = "sent"
  /\ req[c].op # "Watch"
  /\ ~req[c].pump
  /\ Commit(Outcome(c))
  /\ req' = [req EXCEPT ![c] =
       [NoRequest EXCEPT !.op = req[c].op, !.state = "responding", !.rv = Len(log'),
                         !.ok = Outcome(c).reply = "ok" /\ ~req[c].gone]]
  /\ UNCHANGED <<seen, writes>>

\* It may refuse a request early, and drops one whose client has gone.
Reject(c) ==
  /\ req[c].state = "sent"
  /\ req' = [req EXCEPT ![c] =
       [NoRequest EXCEPT !.op = req[c].op, !.state = "responding", !.in = req[c].in,
                         !.pump = req[c].pump, !.gone = req[c].gone]]
  /\ UNCHANGED <<log, seen, writes>>

\* The response to a watch has a beginning and, until the API server ends the
\* watch, no end.
ServeWatch(c) ==
  /\ req[c].state = "sent"
  /\ req[c].op = "Watch"
  /\ req' = [req EXCEPT ![c].state = "streaming"]
  /\ UNCHANGED <<log, seen, writes>>

WatchEnds(c) ==
  /\ req[c].state = "streaming"
  /\ req' = [req EXCEPT ![c].state = "responding", ![c].ok = ~req[c].gone]
  /\ UNCHANGED <<log, seen, writes>>

\* The client gives up, while its request may still be on its way (a client
\* that gives up later sees no more of it than AnswerFails tells).
HangUp(c) ==
  /\ req[c].state \in {"sent", "streaming"} /\ ~req[c].gone
  /\ req' = [req EXCEPT ![c].gone = TRUE]
  /\ UNCHANGED <<log, seen, writes>>

\* The handler returns; its pump may outlive it.
Return(c) ==
  req' = [req EXCEPT ![c] = IF @.pump THEN [@ EXCEPT !.state = "answered"] ELSE NoRequest]

\* ModifyResponse has read the response, replaces the API version in it and
\* lets it pass.
Answer(c) ==
  /\ req[c].state = "responding"
  /\ seen' = [seen EXCEPT ![c] = IF req[c].ok THEN req[c].rv ELSE @]
  /\ Return(c)
  /\ UNCHANGED <<log, writes>>

\* Reading the response fails, as it does for a watch when the client hangs
\* up: the client gets an error whatever was done.
AnswerFails(c) ==
  /\ req[c].state = "responding" \/ (req[c].state = "streaming" /\ req[c].gone)
  /\ Return(c)
  /\ UNCHANGED <<log, seen, writes>>

Pump(c) == PumpLine(c) \/ PumpEnd(c)
Respond(c) == Answer(c) \/ AnswerFails(c)

InterceptorNext ==
  \E c \in Clients : \/ Rewrite(c) \/ HangUp(c) \/ Pump(c) \/ Respond(c)
                     \/ Serve(c) \/ Reject(c) \/ ServeWatch(c) \/ WatchEnds(c)

\* The goroutines of the proxy go on, so a client that has not hung up is
\* assumed to send the rest of its body; and the API server handles what it
\* has received in full; nothing makes it end a watch.
InterceptorFairness ==
  \A c \in Clients : WF_proxyVars(Pump(c) \/ Serve(c) \/ Respond(c))

=============================================================================
