----------------------------- MODULE DeployView -----------------------------
(***************************************************************************)
(* The page of one deploy, web/src/app/dashboard/[projectId]/deploys/      *)
(* [deployId]/page.tsx, with its log: hooks/useLogStream.ts and, at the    *)
(* other end of the stream, stream_deploy_logs of                          *)
(* api/app/routers/deploys.py.                                             *)
(*                                                                         *)
(* fetchData has no AbortController: several calls may be in flight, and   *)
(* an old answer may replace a newer one.  The page fetches again on every *)
(* change of the status it shows, and every five seconds while that status *)
(* is not terminal.  The log comes from the stream before that, and with   *)
(* one request after it; both end without a retry.                         *)
(*                                                                         *)
(* A log is the length of what is committed of it.  Effects run with the   *)
(* answer that causes them.                                                *)
(***************************************************************************)
EXTENDS DeployStates, Naturals, Sequences

CONSTANTS
  Opening,     \* the state of the deploy when the page is opened
  NoStatus,    \* deploy is null
  None,        \* an empty slot
  Sent,        \* a request without an answer yet
  Calls,       \* slots for calls of fetchData in flight
  Requests,    \* slots for requests of the log in flight
  MaxChanges,  \* bound on the changes of the deploy
  MaxLog,      \* bound on the log
  MaxFaults    \* bound on the requests and streams that fail

ASSUME ViewAssumption ==
  /\ Opening \in DEPLOY_STATES /\ NoStatus \notin DEPLOY_STATES
  /\ None # Sent /\ {None, Sent} \cap (DEPLOY_STATES \cup {"ok", "refused"}) = {}
  /\ {None, Sent} \cap Nat = {}
  /\ Calls \subseteq Nat /\ Calls # {} /\ Requests \subseteq Nat
  /\ MaxChanges \in Nat /\ MaxLog \in Nat /\ MaxFaults \in Nat

VARIABLES
  srv,        \* the deploy: status and log
  changes,
  mounted,
  shown,      \* deploy.status as the page shows it
  error,      \* fetchData has failed once
  calls,      \* fetchData: no call, sent, or the status that was answered
  requests,   \* the log: no request, sent, or the log that was answered
  restLogs,
  streamed,   \* useLogStream: logs
  es,         \* useLogStream: an EventSource is open
  last,       \* event_generator: last_len
  serving,    \* event_generator has not returned
  pipe,       \* events on their way to the EventSource
  rolling,    \* handleRollback: not called, sent, or answered
  faults,
  unwatched,  \* history: the status changed while the page showed a terminal one
  lost        \* history: the log shown may lack lines, for a reason LogCatchesUp gives

server == <<srv, changes>>
view   == <<mounted, shown, error, calls>>
log    == <<requests, restLogs>>
stream == <<streamed, es, last, serving, pipe>>
past   == <<faults, unwatched, lost>>
vars   == <<server, view, log, stream, rolling, past>>

TERMINAL_STATUSES == {"active", "failed", "rolled_back", "stopped", "superseded"}

Terminal(st) == st \in TERMINAL_STATUSES

\* streamUrl is not null.
Streams(st) == st # NoStatus /\ ~Terminal(st)

Free(slots) == {k \in DOMAIN slots : slots[k] = None}

\* A call or a request is started.
Started(slots) == [slots EXCEPT ![CHOOSE k \in Free(slots) : TRUE] = Sent]

Init ==
  /\ srv = [st |-> Opening, log |-> 0] /\ changes = 0
  /\ mounted = TRUE /\ shown = NoStatus /\ error = FALSE
  /\ calls = Started([k \in Calls |-> None])
  /\ requests = [k \in Requests |-> None] /\ restLogs = 0
  /\ streamed = 0 /\ es = FALSE /\ last = 0 /\ serving = FALSE /\ pipe = <<>>
  /\ rolling = None
  /\ faults = 0 /\ unwatched = FALSE /\ lost = FALSE

Fault == faults < MaxFaults /\ faults' = faults + 1

-----------------------------------------------------------------------------
\* The deploy

\* A commit that shows: the executor's log, somebody's change of the status, or
\* both.  The log may grow in every status.  execute_deploy commits "active" and
\* then goes on writing, up to the commit of its caller, and it does not stop
\* for a deploy that somebody else has stopped or rolled back meanwhile.
ServerMoves ==
  /\ changes < MaxChanges /\ changes' = changes + 1
  /\ \E new \in DEPLOY_TRANSITIONS[srv.st] \cup {srv.st}, more \in 0..1 :
       /\ new # srv.st \/ more = 1
       /\ srv.log + more <= MaxLog
       /\ srv' = [st |-> new, log |-> srv.log + more]
       /\ unwatched' = (unwatched \/ (Terminal(shown) /\ new # srv.st))
       /\ lost' = (lost \/ (Terminal(shown) /\ more = 1))
  /\ UNCHANGED <<view, log, stream, rolling, faults>>

-----------------------------------------------------------------------------
\* useLogStream

\* Mutant: a URL that becomes null leaves the EventSource open.
LeavesOpen ==
  /\ streamed' = 0
  /\ UNCHANGED <<es, last, serving, pipe>>

\* close(), and the state reset
CloseStream ==
  /\ streamed' = 0
  /\ es' = FALSE /\ last' = 0 /\ serving' = FALSE /\ pipe' = <<>>

\* new EventSource(url): what was streamed stays until an event comes.
OpenStream ==
  /\ es' = TRUE /\ last' = 0 /\ serving' = TRUE /\ pipe' = <<>>
  /\ UNCHANGED streamed

\* The effect of [streamUrl]
StreamEffect(st) ==
  CASE Streams(st) /\ ~Streams(shown) -> OpenStream
    [] ~Streams(st) /\ Streams(shown) -> CloseStream
    [] OTHER                          -> UNCHANGED stream

\* One turn of event_generator: the log if it has grown, and the end.
StreamTurn ==
  /\ serving /\ pipe = <<>>
  /\ srv.log > last \/ Terminal(srv.st)
  /\ pipe' = (IF srv.log > last THEN <<[event |-> "log", logs |-> srv.log]>> ELSE <<>>)
             \o (IF Terminal(srv.st) THEN <<[event |-> "done", logs |-> srv.log]>> ELSE <<>>)
  /\ last' = srv.log
  /\ serving' = ~Terminal(srv.st)
  /\ UNCHANGED <<server, view, log, streamed, es, rolling, past>>

\* The stream breaks: the connection is lost, the session has ended, or
\* sse_stream_timeout_seconds have passed (the hook has no listener for the
\* event that tells so).  handleError closes the EventSource for good.
StreamBreaks ==
  /\ es /\ Fault
  /\ es' = FALSE /\ serving' = FALSE /\ pipe' = <<>>
  /\ UNCHANGED <<server, view, log, streamed, last, rolling, unwatched, lost>>

\* handleLog and handleDone
Receive ==
  /\ es /\ pipe # <<>>
  /\ streamed' = Head(pipe).logs
  /\ es' = (Head(pipe).event = "log")
  /\ pipe' = IF Head(pipe).event = "log" THEN Tail(pipe) ELSE <<>>
  /\ UNCHANGED <<server, view, log, last, serving, rolling, past>>

-----------------------------------------------------------------------------
\* fetchData and the effects of what it sets

Answer(k) ==
  /\ calls[k] = Sent
  /\ calls' = [calls EXCEPT ![k] = srv.st]
  /\ UNCHANGED <<server, mounted, shown, error, log, stream, rolling, past>>

\* Mutant: the effect does not depend on the status.
RefetchNever(st, rest) == rest

\* The effect of [deploy?.status] fetches at once, and sets a new interval.
Refetch(st, rest) == IF st # shown THEN Started(rest) ELSE rest

\* Mutant: the log is requested once, when the page is opened.
RequestAtFirst(st) == IF shown = NoStatus THEN requests' = Started(requests)
                      ELSE UNCHANGED requests

\* The effect of [deploy, isTerminal]: the log is requested for every answer.
RequestLog(st) ==
  IF Terminal(st) THEN Free(requests) # {} /\ requests' = Started(requests)
  ELSE UNCHANGED requests

Apply(k) ==
  /\ mounted /\ calls[k] \notin {None, Sent}
  /\ shown' = calls[k]
  /\ calls' = Refetch(calls[k], [calls EXCEPT ![k] = None])
  /\ StreamEffect(calls[k])
  /\ RequestLog(calls[k])
  /\ UNCHANGED <<server, mounted, error, restLogs, rolling, past>>

\* The page is replaced by the error, for good; its effects go on.
CallFails(k) ==
  /\ mounted /\ calls[k] = Sent /\ Fault
  /\ calls' = [calls EXCEPT ![k] = None]
  /\ error' = TRUE
  /\ UNCHANGED <<server, mounted, shown, log, stream, rolling, unwatched, lost>>

Tick ==
  /\ mounted /\ Streams(shown) /\ Free(calls) # {}
  /\ calls' = Started(calls)
  /\ UNCHANGED <<server, mounted, shown, error, log, stream, rolling, past>>

AnswerLog(k) ==
  /\ requests[k] = Sent
  /\ requests' = [requests EXCEPT ![k] = srv.log]
  /\ UNCHANGED <<server, view, restLogs, stream, rolling, past>>

ApplyLog(k) ==
  /\ mounted /\ requests[k] \notin {None, Sent}
  /\ restLogs' = requests[k]
  /\ requests' = [requests EXCEPT ![k] = None]
  /\ lost' = (lost \/ requests[k] < restLogs)
  /\ UNCHANGED <<server, view, stream, rolling, faults, unwatched>>

\* .catch(() => {})
LogFails(k) ==
  /\ mounted /\ requests[k] = Sent /\ Fault
  /\ requests' = [requests EXCEPT ![k] = None]
  /\ lost' = TRUE
  /\ UNCHANGED <<server, view, restLogs, stream, rolling, unwatched>>

\* displayLogs
DisplayLogs == IF Streams(shown) THEN streamed ELSE restLogs

-----------------------------------------------------------------------------
\* handleRollback and the end of the visit

Rollback ==
  /\ mounted /\ ~error /\ shown = "active" /\ rolling = None
  /\ rolling' = Sent
  /\ UNCHANGED <<server, view, log, stream, past>>

ServeRollback ==
  /\ rolling = Sent /\ changes < MaxChanges
  /\ IF srv.st = "active"
     THEN /\ srv' = [srv EXCEPT !.st = "superseded"]
          /\ changes' = changes + 1
          /\ rolling' = "ok"
     ELSE rolling' = "refused" /\ UNCHANGED server
  /\ UNCHANGED <<view, log, stream, past>>

FetchAfterRollback == Free(calls) # {} /\ calls' = Started(calls)

RollbackDone ==
  /\ mounted /\ rolling \in {"ok", "refused"}
  /\ rolling' = None
  /\ IF rolling = "ok" THEN FetchAfterRollback ELSE UNCHANGED calls
  /\ UNCHANGED <<server, mounted, shown, error, log, stream, past>>

Leave ==
  /\ mounted /\ mounted' = FALSE
  /\ calls' = [k \in Calls |-> None]
  /\ requests' = [k \in Requests |-> None]
  /\ rolling' = None
  /\ CloseStream
  /\ UNCHANGED <<server, shown, error, restLogs, past>>

Next ==
  \/ mounted /\ ServerMoves
  \/ StreamTurn \/ StreamBreaks \/ Receive
  \/ \E k \in Calls : Answer(k) \/ Apply(k) \/ CallFails(k)
  \/ Tick
  \/ \E k \in Requests : AnswerLog(k) \/ ApplyLog(k) \/ LogFails(k)
  \/ Rollback \/ ServeRollback \/ RollbackDone
  \/ Leave

\* The API answers, the browser runs callbacks and fires intervals, the stream
\* takes its turns.  The deploy and the user need not do anything.
Fairness ==
  /\ WF_vars(Tick) /\ WF_vars(StreamTurn) /\ WF_vars(Receive)
  /\ \A k \in Calls : WF_vars(Answer(k)) /\ WF_vars(Apply(k))
  /\ \A k \in Requests : WF_vars(AnswerLog(k)) /\ WF_vars(ApplyLog(k))
  /\ WF_vars(RollbackDone)

Spec == Init /\ [][Next]_vars /\ Fairness

-----------------------------------------------------------------------------
\* Properties

\* Although old answers may replace new ones, the page comes to show the status
\* of a deploy that no longer changes, and stays with it: a status that is
\* replaced by an old one is fetched again.  What it does not follow is a deploy
\* that somebody else changes while the page shows it as terminal.
SettlesOnTruth ==
  <>[](shown = srv.st \/ error \/ ~mounted \/ unwatched)

\* The whole log of a deploy that has ended is shown in the end, also when the
\* stream broke or its last events were dropped with it, unless a request of the
\* log failed, an old answer of it came after a newer one, or the log grew, or
\* the status changed, while the page showed the deploy as terminal.
LogCatchesUp ==
  <>[](\/ ~Terminal(srv.st) \/ DisplayLogs = srv.log
       \/ error \/ ~mounted \/ unwatched \/ lost)

\* An EventSource is open only for a page that shows a deploy in progress: each
\* way such a page ends closes it, so that the server's loop ends too.
StreamHasReader == es \/ serving => mounted /\ Streams(shown)
=============================================================================
