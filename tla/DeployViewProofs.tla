--------------------------- MODULE DeployViewProofs ---------------------------
(***************************************************************************)
(* Proofs about DeployView, for any number of calls in flight and any      *)
(* bounds.                                                                 *)
(***************************************************************************)
EXTENDS DeployView, TLAPS

\* The effect of [streamUrl] leaves a stream open only for a status that has
\* one.
LEMMA EffectHasReader ==
  ASSUME StreamHasReader, NEW st, StreamEffect(st), mounted, es' \/ serving'
  PROVE  Streams(st)
<1>1. CASE Streams(st) /\ ~Streams(shown)
  BY <1>1
<1>2. CASE ~Streams(st) /\ Streams(shown)
  BY <1>2 DEF StreamEffect, CloseStream
<1>3. CASE Streams(st) <=> Streams(shown)
  <2>1. UNCHANGED <<es, serving>>
    BY <1>3 DEF StreamEffect, stream
  <2> QED
    BY <1>3, <2>1 DEF StreamHasReader
<1> QED
  BY <1>1, <1>2, <1>3

\* An EventSource, and the server's loop behind it, never outlives a page that
\* shows a deploy in progress.
THEOREM StreamsAreRead == Spec => []StreamHasReader
<1>1. Init => StreamHasReader
  BY DEF Init, StreamHasReader
<1>2. StreamHasReader /\ [Next]_vars => StreamHasReader'
  <2> SUFFICES ASSUME StreamHasReader, [Next]_vars
               PROVE  StreamHasReader'
    OBVIOUS
  <2>1. ASSUME UNCHANGED <<mounted, shown>>, es' \/ serving' => es \/ serving
        PROVE  StreamHasReader'
    BY <2>1 DEF StreamHasReader, Streams
  <2>2. CASE StreamTurn
    BY <2>1, <2>2 DEF StreamTurn, view
  <2>3. CASE StreamBreaks
    BY <2>1, <2>3 DEF StreamBreaks, view
  <2>4. CASE Receive
    BY <2>1, <2>4 DEF Receive, view
  <2>5. ASSUME NEW k \in Calls, Apply(k)
        PROVE  StreamHasReader'
    BY <2>5, EffectHasReader DEF Apply, StreamHasReader, Streams
  <2>6. CASE Leave
    BY <2>6 DEF Leave, CloseStream, StreamHasReader
  <2>7. ASSUME UNCHANGED <<mounted, shown, stream>>
        PROVE  StreamHasReader'
    BY <2>1, <2>7 DEF stream
  <2> QED
    BY <2>2, <2>3, <2>4, <2>5, <2>6, <2>7
    DEF Next, vars, view, ServerMoves, Answer, CallFails, Tick, AnswerLog, ApplyLog, LogFails,
        Rollback, ServeRollback, RollbackDone
<1> QED
  BY <1>1, <1>2, PTL DEF Spec

-----------------------------------------------------------------------------
(* The status shown. *)

\* Nothing is lost for good: while the page shows another status than the
\* deploy has, something will make it look again.  Its interval runs, or a
\* call is on its way that is not answered yet or brings the true status, or the
\* rollback it waits for will fetch, or it has not shown anything yet.  An old
\* answer that replaces a newer one is no exception.
StaleIsRefetched ==
  \/ shown = srv.st \/ error \/ ~mounted \/ unwatched
  \/ Streams(shown) \/ rolling = "ok"
  \/ \E k \in Calls : calls[k] \in {Sent, srv.st}
  \/ shown = NoStatus /\ \E k \in Calls : calls[k] # None

ViewTyped ==
  /\ srv.st \in DEPLOY_STATES
  /\ srv \in [st : DEPLOY_STATES, log : Nat]
  /\ shown \in DEPLOY_STATES \cup {NoStatus}
  /\ calls \in [Calls -> DEPLOY_STATES \cup {None, Sent}]

\* A page without a status waits for its first answer.
FirstCall == shown # NoStatus \/ error \/ ~mounted \/ \E k \in Calls : calls[k] # None

FetchInv == ViewTyped /\ FirstCall /\ StaleIsRefetched

\* A call, or a request of the log, takes a free slot.
LEMMA StartedSends ==
  ASSUME NEW D, NEW V, NEW slots \in [D -> V], Sent \in V, Free(slots) # {}
  PROVE  /\ Started(slots) \in [D -> V]
         /\ \E k \in D : slots[k] = None /\ Started(slots) = [slots EXCEPT ![k] = Sent]
         /\ \E k \in D : Started(slots)[k] = Sent
<1> DEFINE k == CHOOSE k \in Free(slots) : TRUE
<1>1. k \in Free(slots)
  OBVIOUS
<1>2. k \in D /\ slots[k] = None
  BY <1>1 DEF Free
<1>3. Started(slots) = [slots EXCEPT ![k] = Sent]
  BY DEF Started
<1> HIDE DEF k
<1> QED
  BY <1>2, <1>3

\* A transition of the deploy leads to one of its states.
LEMMA TransitionType ==
  ASSUME NEW st \in DEPLOY_STATES
  PROVE  DEPLOY_TRANSITIONS[st] \subseteq DEPLOY_STATES
  BY DEF DEPLOY_TRANSITIONS, DEPLOY_STATES

\* Statuses, calls and the deploy keep their types.
LEMMA ViewTypedStep ==
  ASSUME ViewTyped, [Next]_vars
  PROVE  ViewTyped'
<1> DEFINE V == DEPLOY_STATES \cup {None, Sent}
<1>1. ASSUME UNCHANGED <<shown, calls>>, srv' \in [st : DEPLOY_STATES, log : Nat] PROVE ViewTyped'
  BY <1>1 DEF ViewTyped
<1>2. ASSUME UNCHANGED <<srv, shown>>, calls' \in [Calls -> V] PROVE ViewTyped'
  BY <1>2 DEF ViewTyped
<1>3. ASSUME ServerMoves PROVE srv' \in [st : DEPLOY_STATES, log : Nat] /\ UNCHANGED <<shown, calls>>
  <2>1. PICK new \in DEPLOY_TRANSITIONS[srv.st] \cup {srv.st}, more \in 0..1 :
          srv' = [st |-> new, log |-> srv.log + more]
    BY <1>3 DEF ServerMoves
  <2>2. new \in DEPLOY_STATES
    BY <2>1, TransitionType DEF ViewTyped
  <2> QED
    BY <1>3, <2>1, <2>2 DEF ViewTyped, ServerMoves, view
<1>4. ASSUME ServeRollback PROVE srv' \in [st : DEPLOY_STATES, log : Nat] /\ UNCHANGED <<shown, calls>>
  <2>1. srv' = srv \/ srv' = [srv EXCEPT !.st = "superseded"]
    BY <1>4 DEF ServeRollback, server
  <2>2. "superseded" \in DEPLOY_STATES
    BY DEF DEPLOY_STATES
  <2> QED
    BY <1>4, <2>1, <2>2 DEF ViewTyped, ServeRollback, view
<1>5. ASSUME NEW k \in Calls, Answer(k) \/ CallFails(k)
      PROVE  calls' \in [Calls -> V] /\ UNCHANGED <<srv, shown>>
  BY <1>5 DEF Answer, CallFails, ViewTyped, server
<1>6. ASSUME NEW k \in Calls, Apply(k) PROVE ViewTyped'
  <2> DEFINE rest == [calls EXCEPT ![k] = None]
  <2>1. rest \in [Calls -> V] /\ rest[k] = None
    BY DEF ViewTyped
  <2>2. Free(rest) # {}
    BY <2>1 DEF Free
  <2>3. UNCHANGED srv /\ shown' = calls[k] /\ calls' = Refetch(calls[k], rest)
    BY <1>6 DEF Apply, server
  <2>4. calls[k] \in DEPLOY_STATES
    BY <1>6 DEF Apply, ViewTyped
  <2> HIDE DEF rest
  <2>5. calls' \in [Calls -> V]
    <3>1. Started(rest) \in [Calls -> V]
      BY <2>1, <2>2, StartedSends
    <3> QED
      BY <2>1, <2>3, <3>1 DEF Refetch
  <2> QED
    BY <2>3, <2>4, <2>5 DEF ViewTyped
<1>7. ASSUME Tick \/ RollbackDone
      PROVE  calls' \in [Calls -> V] /\ UNCHANGED <<srv, shown>>
  <2>1. calls' = calls \/ (Free(calls) # {} /\ calls' = Started(calls))
    BY <1>7 DEF Tick, RollbackDone, FetchAfterRollback
  <2>2. UNCHANGED <<srv, shown>>
    BY <1>7 DEF Tick, RollbackDone, server
  <2>3. calls \in [Calls -> V] /\ Sent \in V
    BY DEF ViewTyped
  <2> HIDE DEF V
  <2>4. Free(calls) # {} => Started(calls) \in [Calls -> V]
    BY <2>3, StartedSends
  <2> QED
    BY <2>1, <2>2, <2>3, <2>4
<1>8. ASSUME Leave PROVE calls' \in [Calls -> V] /\ UNCHANGED <<srv, shown>>
  BY <1>8 DEF Leave, server
<1>9. ASSUME UNCHANGED <<srv, shown, calls>> PROVE ViewTyped'
  BY <1>9 DEF ViewTyped
<1>10. ASSUME StreamTurn \/ StreamBreaks \/ Receive PROVE UNCHANGED <<srv, shown, calls>>
  BY <1>10 DEF StreamTurn, StreamBreaks, Receive, server, view
<1>11. ASSUME NEW k \in Requests, AnswerLog(k) \/ ApplyLog(k) \/ LogFails(k)
       PROVE  UNCHANGED <<srv, shown, calls>>
  BY <1>11 DEF AnswerLog, ApplyLog, LogFails, server, view
<1>12. ASSUME Rollback \/ UNCHANGED vars PROVE UNCHANGED <<srv, shown, calls>>
  BY <1>12 DEF Rollback, vars, server, view
<1> QED
  BY <1>1, <1>2, <1>3, <1>4, <1>5, <1>6, <1>7, <1>8, <1>9, <1>10, <1>11, <1>12 DEF Next

\* What the page does with an answer: it has shown it before, or it fetches
\* again.
LEMMA ApplyRefetches ==
  ASSUME FetchInv, NEW k \in Calls, Apply(k)
  PROVE  (FirstCall /\ StaleIsRefetched)'
<1> DEFINE rest == [calls EXCEPT ![k] = None]
<1>1. /\ calls \in [Calls -> DEPLOY_STATES \cup {None, Sent}]
      /\ shown' = calls[k] /\ calls[k] \in DEPLOY_STATES /\ srv.st \in DEPLOY_STATES
      /\ UNCHANGED <<srv, error, mounted, unwatched, rolling>>
      /\ calls' = Refetch(calls[k], rest)
  BY DEF FetchInv, ViewTyped, Apply, server, past
<1>2. FirstCall'
  BY <1>1, ViewAssumption DEF FirstCall
<1>3. CASE calls[k] = shown
  <2>1. calls' = rest /\ shown' = shown
    BY <1>1, <1>3 DEF Refetch
  <2>2. \A j \in Calls \ {k} : calls'[j] = calls[j]
    BY <1>1, <2>1
  <2>3. shown # NoStatus
    BY <1>1, <1>3, ViewAssumption
  <2>4. calls[k] # Sent /\ (calls[k] = srv.st => shown' = srv'.st)
    BY <1>1, ViewAssumption
  <2>5. UNCHANGED <<srv, error, mounted, unwatched, rolling, shown>>
    BY <1>1, <2>1
  <2> QED
    BY <1>2, <2>2, <2>3, <2>4, <2>5 DEF FetchInv, StaleIsRefetched, Streams
<1>4. CASE calls[k] # shown
  <2> DEFINE V == DEPLOY_STATES \cup {None, Sent}
  <2>1. rest \in [Calls -> V] /\ Sent \in V /\ k \in Free(rest)
    BY <1>1 DEF Free
  <2>2. calls' = Started(rest)
    BY <1>1, <1>4 DEF Refetch
  <2> HIDE DEF rest, V
  <2>3. \E j \in Calls : calls'[j] = Sent
    BY <2>1, <2>2, StartedSends
  <2> QED
    BY <1>2, <2>3 DEF StaleIsRefetched
<1> QED
  BY <1>3, <1>4

\* Every step leaves something that will make a page with another status than
\* the deploy's look again.
LEMMA FetchStep == FetchInv /\ [Next]_vars => FetchInv'
<1> SUFFICES ASSUME FetchInv, [Next]_vars PROVE FetchInv'
  OBVIOUS
<1> DEFINE Goal == (FirstCall /\ StaleIsRefetched)'
<1>1. ViewTyped'
  BY ViewTypedStep DEF FetchInv
<1>2. /\ calls \in [Calls -> DEPLOY_STATES \cup {None, Sent}] /\ srv.st \in DEPLOY_STATES
      /\ FirstCall /\ StaleIsRefetched
  BY DEF FetchInv, ViewTyped
<1>3. ASSUME UNCHANGED <<srv, shown, error, mounted, unwatched, calls>>,
             rolling = "ok" => rolling' = "ok"
      PROVE  Goal
  BY <1>2, <1>3 DEF FirstCall, StaleIsRefetched, Streams
<1>4. ASSUME ServerMoves PROVE Goal
  <2>1. UNCHANGED <<shown, error, mounted, calls, rolling>>
    BY <1>4 DEF ServerMoves, view
  <2>0. PICK new \in DEPLOY_TRANSITIONS[srv.st] \cup {srv.st}, more \in 0..1 :
           /\ srv' = [st |-> new, log |-> srv.log + more]
           /\ unwatched' = (unwatched \/ (Terminal(shown) /\ new # srv.st))
    BY <1>4 DEF ServerMoves
  <2>s. srv'.st = new
    BY <2>0
  <2>2. FirstCall'
    BY <1>2, <2>1 DEF FirstCall
  <2>3. CASE Terminal(shown)
    <3>1. CASE unwatched'
      BY <2>2, <3>1 DEF StaleIsRefetched
    <3>2. CASE ~unwatched'
      <4>1. ~unwatched /\ new = srv.st
        BY <2>0, <2>3, <3>2, Zenon
      <4> QED
        BY <1>2, <2>1, <2>2, <2>s, <4>1 DEF StaleIsRefetched, Streams
    <3> QED
      BY <3>1, <3>2
  <2>4. CASE shown # NoStatus /\ ~Terminal(shown)
    <3>1. Streams(shown)'
      BY <2>1, <2>4 DEF Streams, Terminal
    <3> QED
      BY <2>2, <3>1 DEF StaleIsRefetched
  <2>5. CASE shown = NoStatus
    BY <2>1, <2>2, <2>5 DEF StaleIsRefetched, FirstCall
  <2> QED
    BY <2>3, <2>4, <2>5
<1>5. ASSUME NEW k \in Calls, Answer(k) PROVE Goal
  <2>1. calls' = [calls EXCEPT ![k] = srv.st] /\ UNCHANGED srv
    BY <1>5 DEF Answer, server
  <2>2. calls'[k] = srv'.st /\ calls'[k] # None
    BY <1>2, <2>1, ViewAssumption
  <2> QED
    BY <2>2 DEF FirstCall, StaleIsRefetched
<1>6. ASSUME NEW k \in Calls, CallFails(k) PROVE Goal
  BY <1>6 DEF CallFails, FirstCall, StaleIsRefetched
<1>7. ASSUME Tick PROVE Goal
  BY <1>7, ViewAssumption DEF Tick, FirstCall, StaleIsRefetched, Streams, Terminal
<1>8. ASSUME Rollback PROVE Goal
  BY <1>3, <1>8, ViewAssumption DEF Rollback, server, view, past
<1>9. ASSUME ServeRollback PROVE Goal
  <2>1. UNCHANGED <<shown, error, mounted, calls, unwatched>> /\ rolling = Sent
        /\ (rolling' = "ok" \/ UNCHANGED srv)
    BY <1>9 DEF ServeRollback, server, view, past
  <2>2. CASE UNCHANGED srv
    BY <1>3, <2>1, <2>2, ViewAssumption
  <2>3. CASE rolling' = "ok"
    BY <1>2, <2>1, <2>3 DEF FirstCall, StaleIsRefetched
  <2> QED
    BY <2>1, <2>2, <2>3
<1>10. ASSUME RollbackDone PROVE Goal
  <2>1. UNCHANGED <<srv, shown, error, mounted, unwatched>>
    BY <1>10 DEF RollbackDone, server, past
  <2>2. CASE rolling = "ok"
    <3>1. Free(calls) # {} /\ calls' = Started(calls)
      BY <1>10, <2>2 DEF RollbackDone, FetchAfterRollback
    <3> DEFINE V == DEPLOY_STATES \cup {None, Sent}
    <3>2. calls \in [Calls -> V] /\ Sent \in V
      BY <1>2
    <3> HIDE DEF V
    <3>3. \E j \in Calls : calls'[j] = Sent
      BY <3>1, <3>2, StartedSends
    <3> QED
      BY <3>3, ViewAssumption DEF FirstCall, StaleIsRefetched
  <2>3. CASE rolling # "ok"
    BY <1>3, <1>10, <2>1, <2>3 DEF RollbackDone
  <2> QED
    BY <2>2, <2>3
<1>11. ASSUME Leave PROVE Goal
  BY <1>11 DEF Leave, FirstCall, StaleIsRefetched
<1>12. ASSUME StreamTurn \/ StreamBreaks \/ Receive PROVE Goal
  BY <1>3, <1>12 DEF StreamTurn, StreamBreaks, Receive, server, view, past
<1>13. ASSUME NEW k \in Requests, AnswerLog(k) \/ ApplyLog(k) \/ LogFails(k) PROVE Goal
  BY <1>3, <1>13 DEF AnswerLog, ApplyLog, LogFails, server, view, past
<1>14. ASSUME UNCHANGED vars PROVE Goal
  BY <1>3, <1>14 DEF vars, server, view, past
<1>15. ASSUME NEW k \in Calls, Apply(k) PROVE Goal
  BY <1>15, ApplyRefetches
<1>16. Goal
  <2> HIDE DEF Goal
  <2> QED
    BY <1>4, <1>5, <1>6, <1>7, <1>8, <1>9, <1>10, <1>11, <1>12, <1>13, <1>14, <1>15 DEF Next
<1> QED
  BY <1>1, <1>16 DEF FetchInv

\* The page is opened with its first call on the way.
LEMMA FetchInit == Init => FetchInv
<1> SUFFICES ASSUME Init PROVE FetchInv
  OBVIOUS
<1> DEFINE none == [k \in Calls |-> None]
           V == DEPLOY_STATES \cup {None, Sent}
<1>1. none \in [Calls -> V] /\ Free(none) # {} /\ Sent \in V
  BY ViewAssumption DEF Free
<1>2. calls = Started(none)
  BY DEF Init
<1> HIDE DEF none, V
<1>3. calls \in [Calls -> V] /\ \E k \in Calls : calls[k] = Sent
  BY <1>1, <1>2, StartedSends
<1> USE DEF V
<1>4. ViewTyped
  BY <1>3, ViewAssumption DEF Init, ViewTyped
<1> QED
  BY <1>3, <1>4, ViewAssumption DEF FetchInv, FirstCall, StaleIsRefetched

\* A page whose status is not the deploy's is never at rest, unless it shows an
\* error, is gone, or somebody else changed a deploy it shows as terminal: the
\* safety half of SettlesOnTruth, for any number of calls in flight.
THEOREM StaleStatusIsRefetched == Spec => []StaleIsRefetched
<1>1. FetchInv => StaleIsRefetched
  BY DEF FetchInv
<1> QED
  BY <1>1, FetchInit, FetchStep, PTL DEF Spec

-----------------------------------------------------------------------------
(* The log shown. *)

\* A page that shows a deploy as ended shows its whole log, or a request of the
\* log will bring it, unless lines were lost: the effect requests the log for
\* every answer that brings a terminal status, and answers may overtake each
\* other.
EndedLogIsFetched ==
  mounted /\ Terminal(shown) /\ ~lost =>
    \/ DisplayLogs = srv.log
    \/ \E k \in Requests : requests[k] \in {Sent, srv.log}

\* No answer tells more of the log than there is.
LogAnswers ==
  /\ requests \in [Requests -> Nat \cup {None, Sent}]
  /\ restLogs \in Nat /\ restLogs <= srv.log
  /\ \A k \in Requests : requests[k] \notin {None, Sent} => requests[k] <= srv.log

LogInv == ViewTyped /\ LogAnswers /\ EndedLogIsFetched

\* An answer brings a status; the log is requested for a terminal one.
LEMMA ApplyRequests ==
  ASSUME LogInv, NEW k \in Calls, Apply(k)
  PROVE  (LogAnswers /\ EndedLogIsFetched)'
<1> DEFINE W == Nat \cup {None, Sent}
<1>1. /\ requests \in [Requests -> W] /\ Sent \in W
      /\ UNCHANGED <<srv, restLogs>> /\ shown' = calls[k] /\ RequestLog(calls[k])
  BY DEF LogInv, LogAnswers, Apply, server
<1>2. CASE Terminal(calls[k])
  <2>1. Free(requests) # {} /\ requests' = Started(requests)
    BY <1>1, <1>2 DEF RequestLog
  <2> HIDE DEF W
  <2>2. PICK i \in Requests : requests' = [requests EXCEPT ![i] = Sent]
    BY <1>1, <2>1, StartedSends
  <2>3. requests' \in [Requests -> W] /\ requests'[i] = Sent
    BY <1>1, <2>2
  <2>4. \A j \in Requests : requests'[j] \notin {None, Sent} => requests'[j] <= srv.log
    BY <1>1, <2>2 DEF LogInv, LogAnswers
  <2> QED
    BY <1>1, <2>3, <2>4 DEF LogInv, LogAnswers, EndedLogIsFetched, W
<1>3. CASE ~Terminal(calls[k])
  <2>1. UNCHANGED requests /\ ~Terminal(shown')
    BY <1>1, <1>3 DEF RequestLog
  <2> QED
    BY <1>1, <2>1 DEF LogInv, LogAnswers, EndedLogIsFetched
<1> QED
  BY <1>2, <1>3

\* Every step keeps the log of an ended deploy complete or on its way.
LEMMA LogStep == LogInv /\ [Next]_vars => LogInv'
<1> SUFFICES ASSUME LogInv, [Next]_vars PROVE LogInv'
  OBVIOUS
<1> DEFINE Goal == (LogAnswers /\ EndedLogIsFetched)'
<1>1. ViewTyped'
  BY ViewTypedStep DEF LogInv
<1>2. srv.log \in Nat /\ LogAnswers /\ EndedLogIsFetched
  BY DEF LogInv, ViewTyped
<1>d. /\ Terminal(shown) => DisplayLogs = restLogs
      /\ Terminal(shown') => DisplayLogs' = restLogs'
  BY DEF DisplayLogs, Streams
<1>3. ASSUME UNCHANGED <<srv, shown, mounted, lost, requests, restLogs>> PROVE Goal
  BY <1>2, <1>3, <1>d DEF LogAnswers, EndedLogIsFetched
<1>4. ASSUME ServerMoves PROVE Goal
  <2>1. UNCHANGED <<shown, mounted, requests, restLogs>>
    BY <1>4 DEF ServerMoves, view, log
  <2>2. PICK new \in DEPLOY_TRANSITIONS[srv.st] \cup {srv.st}, more \in 0..1 :
           /\ srv' = [st |-> new, log |-> srv.log + more]
           /\ lost' = (lost \/ (Terminal(shown) /\ more = 1))
    BY <1>4 DEF ServerMoves
  <2>3. srv'.log = srv.log + more /\ srv'.st = new
    BY <2>2
  <2>4. LogAnswers'
    BY <1>2, <2>1, <2>3 DEF LogAnswers
  <2>5. CASE more = 0
    <3>1. srv'.log = srv.log
      BY <1>2, <2>3, <2>5
    <3>2. lost => lost'
      BY <2>2, Zenon
    <3> QED
      BY <1>2, <1>d, <2>1, <2>4, <3>1, <3>2 DEF EndedLogIsFetched
  <2>6. CASE more = 1
    <3>1. Terminal(shown) => lost'
      BY <2>2, <2>6, Zenon
    <3> QED
      BY <2>1, <2>4, <3>1 DEF EndedLogIsFetched
  <2> QED
    BY <2>5, <2>6
<1>5. ASSUME ServeRollback PROVE Goal
  <2>1. UNCHANGED <<shown, mounted, lost, requests, restLogs>> /\ srv'.log = srv.log
    BY <1>5 DEF ServeRollback, server, view, log, past, LogInv, ViewTyped
  <2> QED
    BY <1>2, <1>d, <2>1 DEF LogAnswers, EndedLogIsFetched
<1>6. ASSUME NEW k \in Calls, Answer(k) \/ CallFails(k) PROVE Goal
  BY <1>3, <1>6 DEF Answer, CallFails, server, log, past
<1>7. ASSUME Tick \/ RollbackDone PROVE Goal
  BY <1>3, <1>7 DEF Tick, RollbackDone, server, log, past
<1>8. ASSUME NEW k \in Requests, AnswerLog(k) PROVE Goal
  <2>1. UNCHANGED <<srv, shown, mounted, lost, restLogs>>
        /\ requests' = [requests EXCEPT ![k] = srv.log]
    BY <1>8 DEF AnswerLog, server, view, past
  <2>2. LogAnswers' /\ requests'[k] = srv'.log
    BY <1>2, <2>1 DEF LogAnswers
  <2> QED
    BY <2>2 DEF EndedLogIsFetched
<1>9. ASSUME NEW k \in Requests, ApplyLog(k) PROVE Goal
  <2>1. UNCHANGED <<srv, shown, mounted>> /\ restLogs' = requests[k]
        /\ requests[k] \notin {None, Sent} /\ requests' = [requests EXCEPT ![k] = None]
        /\ lost' = (lost \/ requests[k] < restLogs)
    BY <1>9 DEF ApplyLog, server, view
  <2>2. requests[k] \in Nat /\ requests[k] <= srv.log
    BY <1>2, <2>1 DEF LogAnswers
  <2>3. LogAnswers'
    BY <1>2, <2>1, <2>2 DEF LogAnswers
  <2>4. ASSUME mounted, Terminal(shown), ~lost'
        PROVE  restLogs' = srv.log \/ \E j \in Requests : requests'[j] \in {Sent, srv.log}
    <3>1. ~lost /\ ~(requests[k] < restLogs)
      BY <2>1, <2>4
    <3>2. CASE restLogs = srv.log
      BY <1>2, <2>1, <2>2, <3>1, <3>2 DEF LogAnswers
    <3>3. CASE \E j \in Requests : requests[j] \in {Sent, srv.log}
      BY <1>2, <2>1, <3>3 DEF LogAnswers
    <3> QED
      BY <1>2, <1>d, <2>4, <3>1, <3>2, <3>3 DEF EndedLogIsFetched
  <2> QED
    BY <1>d, <2>1, <2>3, <2>4 DEF EndedLogIsFetched
<1>10. ASSUME NEW k \in Requests, LogFails(k) PROVE Goal
  <2>1. UNCHANGED <<srv, restLogs>> /\ lost' /\ requests' = [requests EXCEPT ![k] = None]
    BY <1>10 DEF LogFails, server
  <2>2. LogAnswers'
    BY <1>2, <2>1 DEF LogAnswers
  <2> QED
    BY <2>1, <2>2 DEF EndedLogIsFetched
<1>11. ASSUME Leave PROVE Goal
  <2>1. UNCHANGED <<srv, restLogs>> /\ ~mounted' /\ requests' = [k \in Requests |-> None]
    BY <1>11 DEF Leave, server
  <2>2. LogAnswers'
    BY <1>2, <2>1 DEF LogAnswers
  <2> QED
    BY <2>1, <2>2 DEF EndedLogIsFetched
<1>12. ASSUME StreamTurn \/ StreamBreaks \/ Receive PROVE Goal
  BY <1>3, <1>12 DEF StreamTurn, StreamBreaks, Receive, server, view, log, past
<1>13. ASSUME Rollback \/ UNCHANGED vars PROVE Goal
  BY <1>3, <1>13 DEF Rollback, vars, server, view, log, past
<1>14. ASSUME NEW k \in Calls, Apply(k) PROVE Goal
  BY <1>14, ApplyRequests
<1>15. Goal
  <2> HIDE DEF Goal
  <2> QED
    BY <1>4, <1>5, <1>6, <1>7, <1>8, <1>9, <1>10, <1>11, <1>12, <1>13, <1>14 DEF Next
<1> QED
  BY <1>1, <1>15 DEF LogInv

\* Nothing has been shown or requested yet.
LEMMA LogInit == Init => LogInv
<1> SUFFICES ASSUME Init PROVE LogInv
  OBVIOUS
<1>1. ViewTyped
  BY FetchInit DEF FetchInv
<1>2. ~Terminal(shown)
  BY ViewAssumption DEF Init, Terminal, TERMINAL_STATUSES, DEPLOY_STATES
<1>3. LogAnswers
  BY DEF Init, LogAnswers
<1> QED
  BY <1>1, <1>2, <1>3 DEF LogInv, EndedLogIsFetched

\* Once the page shows the deploy as ended, the log there was at that time is
\* shown or on its way, also when the stream broke and when answers overtake
\* each other: the safety half of LogCatchesUp, for any number of calls and
\* requests in flight.  Lines are lost only as lost records: by a failed
\* request, by an old answer applied last, or written after that time.
THEOREM EndedLogArrives == Spec => []EndedLogIsFetched
<1>1. LogInv => EndedLogIsFetched
  BY DEF LogInv
<1> QED
  BY <1>1, LogInit, LogStep, PTL DEF Spec
=============================================================================
