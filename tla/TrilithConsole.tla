--------------------------- MODULE TrilithConsole ---------------------------
(***************************************************************************)
(* The activity log of one Trilith process (core/events.py), its endpoint  *)
(* GET /v1/events (core/rest_app.py), and one browser console that follows *)
(* it with a cursor (dashboard/app/page.tsx).                              *)
(*                                                                         *)
(* A request of the console is in one of these phases:                     *)
(*   loading   refreshAll awaits the snapshot, sub-tasks and tenants       *)
(*   sent      GET /v1/events is on its way, with the cursor of that time  *)
(*   read      the handler holds a page, and has not read latest_seq yet   *)
(*   answered  the response is on its way                                  *)
(* Requests overlap: neither setInterval nor a click waits for an answer,  *)
(* and a change of identity cancels none of them.                          *)
(***************************************************************************)
EXTENDS Integers, Sequences, FiniteSets, SequencesExt

CONSTANTS
  Tenants,      \* the identities the console switches between
  Requests,     \* bound: requests in flight at a time
  Idle,         \* a request that is not in flight
  Capacity,     \* events the log holds
  PageLimit,    \* events a page holds
  FeedLength,   \* events the console shows
  MaxSeq,       \* bound: events a process records
  MaxRestarts   \* bound: restarts of the process

VARIABLES
  seq,          \* the last sequence number given out
  log,          \* the retained events, oldest first
  restarts,     \* restarts so far
  session,      \* the identity of the console
  cursor,       \* the sequence number it will ask after
  feed,         \* the events it shows, newest first
  online,       \* whether it polls
  requests      \* its requests in flight

serverVars == <<seq, log, restarts>>
consoleVars == <<session, cursor, feed, online>>
vars == <<serverVars, consoleVars, requests>>

(* process tells a process's events from those before a restart; neither   *)
(* the server nor the console has it.                                      *)
Event == [process : 0..MaxRestarts, seq : 1..MaxSeq, tenant : Tenants]

ASSUME LimitsAssumption ==
  /\ Capacity \in Nat \ {0} /\ PageLimit \in Nat \ {0} /\ FeedLength \in Nat \ {0}
  /\ MaxSeq \in Nat /\ MaxRestarts \in Nat

(* Every phase has all fields, so that phases can be compared.             *)
Request ==
  [phase : {"loading", "sent", "read", "answered"}, tenant : Tenants,
   after : 0..MaxSeq, page : Seq(Event), latest : 0..MaxSeq]

ASSUME RequestsAssumption == IsFiniteSet(Requests) /\ Idle \notin Request

loading(tenant) ==
  [phase |-> "loading", tenant |-> tenant, after |-> 0, page |-> <<>>, latest |-> 0]

sent(tenant) == [loading(tenant) EXCEPT !.phase = "sent", !.after = cursor]

Init ==
  /\ seq = 0 /\ log = <<>> /\ restarts = 0
  /\ session \in Tenants
  /\ cursor = 0 /\ feed = <<>> /\ online = FALSE
  /\ \E r \in Requests :
       requests = [q \in Requests |-> IF q = r THEN loading(session) ELSE Idle]

-----------------------------------------------------------------------------
Least(a, b) == IF a <= b THEN a ELSE b

Newest(events, n) ==
  IF Len(events) <= n THEN events ELSE SubSeq(events, Len(events) - n + 1, Len(events))

(* Faulty variant: nothing is evicted.                                     *)
appended_unbounded(events, tenant) ==
  Append(events, [process |-> restarts, seq |-> seq + 1, tenant |-> tenant])

appended(events, tenant) ==
  Newest(Append(events, [process |-> restarts, seq |-> seq + 1, tenant |-> tenant]), Capacity)

(* Any operation of any client of the process.                             *)
record(tenant) ==
  /\ seq < MaxSeq
  /\ seq' = seq + 1
  /\ log' = appended(log, tenant)
  /\ UNCHANGED <<restarts, consoleVars, requests>>

(* forget_scope clears the log, all tenants' events, and records itself    *)
(* afterwards, unless it fails; other operations may record in between.    *)
clear ==
  /\ log' = <<>>
  /\ UNCHANGED <<seq, restarts, consoleVars, requests>>

(* The log is not persisted; a handler in progress dies with the process.  *)
Restart ==
  /\ restarts < MaxRestarts
  /\ restarts' = restarts + 1
  /\ seq' = 0 /\ log' = <<>>
  /\ LET lost == {r \in Requests : requests[r] # Idle /\ requests[r].phase = "read"}
     IN  /\ requests' = [r \in Requests |-> IF r \in lost THEN Idle ELSE requests[r]]
         /\ online' = (online /\ lost = {})
  /\ UNCHANGED <<session, cursor, feed>>

-----------------------------------------------------------------------------
matches(event, after, tenant) == event.seq > after /\ event.tenant = tenant

(* The matching events of the first n, and of those of all the newest.     *)
since(after, tenant) ==
  LET matched[n \in 0..Len(log)] ==
        IF n = 0 THEN <<>>
        ELSE IF matches(log[n], after, tenant) THEN Append(matched[n - 1], log[n])
        ELSE matched[n - 1]
  IN  Newest(matched[Len(log)], PageLimit)

InPhase(r, phase) == requests[r] # Idle /\ requests[r].phase = phase

(* Faulty variant of the handler: the cursor is read before the page.      *)
list_events_latest_first(r) ==
  \/ /\ InPhase(r, "sent")
     /\ requests' = [requests EXCEPT ![r].phase = "read", ![r].latest = seq]
     /\ UNCHANGED <<serverVars, consoleVars>>
  \/ /\ InPhase(r, "read")
     /\ requests' = [requests EXCEPT ![r].phase = "answered",
                       ![r].page = since(requests[r].after, requests[r].tenant)]
     /\ UNCHANGED <<serverVars, consoleVars>>

(* The handler of GET /v1/events takes the log's lock twice: for the page, *)
(* after which it does not need the cursor it was asked with any more, and *)
(* for the cursor that goes with the page.                                 *)
list_events(r) ==
  \/ /\ InPhase(r, "sent")
     /\ requests' = [requests EXCEPT ![r].phase = "read", ![r].after = 0,
                       ![r].page = since(requests[r].after, requests[r].tenant)]
     /\ UNCHANGED <<serverVars, consoleVars>>
  \/ /\ InPhase(r, "read")
     /\ requests' = [requests EXCEPT ![r].phase = "answered", ![r].latest = seq]
     /\ UNCHANGED <<serverVars, consoleVars>>

-----------------------------------------------------------------------------
(* The polling timer fires while the console is online.                    *)
poll(r) ==
  /\ online
  /\ requests[r] = Idle
  /\ requests' = [requests EXCEPT ![r] = sent(session)]
  /\ UNCHANGED <<serverVars, consoleVars>>

(* The operator asks for a refresh, or an edit of theirs ends with one.    *)
refreshAll(r) ==
  /\ requests[r] = Idle
  /\ requests' = [requests EXCEPT ![r] = loading(session)]
  /\ UNCHANGED <<serverVars, consoleVars>>

(* The three answers arrived: the console is online, and asks for events   *)
(* with the identity it had and the cursor it has.                         *)
loaded(r) ==
  /\ InPhase(r, "loading")
  /\ online' = TRUE
  /\ requests' = [requests EXCEPT ![r] = sent(@.tenant)]
  /\ UNCHANGED <<serverVars, session, cursor, feed>>

(* The list of items arrived, which a refresh, a poll or a filter asked    *)
(* for: that, too, puts the console online.                                *)
loadItems ==
  /\ online' = TRUE
  /\ UNCHANGED <<serverVars, session, cursor, feed, requests>>

(* Faulty variant: the cursor never moves back.                            *)
larger_cursor(answer) == IF answer.latest > cursor THEN answer.latest ELSE cursor

next_cursor(answer) == answer.latest

loadEvents(r) ==
  /\ InPhase(r, "answered")
  /\ cursor' = next_cursor(requests[r])
  /\ feed' = SubSeq(Reverse(requests[r].page) \o feed, 1,
                    Least(FeedLength, Len(requests[r].page) + Len(feed)))
  /\ requests' = [requests EXCEPT ![r] = Idle]
  /\ UNCHANGED <<serverVars, session, online>>

(* A request fails.  If Trilith cannot be reached or answers 401, polling  *)
(* stops until a refresh succeeds; any other error is only shown.          *)
onFailure(r) ==
  /\ requests[r] # Idle
  /\ requests' = [requests EXCEPT ![r] = Idle]
  /\ online' \in {FALSE, online}
  /\ UNCHANGED <<serverVars, session, cursor, feed>>

(* The operator picks another identity: an empty feed, and a refresh.      *)
switch_identity(r, tenant) ==
  /\ tenant # session
  /\ requests[r] = Idle
  /\ session' = tenant /\ cursor' = 0 /\ feed' = <<>>
  /\ requests' = [requests EXCEPT ![r] = loading(tenant)]
  /\ UNCHANGED <<serverVars, online>>

-----------------------------------------------------------------------------
Next ==
  \/ \E tenant \in Tenants : record(tenant)
  \/ clear \/ Restart \/ loadItems
  \/ \E r \in Requests :
       \/ list_events(r)
       \/ poll(r) \/ refreshAll(r) \/ loaded(r) \/ loadEvents(r) \/ onFailure(r)
       \/ \E tenant \in Tenants : switch_identity(r, tenant)

(* The timer keeps firing, the gateway answers what reaches it, and the    *)
(* browser runs what an answer resolves.  Clicks, operations, failures and *)
(* restarts need not happen.                                               *)
Fairness ==
  \A r \in Requests :
    /\ WF_vars(poll(r)) /\ WF_vars(loaded(r))
    /\ WF_vars(list_events(r)) /\ WF_vars(loadEvents(r))

Spec == Init /\ [][Next]_vars

FairSpec == Spec /\ Fairness

-----------------------------------------------------------------------------
(* Types of every variable.                                                *)
TypeOK ==
  /\ seq \in 0..MaxSeq /\ restarts \in 0..MaxRestarts
  /\ log \in Seq(Event) /\ Len(log) <= Capacity
  /\ session \in Tenants /\ cursor \in 0..MaxSeq /\ online \in BOOLEAN
  /\ feed \in Seq(Event) /\ Len(feed) <= FeedLength
  /\ requests \in [Requests -> Request \cup {Idle}]

(* As long as a console has the answer to one request before it asks again, *)
(* it shows each event once, the newest first: the page and the cursor     *)
(* that come with each other never overlap the next page (list_events,     *)
(* loadEvents), not even across a restart.                                 *)
AsksInTurn == Cardinality({r \in Requests : requests[r] # Idle}) <= 1

Newer(e, f) == e.process > f.process \/ (e.process = f.process /\ e.seq > f.seq)

FeedInOrder ==
  []AsksInTurn => [](\A i, j \in DOMAIN feed : i < j => Newer(feed[i], feed[j]))

(* Whatever overlapped, failed or restarted before: a console that stays   *)
(* online under one identity, and gets answers again and again, ends with  *)
(* the cursor of the server, not stuck before it and not waiting after it  *)
(* for numbers a new process has not given out.                            *)
StaysOnline == <>[]online /\ <>[][session' = session]_vars

IsAnswered == []<><<\E r \in Requests : loadEvents(r)>>_vars

CatchesUp == StaysOnline /\ IsAnswered => <>[](cursor = seq)
=============================================================================
