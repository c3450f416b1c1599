------------------------ MODULE TrilithConsoleProofs ------------------------
(***************************************************************************)
(* Proofs about the activity log and the console that follows it.          *)
(*                                                                         *)
(* What a page holds is defined by recursion on the log: CollectsExist     *)
(* gives that recursion its function, and PageType, by InductionOnEvents,  *)
(* what it computes.  TypeOK is inductive as it stands.  That the feed is  *)
(* in order is so only of a console that asks in turn: ConsoleInv relates  *)
(* the feed, the cursor and the one request in flight to the log and to    *)
(* the process that gave out the numbers.                                  *)
(***************************************************************************)
EXTENDS TrilithConsole, SequenceTheorems, FiniteSetTheorems, WellFoundedInduction, TLAPS

(* Induction on the number of events, as a statement about a set.          *)
LEMMA InductionOnEvents ==
  ASSUME NEW G, 0 \in G, \A n \in Nat : n \in G => n + 1 \in G
  PROVE  Nat \subseteq G
<1>1. SUFFICES ASSUME NEW m \in Nat, m \notin G PROVE FALSE
  OBVIOUS
<1> DEFINE below == {ss \in Nat \X Nat : ss[1] < ss[2]}
<1>2. IsWellFoundedOn(below, Nat)
  BY NatLessThanWellFounded DEF OpToRel
<1>3. PICK n \in Nat \ G : \A k \in Nat \ G : ~ (<<k, n>> \in below)
  <2>1. Nat \ G \subseteq Nat /\ Nat \ G # {}
    BY <1>1
  <2>2. QED
    BY <1>2, <2>1, WFMin
<1>4. \A k \in Nat \ G : ~ (k < n)
  BY <1>3
<1>5. n # 0 /\ n - 1 \in Nat /\ n - 1 < n /\ (n - 1) + 1 = n
  BY <1>3
<1>6. QED
  BY <1>3, <1>4, <1>5

(* g collects the matching ones of the first N events.                     *)
Collects(g, after, tenant, N) ==
  g = [n \in 0..N |->
         IF n = 0 THEN <<>>
         ELSE IF matches(log[n], after, tenant) THEN Append(g[n - 1], log[n])
         ELSE g[n - 1]]

(* The page is the newest of what the function of the recursion collects.  *)
LEMMA PageIsChosen ==
  ASSUME NEW after, NEW tenant
  PROVE  since(after, tenant) =
           Newest((CHOOSE g : Collects(g, after, tenant, Len(log)))[Len(log)], PageLimit)
BY DEF since, Collects

(* There is a function that satisfies the recursion.                       *)
LEMMA CollectsExist ==
  ASSUME NEW after, NEW tenant, NEW N \in Nat
  PROVE  \E g : Collects(g, after, tenant, N)
<1> DEFINE Good == {n \in Nat : \E g : Collects(g, after, tenant, n)}
<1>1. 0 \in Good
  <2>1. Collects([n \in 0..0 |-> <<>>], after, tenant, 0)
    BY DEF Collects
  <2>2. QED
    BY <2>1
<1>2. ASSUME NEW n \in Nat, n \in Good PROVE n + 1 \in Good
  <2>1. PICK f : Collects(f, after, tenant, n)
    BY <1>2
  <2> DEFINE g == [k \in 0..n + 1 |->
                     IF k = 0 THEN <<>>
                     ELSE IF matches(log[k], after, tenant) THEN Append(f[k - 1], log[k])
                     ELSE f[k - 1]]
  <2>2. ASSUME NEW k \in 0..n PROVE f[k] = g[k]
    <3>1. k \in 0..n + 1
      OBVIOUS
    <3>2. f[k] = IF k = 0 THEN <<>>
                 ELSE IF matches(log[k], after, tenant) THEN Append(f[k - 1], log[k])
                 ELSE f[k - 1]
      BY <2>1 DEF Collects
    <3>3. QED
      BY <3>1, <3>2
  <2>3. \A k \in 0..n + 1 : k # 0 => k - 1 \in 0..n
    OBVIOUS
  <2>4. g = [k \in 0..n + 1 |->
               IF k = 0 THEN <<>>
               ELSE IF matches(log[k], after, tenant) THEN Append(g[k - 1], log[k])
               ELSE g[k - 1]]
    BY <2>2, <2>3
  <2>5. Collects(g, after, tenant, n + 1)
    BY <2>4 DEF Collects
  <2>6. \E h : Collects(h, after, tenant, n + 1)
    <3> HIDE DEF g
    <3>1. QED
      BY <2>5
  <2>7. QED
    BY <2>6
<1>3. Nat \subseteq Good
  <2> HIDE DEF Good
  <2>1. QED
    BY <1>1, <1>2, InductionOnEvents
<1>4. QED
  BY <1>3

(* The newest events are the last ones.                                    *)
LEMMA NewestType ==
  ASSUME NEW S, NEW events \in Seq(S), NEW n \in Nat
  PROVE  /\ Newest(events, n) \in Seq(S) /\ Len(Newest(events, n)) <= n
         /\ \E skipped \in Nat :
              /\ Len(Newest(events, n)) + skipped = Len(events)
              /\ \A i \in 1..Len(Newest(events, n)) : Newest(events, n)[i] = events[i + skipped]
<1>1. PICK newest : newest = Newest(events, n)
  OBVIOUS
<1> DEFINE Suffix(skipped) == /\ Len(newest) + skipped = Len(events)
                              /\ \A i \in 1..Len(newest) : newest[i] = events[i + skipped]
<1>2. Len(events) \in Nat
  OBVIOUS
<1>3. CASE Len(events) <= n
  <2>1. newest = events
    BY <1>1, <1>3 DEF Newest
  <2>2. Suffix(0)
    BY <1>2, <2>1
  <2>3. QED
    BY <1>1, <1>3, <2>1, <2>2
<1>4. CASE Len(events) > n
  <2>1. PICK skipped \in Nat : skipped = Len(events) - n
    BY <1>2, <1>4
  <2>2. newest = SubSeq(events, skipped + 1, Len(events))
    BY <1>1, <1>2, <1>4, <2>1 DEF Newest
  <2>3. newest \in Seq(S) /\ Len(newest) = n /\ \A i \in 1..n : newest[i] = events[i + skipped]
    <3>1. \A i \in skipped + 1..Len(events) : events[i] \in S
      BY <1>2, <2>1
    <3>2. /\ newest \in Seq(S)
          /\ Len(newest) = IF skipped + 1 <= Len(events) THEN Len(events) - (skipped + 1) + 1 ELSE 0
          /\ \A i \in 1..Len(events) - (skipped + 1) + 1 : newest[i] = events[skipped + 1 + i - 1]
      BY <1>2, <2>1, <2>2, <3>1, SubSeqProperties
    <3>3. Len(events) - (skipped + 1) + 1 = n /\ (n = 0 <=> ~ (skipped + 1 <= Len(events)))
      BY <1>2, <2>1
    <3>4. \A i \in 1..n : skipped + 1 + i - 1 = i + skipped
      BY <2>1
    <3>5. QED
      BY <3>2, <3>3, <3>4
  <2>4. Suffix(skipped)
    BY <1>2, <2>1, <2>3
  <2>5. \E k \in Nat : Suffix(k)
    BY <2>4
  <2>6. n <= n
    OBVIOUS
  <2>7. QED
    BY <1>1, <2>3, <2>5, <2>6
<1>5. QED
  BY <1>2, <1>3, <1>4

(* The log is in order: later events have larger numbers.                  *)
Increasing(events) == \A i, j \in 1..Len(events) : i < j => events[i].seq < events[j].seq

(* A page is matching events of the log, no more than PageLimit of them,   *)
(* in the log's order.                                                     *)
LEMMA PageType ==
  ASSUME log \in Seq(Event), PageLimit \in Nat, NEW after, NEW tenant
  PROVE  /\ since(after, tenant) \in Seq(Event) /\ Len(since(after, tenant)) <= PageLimit
         /\ \A i \in 1..Len(since(after, tenant)) :
              /\ \E k \in 1..Len(log) : since(after, tenant)[i] = log[k]
              /\ matches(since(after, tenant)[i], after, tenant)
         /\ Increasing(log) => Increasing(since(after, tenant))
<1>1. PICK g : g = CHOOSE h : Collects(h, after, tenant, Len(log))
  OBVIOUS
<1>2. Len(log) \in Nat
  OBVIOUS
<1>3. Collects(g, after, tenant, Len(log))
  BY <1>1, <1>2, CollectsExist
<1> DEFINE Right(s, n) == /\ s \in Seq(Event)
                          /\ \A i \in 1..Len(s) : /\ \E k \in 1..n : s[i] = log[k]
                                                  /\ matches(s[i], after, tenant)
                          /\ Increasing(log) => Increasing(s)
           Good == {n \in Nat : n <= Len(log) => Right(g[n], n)}
<1>4. 0 \in Good
  <2>1. g[0] = <<>>
    BY <1>2, <1>3 DEF Collects
  <2>2. Right(<<>>, 0)
    BY DEF Increasing
  <2>3. QED
    BY <2>1, <2>2
<1>5. ASSUME NEW n \in Nat, n \in Good PROVE n + 1 \in Good
  <2>1. SUFFICES ASSUME n + 1 <= Len(log) PROVE Right(g[n + 1], n + 1)
    OBVIOUS
  <2>2. PICK s : s = g[n]
    OBVIOUS
  <2>3. Right(s, n)
    BY <1>2, <1>5, <2>1, <2>2
  <2>4. PICK e : e = log[n + 1]
    OBVIOUS
  <2>5. e \in Event /\ n + 1 \in 1..Len(log)
    BY <1>2, <2>1, <2>4
  <2>6. g[n + 1] = IF matches(e, after, tenant) THEN Append(s, e) ELSE s
    <3>1. n + 1 \in 0..Len(log) /\ n + 1 # 0 /\ (n + 1) - 1 = n
      BY <2>5
    <3>2. QED
      BY <1>3, <2>2, <2>4, <3>1 DEF Collects
  <2>7. CASE ~ matches(e, after, tenant)
    <3>1. g[n + 1] = s
      BY <2>6, <2>7
    <3>2. \A k \in 1..n : k \in 1..n + 1
      OBVIOUS
    <3>3. QED
      BY <2>3, <3>1, <3>2
  <2>8. CASE matches(e, after, tenant)
    <3>1. PICK t : t = Append(s, e)
      OBVIOUS
    <3>2. /\ t \in Seq(Event) /\ Len(t) = Len(s) + 1 /\ Len(s) \in Nat
          /\ \A i \in 1..Len(s) : t[i] = s[i]
          /\ t[Len(s) + 1] = e
      BY <2>3, <2>5, <3>1
    <3>3. \A i \in 1..Len(t) : i \in 1..Len(s) \/ i = Len(s) + 1
      BY <3>2
    <3>4. ASSUME NEW i \in 1..Len(t)
          PROVE  (\E k \in 1..n + 1 : t[i] = log[k]) /\ matches(t[i], after, tenant)
      <4>1. CASE i \in 1..Len(s)
        <5>1. PICK k \in 1..n : s[i] = log[k]
          BY <2>3, <4>1
        <5>2. k \in 1..n + 1 /\ t[i] = log[k] /\ matches(s[i], after, tenant)
          BY <2>3, <3>2, <4>1, <5>1
        <5>3. QED
          BY <3>2, <4>1, <5>2
      <4>2. CASE i = Len(s) + 1
        <5>1. n + 1 \in 1..n + 1
          OBVIOUS
        <5>2. QED
          BY <2>4, <2>8, <3>2, <4>2, <5>1
      <4>3. QED
        BY <3>3, <4>1, <4>2
    <3>5. ASSUME Increasing(log) PROVE Increasing(t)
      <4>1. SUFFICES ASSUME NEW i \in 1..Len(t), NEW j \in 1..Len(t), i < j
                     PROVE  t[i].seq < t[j].seq
        BY DEF Increasing
      <4>2. i \in 1..Len(s)
        BY <3>2, <4>1
      <4>3. CASE j \in 1..Len(s)
        BY <2>3, <3>2, <3>5, <4>1, <4>2, <4>3 DEF Increasing
      <4>4. CASE j = Len(s) + 1
        <5>1. PICK k \in 1..n : s[i] = log[k]
          BY <2>3, <4>2
        <5>2. log[k].seq < log[n + 1].seq
          <6>1. k \in 1..Len(log) /\ k < n + 1
            BY <1>2, <2>1
          <6>2. QED
            BY <2>5, <3>5, <6>1 DEF Increasing
        <5>3. QED
          BY <2>4, <3>2, <4>2, <4>4, <5>1, <5>2
      <4>5. QED
        BY <3>3, <4>3, <4>4
    <3>6. g[n + 1] = t
      BY <2>6, <2>8, <3>1
    <3>7. QED
      BY <3>2, <3>4, <3>5, <3>6
  <2>9. QED
    BY <2>7, <2>8
<1>6. Nat \subseteq Good
  <2> HIDE DEF Good
  <2>1. QED
    BY <1>4, <1>5, InductionOnEvents
<1>7. PICK s : s = g[Len(log)]
  OBVIOUS
<1>8. Right(s, Len(log))
  BY <1>2, <1>6, <1>7
<1>9. PICK page : page = Newest(s, PageLimit)
  OBVIOUS
<1>10. since(after, tenant) = page
  BY <1>1, <1>7, <1>9, PageIsChosen
<1>11. page \in Seq(Event) /\ Len(page) <= PageLimit
  BY <1>8, <1>9, NewestType
<1>12. PICK skipped \in Nat :
         /\ Len(page) + skipped = Len(s)
         /\ \A i \in 1..Len(page) : page[i] = s[i + skipped]
  BY <1>8, <1>9, NewestType
<1>13. \A i \in 1..Len(page) : i + skipped \in 1..Len(s)
  BY <1>8, <1>11, <1>12
<1>14. \A i \in 1..Len(page) : /\ \E k \in 1..Len(log) : page[i] = log[k]
                               /\ matches(page[i], after, tenant)
  BY <1>8, <1>12, <1>13
<1>15. ASSUME Increasing(log) PROVE Increasing(page)
  <2>1. SUFFICES ASSUME NEW i \in 1..Len(page), NEW j \in 1..Len(page), i < j
                 PROVE  page[i].seq < page[j].seq
    BY DEF Increasing
  <2>2. /\ i + skipped \in 1..Len(s) /\ j + skipped \in 1..Len(s)
        /\ i + skipped < j + skipped
    BY <1>13, <2>1
  <2>3. s[i + skipped].seq < s[j + skipped].seq
    BY <1>8, <1>15, <2>2 DEF Increasing
  <2>4. QED
    BY <1>12, <2>3
<1>16. QED
  BY <1>10, <1>11, <1>14, <1>15

-----------------------------------------------------------------------------
(* What a loading or sent request is.                                      *)
LEMMA RequestTypes ==
  ASSUME NEW tenant \in Tenants, cursor \in 0..MaxSeq
  PROVE  /\ loading(tenant) \in Request /\ sent(tenant) \in Request
         /\ loading(tenant) # Idle /\ sent(tenant) # Idle
         /\ loading(tenant).phase = "loading"
         /\ sent(tenant).phase = "sent" /\ sent(tenant).after = cursor
<1>1. 0 \in 0..MaxSeq
  BY LimitsAssumption
<1>2. loading(tenant) \in Request
  BY <1>1 DEF loading, Request
<1>3. sent(tenant) \in Request /\ sent(tenant).phase = "sent" /\ sent(tenant).after = cursor
  <2>1. PICK q \in Request : q = loading(tenant)
    BY <1>2
  <2>2. sent(tenant) = [q EXCEPT !.phase = "sent", !.after = cursor]
    BY <2>1 DEF sent
  <2>3. /\ [q EXCEPT !.phase = "sent", !.after = cursor] \in Request
        /\ [q EXCEPT !.phase = "sent", !.after = cursor].phase = "sent"
        /\ [q EXCEPT !.phase = "sent", !.after = cursor].after = cursor
    BY DEF Request
  <2>4. QED
    BY <2>2, <2>3
<1>4. QED
  BY <1>2, <1>3, RequestsAssumption DEF loading

(* A console that has just been opened, and a process just started.        *)
LEMMA InitType == Init => TypeOK
<1>1. SUFFICES ASSUME Init PROVE TypeOK
  OBVIOUS
<1>2. /\ seq = 0 /\ log = <<>> /\ restarts = 0 /\ session \in Tenants /\ cursor = 0
      /\ feed = <<>> /\ online = FALSE
      /\ \E r \in Requests : requests = [q \in Requests |-> IF q = r THEN loading(session) ELSE Idle]
  BY <1>1 DEF Init
<1>3. 0 \in 0..MaxSeq /\ 0 \in 0..MaxRestarts
  BY LimitsAssumption
<1>4. requests \in [Requests -> Request \cup {Idle}]
  BY <1>2, <1>3, RequestTypes
<1>5. <<>> \in Seq(Event) /\ Len(<<>>) <= Capacity /\ Len(<<>>) <= FeedLength
  BY LimitsAssumption
<1>6. QED
  BY <1>2, <1>3, <1>4, <1>5 DEF TypeOK

(* The server's steps: a process records, clears, dies and starts again.   *)
LEMMA ServerType ==
  TypeOK /\ ((\E tenant \in Tenants : record(tenant)) \/ clear \/ Restart) => TypeOK'
<1>1. SUFFICES ASSUME TypeOK, (\E tenant \in Tenants : record(tenant)) \/ clear \/ Restart
               PROVE  TypeOK'
  OBVIOUS
<1>2. <<>> \in Seq(Event) /\ Len(<<>>) <= Capacity
  BY LimitsAssumption
<1>3. ASSUME NEW tenant \in Tenants, record(tenant) PROVE TypeOK'
  <2>1. /\ seq \in 0..MaxSeq /\ seq < MaxSeq /\ seq' = seq + 1 /\ log \in Seq(Event)
        /\ restarts \in 0..MaxRestarts
        /\ log' = appended(log, tenant) /\ UNCHANGED <<restarts, consoleVars, requests>>
    BY <1>1, <1>3 DEF record, TypeOK
  <2>2. seq' \in 0..MaxSeq /\ seq + 1 \in 1..MaxSeq
    BY <2>1, LimitsAssumption
  <2>3. PICK e \in Event : e = [process |-> restarts, seq |-> seq + 1, tenant |-> tenant]
    BY <2>1, <2>2 DEF Event
  <2>4. PICK longer : longer = Append(log, e)
    OBVIOUS
  <2>5. longer \in Seq(Event) /\ Capacity \in Nat
    BY <2>1, <2>4, LimitsAssumption
  <2>6. log' = Newest(longer, Capacity)
    BY <2>1, <2>3, <2>4 DEF appended
  <2>7. log' \in Seq(Event) /\ Len(log') <= Capacity
    BY <2>5, <2>6, NewestType
  <2>8. QED
    BY <1>1, <2>1, <2>2, <2>7 DEF TypeOK, consoleVars
<1>4. CASE clear
  BY <1>1, <1>2, <1>4 DEF clear, TypeOK, consoleVars
<1>5. CASE Restart
  <2>1. restarts' \in 0..MaxRestarts /\ 0 \in 0..MaxSeq
    BY <1>1, <1>5, LimitsAssumption DEF Restart, TypeOK
  <2>2. requests' \in [Requests -> Request \cup {Idle}]
    BY <1>1, <1>5 DEF Restart, TypeOK
  <2>3. online' \in BOOLEAN
    BY <1>5 DEF Restart
  <2>4. seq' = 0 /\ log' = <<>> /\ UNCHANGED <<session, cursor, feed>>
    BY <1>5 DEF Restart
  <2>5. QED
    BY <1>1, <1>2, <2>1, <2>2, <2>3, <2>4 DEF TypeOK
<1>6. QED
  BY <1>1, <1>3, <1>4, <1>5

(* The handler's two steps.                                                *)
LEMMA HandlerType == TypeOK /\ (\E r \in Requests : list_events(r)) => TypeOK'
<1>1. SUFFICES ASSUME TypeOK, NEW r \in Requests, list_events(r) PROVE TypeOK'
  OBVIOUS
<1>2. UNCHANGED <<serverVars, consoleVars>> /\ requests[r] # Idle
  BY <1>1 DEF list_events, InPhase
<1>3. requests[r] \in Request /\ requests \in [Requests -> Request \cup {Idle}]
      /\ seq \in 0..MaxSeq /\ log \in Seq(Event)
  BY <1>1, <1>2 DEF TypeOK
<1>4. PICK page : page = since(requests[r].after, requests[r].tenant)
  OBVIOUS
<1>5. page \in Seq(Event)
  BY <1>3, <1>4, LimitsAssumption, PageType
<1>6. 0 \in 0..MaxSeq
  BY LimitsAssumption
<1>7. \/ requests' = [requests EXCEPT ![r].phase = "read", ![r].after = 0, ![r].page = page]
      \/ requests' = [requests EXCEPT ![r].phase = "answered", ![r].latest = seq]
  BY <1>1, <1>4 DEF list_events
<1>8. /\ [requests[r] EXCEPT !.phase = "read", !.after = 0, !.page = page] \in Request
      /\ [requests[r] EXCEPT !.phase = "answered", !.latest = seq] \in Request
  BY <1>3, <1>5, <1>6 DEF Request
<1>9. requests' \in [Requests -> Request \cup {Idle}]
  BY <1>3, <1>7, <1>8
<1>10. QED
  BY <1>1, <1>2, <1>9 DEF TypeOK, serverVars, consoleVars

(* What taking the first elements gives.                                   *)
LEMMA FirstType ==
  ASSUME NEW S, NEW s \in Seq(S), NEW m \in Nat, m <= Len(s), NEW t, t = SubSeq(s, 1, m)
  PROVE  t \in Seq(S) /\ Len(t) = m /\ \A i \in 1..m : t[i] = s[i]
<1>1. SubSeq(s, 1, m) \in Seq(S)
  OBVIOUS
<1>2. Len(SubSeq(s, 1, m)) = m
  OBVIOUS
<1>3. \A i \in 1..m : SubSeq(s, 1, m)[i] = s[i]
  OBVIOUS
<1>4. QED
  BY <1>1, <1>2, <1>3

(* A page, newest first.                                                   *)
LEMMA ReverseType ==
  ASSUME NEW S, NEW page \in Seq(S)
  PROVE  /\ Reverse(page) \in Seq(S) /\ Len(Reverse(page)) = Len(page)
         /\ \A i \in 1..Len(page) : Reverse(page)[i] = page[(Len(page) - i) + 1]
<1>1. PICK n \in Nat : n = Len(page)
  OBVIOUS
<1>2. \A i \in 1..n : (n - i) + 1 \in 1..n
  OBVIOUS
<1>3. [i \in 1..n |-> page[(n - i) + 1]] \in [1..n -> S]
  BY <1>1, <1>2
<1>4. Reverse(page) = [i \in 1..n |-> page[(n - i) + 1]]
  BY <1>1 DEF Reverse
<1>5. QED
  BY <1>1, <1>3, <1>4

(* What loadEvents shows: the page, newest first, on top of what it showed. *)
OnTop(shown, page, old, n) ==
  shown = SubSeq(Reverse(page) \o old, 1, Least(n, Len(page) + Len(old)))

(* Its length, and its elements.                                           *)
LEMMA ShownType ==
  ASSUME NEW S, NEW page \in Seq(S), NEW old \in Seq(S), NEW n \in Nat
  PROVE  \A shown : OnTop(shown, page, old, n) =>
           /\ shown \in Seq(S) /\ Len(shown) <= n
           /\ Len(shown) <= Len(page) + Len(old)
           /\ \A i \in 1..Len(shown) :
                shown[i] = IF i <= Len(page) THEN page[(Len(page) - i) + 1] ELSE old[i - Len(page)]
<1>0. PICK back \in Seq(S) : back = Reverse(page)
  BY ReverseType
<1>1. PICK all \in Seq(S) :
        /\ all = back \o old /\ Len(all) = Len(back) + Len(old)
        /\ \A i \in 1..Len(all) : all[i] = IF i <= Len(back) THEN back[i] ELSE old[i - Len(back)]
  <2>1. back \o old \in Seq(S)
    OBVIOUS
  <2>2. Len(back \o old) = Len(back) + Len(old)
    OBVIOUS
  <2>3. \A i \in 1..Len(back \o old) :
          (back \o old)[i] = IF i <= Len(back) THEN back[i] ELSE old[i - Len(back)]
    OBVIOUS
  <2>4. QED
    BY <2>1, <2>2, <2>3
<1>2. /\ all \in Seq(S) /\ Len(all) = Len(page) + Len(old)
      /\ \A i \in 1..Len(all) :
           all[i] = IF i <= Len(page) THEN page[(Len(page) - i) + 1] ELSE old[i - Len(page)]
  <2>1. back \in Seq(S) /\ Len(back) = Len(page)
    BY <1>0, ReverseType
  <2>2. \A i \in 1..Len(page) : back[i] = page[(Len(page) - i) + 1]
    BY <1>0, ReverseType
  <2>4. \A i \in 1..Len(all) : i <= Len(page) => i \in 1..Len(page)
    BY <1>1, <2>1
  <2>5. QED
    BY <1>1, <2>1, <2>2, <2>4
<1>3. Len(page) \in Nat /\ Len(old) \in Nat
  OBVIOUS
<1>4. PICK m \in Nat : m = Least(n, Len(page) + Len(old)) /\ m <= n /\ m <= Len(page) + Len(old)
  BY <1>3 DEF Least
<1>5. all \in Seq(S) /\ m <= Len(all)
  BY <1>2, <1>4
<1>6. PICK first : first = SubSeq(all, 1, m)
  OBVIOUS
<1>7. first \in Seq(S) /\ Len(first) = m /\ \A i \in 1..m : first[i] = all[i]
  BY <1>5, <1>6, FirstType
<1>8. \A i \in 1..m : i \in 1..Len(all)
  BY <1>2, <1>3, <1>4
<1>9. \A shown : OnTop(shown, page, old, n) => shown = first
  <2>1. SubSeq(Reverse(page) \o old, 1, Least(n, Len(page) + Len(old))) = first
    BY <1>0, <1>1, <1>4, <1>6
  <2>2. QED
    BY <2>1 DEF OnTop
<1>10. /\ first \in Seq(S) /\ Len(first) <= n /\ Len(first) <= Len(page) + Len(old)
       /\ \A i \in 1..Len(first) :
            first[i] = IF i <= Len(page) THEN page[(Len(page) - i) + 1] ELSE old[i - Len(page)]
  BY <1>2, <1>4, <1>7, <1>8
<1>11. QED
  BY <1>9, <1>10

(* The console's steps.                                                    *)
LEMMA ConsoleType ==
  TypeOK /\ (loadItems \/ \E r \in Requests :
               \/ poll(r) \/ refreshAll(r) \/ loaded(r) \/ loadEvents(r) \/ onFailure(r)
               \/ \E tenant \in Tenants : switch_identity(r, tenant)) => TypeOK'
<1>1. SUFFICES ASSUME TypeOK,
                      loadItems \/ \E r \in Requests :
                        \/ poll(r) \/ refreshAll(r) \/ loaded(r) \/ loadEvents(r) \/ onFailure(r)
                        \/ \E tenant \in Tenants : switch_identity(r, tenant)
               PROVE  TypeOK'
  OBVIOUS
<1> USE DEF TypeOK, serverVars, consoleVars
<1>2. CASE loadItems
  BY <1>1, <1>2 DEF loadItems
<1>3. ASSUME NEW r \in Requests, poll(r) PROVE TypeOK'
  BY <1>1, <1>3, RequestTypes DEF poll
<1>4. ASSUME NEW r \in Requests, refreshAll(r) PROVE TypeOK'
  BY <1>1, <1>4, RequestTypes DEF refreshAll
<1>5. ASSUME NEW r \in Requests, loaded(r) PROVE TypeOK'
  <2>1. requests[r] \in Request
    BY <1>1, <1>5 DEF loaded, InPhase
  <2>2. sent(requests[r].tenant) \in Request
    BY <1>1, <2>1, RequestTypes DEF Request
  <2>3. requests' \in [Requests -> Request \cup {Idle}]
    BY <1>1, <1>5, <2>2 DEF loaded
  <2>4. QED
    BY <1>1, <1>5, <2>3 DEF loaded
<1>6. ASSUME NEW r \in Requests, loadEvents(r) PROVE TypeOK'
  <2>1. requests[r] \in Request
    BY <1>1, <1>6 DEF loadEvents, InPhase
  <2>2. requests[r].page \in Seq(Event) /\ requests[r].latest \in 0..MaxSeq
    BY <2>1 DEF Request
  <2>3. feed' \in Seq(Event) /\ Len(feed') <= FeedLength
    <3>1. PICK page \in Seq(Event) : page = requests[r].page
      BY <2>2
    <3>2. PICK old \in Seq(Event), n \in Nat : old = feed /\ n = FeedLength
      BY <1>1, LimitsAssumption
    <3>3. OnTop(feed', page, old, n)
      BY <1>6, <3>1, <3>2 DEF loadEvents, OnTop
    <3>4. PICK shown : shown = feed'
      OBVIOUS
    <3>5. shown \in Seq(Event) /\ Len(shown) <= n
      BY <3>3, <3>4, ShownType
    <3>6. QED
      BY <3>2, <3>4, <3>5
  <2>4. QED
    BY <1>1, <1>6, <2>2, <2>3 DEF loadEvents, next_cursor
<1>7. ASSUME NEW r \in Requests, onFailure(r) PROVE TypeOK'
  BY <1>1, <1>7 DEF onFailure
<1>8. ASSUME NEW r \in Requests, NEW tenant \in Tenants, switch_identity(r, tenant) PROVE TypeOK'
  <2>1. loading(tenant) \in Request
    BY <1>1, RequestTypes
  <2>2. 0 \in 0..MaxSeq /\ <<>> \in Seq(Event) /\ Len(<<>>) <= FeedLength
    BY LimitsAssumption
  <2>3. requests' \in [Requests -> Request \cup {Idle}]
    BY <1>1, <1>8, <2>1 DEF switch_identity
  <2>4. QED
    BY <1>1, <1>8, <2>2, <2>3 DEF switch_identity
<1>9. QED
  BY <1>1, <1>2, <1>3, <1>4, <1>5, <1>6, <1>7, <1>8

(* The log stays within its capacity and the feed within its length, and   *)
(* everything is of its type, whatever is asked, overlaps or fails.        *)
THEOREM ConsoleTypes == Spec => []TypeOK
<1>1. Init => TypeOK
  BY InitType
<1>2. TypeOK /\ UNCHANGED vars => TypeOK'
  BY DEF TypeOK, vars, serverVars, consoleVars
<1>3. TypeOK /\ [Next]_vars => TypeOK'
  BY <1>2, ServerType, HandlerType, ConsoleType DEF Next
<1>4. QED
  BY <1>1, <1>3, PTL DEF Spec

-----------------------------------------------------------------------------
(* An earlier process recorded the event, or this one did, up to number n. *)
Past(e, n) == e.process < restarts \/ (e.process = restarts /\ e.seq <= n)

(* Later events of the feed are older.                                     *)
NewestFirst(events) == \A i, j \in 1..Len(events) : i < j => Newer(events[i], events[j])

(* The log holds this process's events, in order.                          *)
LogInv ==
  /\ Increasing(log)
  /\ \A i \in 1..Len(log) : log[i].process = restarts /\ log[i].seq <= seq

(* The feed is in order, and all of it is what the cursor has passed.      *)
FeedInv ==
  /\ NewestFirst(feed)
  /\ \A i \in 1..Len(feed) : Past(feed[i], cursor) /\ Past(feed[i], seq)

(* A page is in order, after the whole feed, and not of a time to come.    *)
PageInv(page) ==
  /\ \A i, j \in 1..Len(page) : i < j => Newer(page[j], page[i])
  /\ \A i \in 1..Len(page), j \in 1..Len(feed) : Newer(page[i], feed[j])
  /\ \A i \in 1..Len(page) : Past(page[i], seq)

(* A request asks after the console's cursor, its page follows the feed,   *)
(* and the cursor of its answer has passed the page and the feed.          *)
RequestInv(q) ==
  /\ q.phase = "sent" => q.after = cursor
  /\ q.phase \in {"read", "answered"} => PageInv(q.page)
  /\ q.phase = "answered" =>
       /\ \A i \in 1..Len(q.page) : Past(q.page[i], q.latest)
       /\ \A j \in 1..Len(feed) : Past(feed[j], q.latest)

(* The inductive invariant of a console that asks in turn.                 *)
ConsoleInv ==
  /\ TypeOK /\ LogInv /\ FeedInv
  /\ \A r \in Requests : requests[r] # Idle => RequestInv(requests[r])

(* What asks in turn has one request in flight at most.                    *)
LEMMA OneAtATime ==
  ASSUME NEW asked, Cardinality({k \in Requests : asked[k] # Idle}) <= 1,
         NEW r \in Requests, NEW q \in Requests, asked[r] # Idle, asked[q] # Idle
  PROVE  r = q
<1>1. SUFFICES ASSUME r # q PROVE FALSE
  OBVIOUS
<1> DEFINE flying == {k \in Requests : asked[k] # Idle}
<1>2. IsFiniteSet(flying)
  BY RequestsAssumption, FS_Subset
<1>3. {r, q} \subseteq flying
  OBVIOUS
<1>4. Cardinality({r, q}) <= Cardinality(flying)
  BY <1>2, <1>3, FS_Subset
<1>5. Cardinality({r, q}) = 2
  <2>1. IsFiniteSet({r}) /\ Cardinality({r}) = 1
    BY FS_Singleton
  <2>2. {r, q} = {r} \cup {q}
    OBVIOUS
  <2>3. Cardinality({r} \cup {q}) = 2
    BY <1>1, <2>1, FS_AddElement
  <2>4. QED
    BY <2>2, <2>3
<1>6. Cardinality(flying) \in Nat
  BY <1>2, FS_CardinalityType
<1>7. QED
  BY <1>4, <1>5, <1>6

(* At first nothing is shown, and nothing is asked for.                    *)
LEMMA InitOrder == Init => ConsoleInv
<1>1. SUFFICES ASSUME Init PROVE ConsoleInv
  OBVIOUS
<1>2. TypeOK
  BY <1>1, InitType
<1>3. /\ log = <<>> /\ feed = <<>> /\ session \in Tenants
      /\ \E r \in Requests : requests = [q \in Requests |-> IF q = r THEN loading(session) ELSE Idle]
  BY <1>1 DEF Init
<1>4. LogInv /\ FeedInv
  BY <1>3 DEF LogInv, FeedInv, Increasing, NewestFirst
<1>5. ASSUME NEW r \in Requests, requests[r] # Idle PROVE RequestInv(requests[r])
  <2>1. requests[r].phase = "loading"
    BY <1>3, <1>5 DEF loading
  <2>2. QED
    BY <2>1 DEF RequestInv
<1>6. QED
  BY <1>2, <1>4, <1>5 DEF ConsoleInv

(* Which numbers the fields of events are.                                 *)
LEMMA EventFields ==
  ASSUME NEW events \in Seq(Event)
  PROVE  /\ Len(events) \in Nat
         /\ \A i \in 1..Len(events) : events[i].process \in Nat /\ events[i].seq \in Nat
<1>1. \A i \in 1..Len(events) : events[i] \in Event
  OBVIOUS
<1>2. QED
  BY <1>1, LimitsAssumption DEF Event

(* What is not of a time to come does not become so.                       *)
LEMMA PastStays ==
  ASSUME NEW events \in Seq(Event), NEW n \in Nat, NEW m \in Nat, n <= m, NEW i \in 1..Len(events)
  PROVE  Past(events[i], n) => Past(events[i], m)
BY EventFields DEF Past

(* An event recorded is the last of the log.                               *)
LEMMA RecordKeepsOrder ==
  ASSUME ConsoleInv, NEW tenant \in Tenants, record(tenant)
  PROVE  ConsoleInv'
<1>1. /\ seq \in Nat /\ seq < MaxSeq /\ seq' = seq + 1 /\ restarts \in 0..MaxRestarts
      /\ log \in Seq(Event) /\ feed \in Seq(Event) /\ cursor \in Nat
      /\ requests \in [Requests -> Request \cup {Idle}]
      /\ log' = appended(log, tenant) /\ UNCHANGED <<restarts, consoleVars, requests>>
  BY DEF record, ConsoleInv, TypeOK
<1>2. TypeOK'
  BY ServerType DEF ConsoleInv
<1>3. PICK e : e = [process |-> restarts, seq |-> seq + 1, tenant |-> tenant]
  OBVIOUS
<1>4. e \in Event
  BY <1>1, <1>3, LimitsAssumption DEF Event
<1>5. PICK longer : longer = Append(log, e)
  OBVIOUS
<1>6. /\ longer \in Seq(Event) /\ Len(longer) = Len(log) + 1 /\ Len(log) \in Nat
      /\ \A i \in 1..Len(log) : longer[i] = log[i]
      /\ longer[Len(log) + 1] = e
  BY <1>1, <1>4, <1>5
<1>7. \A i \in 1..Len(longer) : i \in 1..Len(log) \/ i = Len(log) + 1
  BY <1>6
<1>8. \A i \in 1..Len(log) : log[i].process = restarts /\ log[i].seq <= seq /\ log[i].seq \in Nat
  BY <1>1, EventFields DEF ConsoleInv, LogInv
<1>9. \A i \in 1..Len(longer) : longer[i].process = restarts /\ longer[i].seq <= seq + 1
  <2>1. e.process = restarts /\ e.seq = seq + 1
    BY <1>3
  <2>2. ASSUME NEW i \in 1..Len(longer)
        PROVE  longer[i].process = restarts /\ longer[i].seq <= seq + 1
    <3>1. CASE i \in 1..Len(log)
      <4>1. longer[i] = log[i]
        BY <1>6, <3>1
      <4>2. log[i].process = restarts /\ log[i].seq <= seq + 1
        BY <1>1, <1>8, <3>1
      <4>3. QED
        BY <4>1, <4>2
    <3>2. CASE i = Len(log) + 1
      <4>1. longer[i] = e /\ seq + 1 <= seq + 1
        BY <1>1, <1>6, <3>2
      <4>2. QED
        BY <2>1, <4>1
    <3>3. QED
      BY <1>7, <3>1, <3>2
  <2>3. QED
    BY <2>2
<1>10. ASSUME NEW i \in 1..Len(longer), NEW j \in 1..Len(longer), i < j
       PROVE  longer[i].seq < longer[j].seq
  <2>1. i \in 1..Len(log)
    BY <1>6, <1>10
  <2>2. CASE j \in 1..Len(log)
    BY <1>6, <1>10, <2>1, <2>2 DEF ConsoleInv, LogInv, Increasing
  <2>3. CASE j = Len(log) + 1
    BY <1>1, <1>3, <1>6, <1>8, <2>1, <2>3
  <2>4. QED
    BY <1>7, <2>2, <2>3
<1>11. LogInv'
  <2>1. log' = Newest(longer, Capacity)
    BY <1>1, <1>3, <1>5 DEF appended
  <2>2. PICK newest : newest = log'
    OBVIOUS
  <2>3. PICK skipped \in Nat :
          /\ Len(newest) + skipped = Len(longer)
          /\ \A i \in 1..Len(newest) : newest[i] = longer[i + skipped]
    <3>1. PICK n \in Nat : n = Capacity
      BY LimitsAssumption
    <3>2. newest = Newest(longer, n)
      BY <2>1, <2>2, <3>1
    <3>3. \E skipped \in Nat :
            /\ Len(Newest(longer, n)) + skipped = Len(longer)
            /\ \A i \in 1..Len(Newest(longer, n)) : Newest(longer, n)[i] = longer[i + skipped]
      BY <1>6, NewestType
    <3>4. QED
      BY <3>2, <3>3
  <2>4. newest \in Seq(Event)
    <3>1. Capacity \in Nat
      BY LimitsAssumption
    <3>2. QED
      BY <1>6, <2>1, <2>2, <3>1, NewestType
  <2>5. \A i \in 1..Len(newest) : i + skipped \in 1..Len(longer)
    BY <1>6, <2>3, <2>4
  <2>6. \A i \in 1..Len(newest) : newest[i].process = restarts /\ newest[i].seq <= seq + 1
    BY <1>9, <2>3, <2>5
  <2>7. ASSUME NEW i \in 1..Len(newest), NEW j \in 1..Len(newest), i < j
        PROVE  newest[i].seq < newest[j].seq
    <3>1. /\ i + skipped \in 1..Len(longer) /\ j + skipped \in 1..Len(longer)
          /\ i + skipped < j + skipped
      BY <2>4, <2>5, <2>7
    <3>2. longer[i + skipped].seq < longer[j + skipped].seq
      BY <1>10, <3>1
    <3>3. QED
      BY <2>3, <3>2
  <2>8. QED
    BY <1>1, <2>2, <2>6, <2>7 DEF LogInv, Increasing
<1>12. ASSUME NEW events \in Seq(Event), NEW i \in 1..Len(events), Past(events[i], seq)
       PROVE  events[i].process < restarts \/ (events[i].process = restarts /\ events[i].seq <= seq')
  <2>1. seq + 1 \in Nat /\ seq <= seq + 1
    BY <1>1
  <2>2. Past(events[i], seq + 1)
    BY <1>1, <1>12, <2>1, PastStays
  <2>3. QED
    BY <1>1, <2>2 DEF Past
<1>13. FeedInv'
  BY <1>1, <1>12 DEF ConsoleInv, FeedInv, NewestFirst, Newer, Past, consoleVars
<1>14. ASSUME NEW r \in Requests, requests'[r] # Idle PROVE RequestInv(requests[r])'
  <2>1. PICK q \in Request : q = requests[r] /\ q = requests'[r]
    BY <1>1, <1>14
  <2>2. q.page \in Seq(Event)
    BY DEF Request
  <2>3. RequestInv(q)
    BY <1>1, <1>14, <2>1 DEF ConsoleInv
  <2>4. feed' = feed /\ cursor' = cursor /\ restarts' = restarts
    BY <1>1 DEF consoleVars
  <2>5. PageInv(q.page) => PageInv(q.page)'
    BY <1>12, <2>2, <2>4 DEF PageInv, Newer, Past
  <2>6. QED
    BY <2>1, <2>3, <2>4, <2>5 DEF RequestInv, Past
<1>15. QED
  BY <1>2, <1>11, <1>13, <1>14 DEF ConsoleInv

(* The log is emptied; nothing that was read is.                           *)
LEMMA ClearKeepsOrder == ConsoleInv /\ clear => ConsoleInv'
<1>1. SUFFICES ASSUME ConsoleInv, clear PROVE ConsoleInv'
  OBVIOUS
<1>2. TypeOK'
  BY <1>1, ServerType DEF ConsoleInv
<1>3. log' = <<>> /\ seq' = seq /\ restarts' = restarts /\ requests' = requests
      /\ feed' = feed /\ cursor' = cursor
  BY <1>1 DEF clear, consoleVars
<1>4. LogInv'
  BY <1>3 DEF LogInv, Increasing
<1>5. FeedInv'
  BY <1>1, <1>3 DEF ConsoleInv, FeedInv, NewestFirst, Newer, Past
<1>6. ASSUME NEW r \in Requests, requests'[r] # Idle PROVE RequestInv(requests[r])'
  BY <1>1, <1>3, <1>6 DEF ConsoleInv, RequestInv, PageInv, Newer, Past
<1>7. QED
  BY <1>2, <1>4, <1>5, <1>6 DEF ConsoleInv

(* All that was read is of an earlier process then.                        *)
LEMMA RestartKeepsOrder == ConsoleInv /\ Restart => ConsoleInv'
<1>1. SUFFICES ASSUME ConsoleInv, Restart PROVE ConsoleInv'
  OBVIOUS
<1>2. TypeOK'
  BY <1>1, ServerType DEF ConsoleInv
<1>3. log' = <<>> /\ seq' = 0 /\ restarts' = restarts + 1 /\ feed' = feed /\ cursor' = cursor
  BY <1>1 DEF Restart
<1>4. restarts \in Nat /\ feed \in Seq(Event) /\ requests \in [Requests -> Request \cup {Idle}]
  BY <1>1 DEF ConsoleInv, TypeOK
<1>5. LogInv'
  BY <1>3 DEF LogInv, Increasing
<1>6. ASSUME NEW events \in Seq(Event), NEW i \in 1..Len(events), NEW n, Past(events[i], n)
      PROVE  events[i].process < restarts'
  BY <1>3, <1>4, <1>6, EventFields DEF Past
<1>7. \A i \in 1..Len(feed) : feed[i].process < restarts'
  BY <1>1, <1>4, <1>6 DEF ConsoleInv, FeedInv
<1>8. FeedInv'
  BY <1>1, <1>3, <1>7 DEF ConsoleInv, FeedInv, NewestFirst, Newer, Past
<1>9. ASSUME NEW r \in Requests, requests'[r] # Idle PROVE RequestInv(requests[r])'
  <2>1. PICK q \in Request : q = requests[r] /\ q = requests'[r]
    BY <1>1, <1>4, <1>9 DEF Restart
  <2>2. q.page \in Seq(Event)
    BY DEF Request
  <2>3. RequestInv(q)
    BY <1>1, <2>1, RequestsAssumption DEF ConsoleInv
  <2>4. PageInv(q.page) => \A i \in 1..Len(q.page) : q.page[i].process < restarts'
    BY <1>6, <2>2 DEF PageInv
  <2>5. PageInv(q.page) => PageInv(q.page)'
    BY <1>3, <2>4 DEF PageInv, Newer, Past
  <2>6. RequestInv(q)'
    BY <1>3, <1>7, <2>3, <2>4, <2>5 DEF RequestInv, Past
  <2>7. QED
    BY <2>1, <2>6 DEF RequestInv, PageInv, Newer, Past
<1>10. QED
  BY <1>2, <1>5, <1>8, <1>9 DEF ConsoleInv

(* The page that the handler reads follows the feed: what it holds is of   *)
(* this process, and after the cursor, which has passed all of the feed.   *)
LEMMA PageFollows ==
  ASSUME ConsoleInv, NEW tenant, NEW page, page = since(cursor, tenant)
  PROVE  PageInv(page)
<1>1. /\ seq \in Nat /\ cursor \in Nat /\ restarts \in Nat
      /\ log \in Seq(Event) /\ feed \in Seq(Event) /\ PageLimit \in Nat
  BY LimitsAssumption DEF ConsoleInv, TypeOK
<1>2. page \in Seq(Event)
  BY <1>1, PageType
<1>3. \A i \in 1..Len(page) :
        /\ \E k \in 1..Len(log) : page[i] = log[k]
        /\ matches(page[i], cursor, tenant)
  BY <1>1, PageType
<1>4. Increasing(page)
  BY <1>1, PageType DEF ConsoleInv, LogInv
<1>5. \A i \in 1..Len(page) :
        page[i].process = restarts /\ page[i].seq <= seq /\ page[i].seq > cursor
  BY <1>3 DEF ConsoleInv, LogInv, matches
<1>6. \A i, j \in 1..Len(page) : i < j => Newer(page[j], page[i])
  BY <1>2, <1>4, <1>5, EventFields DEF Increasing, Newer
<1>7. ASSUME NEW i \in 1..Len(page), NEW j \in 1..Len(feed) PROVE Newer(page[i], feed[j])
  <2>1. Past(feed[j], cursor)
    BY DEF ConsoleInv, FeedInv
  <2>2. /\ page[i].seq \in Nat /\ feed[j].seq \in Nat
        /\ page[i].process \in Nat /\ feed[j].process \in Nat
    BY <1>1, <1>2, EventFields
  <2>3. page[i].process = restarts /\ page[i].seq > cursor
    BY <1>5
  <2>4. PICK e, f : e = page[i] /\ f = feed[j]
    OBVIOUS
  <2>5. CASE f.process < restarts
    BY <1>1, <2>2, <2>3, <2>4, <2>5 DEF Newer
  <2>6. CASE f.process = restarts /\ f.seq <= cursor
    <3>1. e.process = restarts /\ e.seq > cursor /\ e.seq \in Nat /\ f.seq \in Nat
      BY <2>2, <2>3, <2>4
    <3>2. e.seq > f.seq
      BY <1>1, <2>6, <3>1
    <3>3. e.process = f.process
      BY <2>6, <3>1
    <3>4. QED
      BY <2>4, <3>2, <3>3 DEF Newer
  <2>7. QED
    BY <2>1, <2>4, <2>5, <2>6 DEF Past
<1>8. \A i \in 1..Len(page) : Past(page[i], seq)
  BY <1>5 DEF Past
<1>9. QED
  BY <1>6, <1>7, <1>8 DEF PageInv

(* The handler reads the page, and then the cursor that goes with it.      *)
LEMMA HandlerKeepsOrder ==
  ASSUME ConsoleInv, NEW r \in Requests, list_events(r)
  PROVE  ConsoleInv'
<1>1. TypeOK'
  BY HandlerType DEF ConsoleInv
<1>2. UNCHANGED <<serverVars, consoleVars>> /\ requests[r] # Idle
  BY DEF list_events, InPhase
<1>3. /\ requests \in [Requests -> Request \cup {Idle}] /\ requests[r] \in Request
      /\ seq \in 0..MaxSeq
  BY <1>2 DEF ConsoleInv, TypeOK
<1>4. seq' = seq /\ log' = log /\ restarts' = restarts /\ cursor' = cursor /\ feed' = feed
  BY <1>2 DEF serverVars, consoleVars
<1>5. LogInv' /\ FeedInv'
  BY <1>4 DEF ConsoleInv, LogInv, FeedInv, Increasing, NewestFirst, Newer, Past
<1>6. PICK q \in Request : q = requests[r]
  BY <1>3
<1>7. RequestInv(q)
  BY <1>2, <1>6 DEF ConsoleInv
<1>8. PICK p : p = requests'[r]
  OBVIOUS
<1>9. RequestInv(p)
  <2>1. CASE q.phase = "sent" /\ requests' = [requests EXCEPT ![r].phase = "read", ![r].after = 0,
                                               ![r].page = since(q.after, q.tenant)]
    <3>1. PICK page : page = since(q.after, q.tenant)
      OBVIOUS
    <3>2. p = [q EXCEPT !.phase = "read", !.after = 0, !.page = page]
      BY <1>3, <1>6, <1>8, <2>1, <3>1
    <3>3. p.phase = "read" /\ p.page = page
      BY <3>2 DEF Request
    <3>4. PageInv(page)
      BY <1>7, <2>1, <3>1, PageFollows DEF RequestInv
    <3>5. QED
      BY <3>3, <3>4 DEF RequestInv
  <2>2. CASE q.phase = "read" /\ requests' = [requests EXCEPT ![r].phase = "answered", ![r].latest = seq]
    <3>1. p = [q EXCEPT !.phase = "answered", !.latest = seq]
      BY <1>3, <1>6, <1>8, <2>2
    <3>2. p.phase = "answered" /\ p.page = q.page /\ p.latest = seq
      BY <3>1 DEF Request
    <3>3. PageInv(q.page)
      BY <1>7, <2>2 DEF RequestInv
    <3>4. \A j \in 1..Len(feed) : Past(feed[j], seq)
      BY DEF ConsoleInv, FeedInv
    <3>5. QED
      BY <3>2, <3>3, <3>4 DEF RequestInv, PageInv
  <2>3. QED
    BY <1>6, <2>1, <2>2 DEF list_events, InPhase
<1>10. ASSUME NEW k \in Requests, requests'[k] # Idle PROVE RequestInv(requests[k])'
  <2>1. RequestInv(requests'[k])
    <3>1. CASE k = r
      BY <1>8, <1>9, <3>1
    <3>2. CASE k # r
      <4>1. requests'[k] = requests[k]
        BY <1>3, <3>2 DEF list_events
      <4>2. QED
        BY <1>10, <4>1 DEF ConsoleInv
    <3>3. QED
      BY <3>1, <3>2
  <2>2. QED
    BY <1>4, <2>1 DEF RequestInv, PageInv, Newer, Past
<1>11. QED
  BY <1>1, <1>5, <1>10 DEF ConsoleInv

(* The page goes on top of the feed.                                       *)
LEMMA LoadKeepsOrder ==
  ASSUME ConsoleInv, AsksInTurn, NEW r \in Requests, loadEvents(r)
  PROVE  ConsoleInv'
<1>1. TypeOK'
  BY ConsoleType DEF ConsoleInv
<1>2. /\ requests[r] # Idle /\ requests[r].phase = "answered"
      /\ requests' = [requests EXCEPT ![r] = Idle]
      /\ seq' = seq /\ log' = log /\ restarts' = restarts
      /\ cursor' = requests[r].latest
  BY DEF loadEvents, InPhase, next_cursor, serverVars
<1>3. /\ requests \in [Requests -> Request \cup {Idle}] /\ requests[r] \in Request
      /\ feed \in Seq(Event)
  BY <1>2 DEF ConsoleInv, TypeOK
<1>4. PICK q \in Request : q = requests[r]
  BY <1>3
<1>5. PICK page \in Seq(Event), old \in Seq(Event), n \in Nat :
        page = q.page /\ old = feed /\ n = FeedLength
  BY <1>3, LimitsAssumption DEF Request
<1>6. /\ PageInv(page)
      /\ \A i \in 1..Len(page) : Past(page[i], q.latest)
      /\ \A j \in 1..Len(old) : Past(old[j], q.latest)
  BY <1>2, <1>4, <1>5 DEF ConsoleInv, RequestInv
<1>7. PICK shown : shown = feed'
  OBVIOUS
<1>8. OnTop(shown, page, old, n)
  BY <1>4, <1>5, <1>7 DEF loadEvents, OnTop
<1>9. /\ shown \in Seq(Event) /\ Len(shown) <= Len(page) + Len(old)
      /\ \A i \in 1..Len(shown) :
           shown[i] = IF i <= Len(page) THEN page[(Len(page) - i) + 1] ELSE old[i - Len(page)]
  BY <1>8, ShownType
<1>10. Len(page) \in Nat /\ Len(old) \in Nat /\ Len(shown) \in Nat
  BY <1>9
<1>11. ASSUME NEW i \in 1..Len(shown), i <= Len(page)
       PROVE  (Len(page) - i) + 1 \in 1..Len(page) /\ shown[i] = page[(Len(page) - i) + 1]
  BY <1>9, <1>10, <1>11
<1>12. ASSUME NEW i \in 1..Len(shown), ~ (i <= Len(page))
       PROVE  i - Len(page) \in 1..Len(old) /\ shown[i] = old[i - Len(page)]
  BY <1>9, <1>10, <1>12
<1>13. ASSUME NEW i \in 1..Len(shown), NEW j \in 1..Len(shown), i < j
       PROVE  Newer(shown[i], shown[j])
  <2>1. CASE j <= Len(page)
    <3>1. i <= Len(page) /\ (Len(page) - j) + 1 < (Len(page) - i) + 1
      BY <1>10, <1>13, <2>1
    <3>2. Newer(page[(Len(page) - i) + 1], page[(Len(page) - j) + 1])
      BY <1>6, <1>11, <2>1, <3>1 DEF PageInv
    <3>3. QED
      BY <1>11, <2>1, <3>1, <3>2
  <2>2. CASE ~ (j <= Len(page)) /\ i <= Len(page)
    <3>1. Newer(page[(Len(page) - i) + 1], old[j - Len(page)])
      BY <1>5, <1>6, <1>11, <1>12, <2>2 DEF PageInv
    <3>2. QED
      BY <1>11, <1>12, <2>2, <3>1
  <2>3. CASE ~ (i <= Len(page))
    <3>1. ~ (j <= Len(page)) /\ i - Len(page) < j - Len(page)
      BY <1>10, <1>13, <2>3
    <3>2. NewestFirst(old)
      BY <1>5 DEF ConsoleInv, FeedInv
    <3>3. Newer(old[i - Len(page)], old[j - Len(page)])
      BY <1>12, <2>3, <3>1, <3>2 DEF NewestFirst
    <3>4. QED
      BY <1>12, <2>3, <3>1, <3>3
  <2>4. QED
    BY <2>1, <2>2, <2>3
<1>14. ASSUME NEW i \in 1..Len(shown) PROVE Past(shown[i], q.latest) /\ Past(shown[i], seq)
  <2>1. CASE i <= Len(page)
    BY <1>6, <1>11, <2>1 DEF PageInv
  <2>2. CASE ~ (i <= Len(page))
    <3>1. Past(old[i - Len(page)], q.latest) /\ Past(old[i - Len(page)], seq)
      BY <1>5, <1>6, <1>12, <2>2 DEF ConsoleInv, FeedInv
    <3>2. QED
      BY <1>12, <2>2, <3>1
  <2>3. QED
    BY <2>1, <2>2
<1>15. FeedInv'
  BY <1>2, <1>4, <1>7, <1>13, <1>14 DEF FeedInv, NewestFirst, Newer, Past
<1>16. LogInv'
  BY <1>2 DEF ConsoleInv, LogInv, Increasing
<1>17. \A k \in Requests : requests'[k] = Idle
  <2>1. ASSUME NEW k \in Requests, k # r PROVE requests[k] = Idle
    BY <1>2, <2>1, OneAtATime DEF AsksInTurn
  <2>2. QED
    BY <1>2, <1>3, <2>1
<1>18. QED
  BY <1>1, <1>15, <1>16, <1>17 DEF ConsoleInv

(* A request asks after the cursor of the time it is sent, and no answer   *)
(* moves the cursor under it.  A change of identity starts the feed anew,  *)
(* and asks: in turn, when nothing else is in flight.                      *)
LEMMA AskingKeepsOrder ==
  ASSUME ConsoleInv, AsksInTurn', NEW r \in Requests,
         \/ poll(r) \/ refreshAll(r) \/ loaded(r) \/ onFailure(r)
         \/ \E tenant \in Tenants : switch_identity(r, tenant)
  PROVE  ConsoleInv'
<1>1. TypeOK'
  BY ConsoleType DEF ConsoleInv
<1>2. /\ requests \in [Requests -> Request \cup {Idle}] /\ cursor \in 0..MaxSeq
      /\ session \in Tenants
  BY DEF ConsoleInv, TypeOK
<1>3. seq' = seq /\ log' = log /\ restarts' = restarts
  BY DEF poll, refreshAll, loaded, onFailure, switch_identity, serverVars
<1>4. LogInv'
  BY <1>3 DEF ConsoleInv, LogInv, Increasing
<1>5. CASE poll(r) \/ refreshAll(r) \/ loaded(r) \/ onFailure(r)
  <2>1. cursor' = cursor /\ feed' = feed
    BY <1>5 DEF poll, refreshAll, loaded, onFailure, consoleVars
  <2>2. FeedInv'
    BY <1>3, <2>1 DEF ConsoleInv, FeedInv, NewestFirst, Newer, Past
  <2>3. PICK p : /\ requests' = [requests EXCEPT ![r] = p]
                 /\ p # Idle => p.phase = "loading" \/ (p.phase = "sent" /\ p.after = cursor)
    <3>1. CASE poll(r)
      BY <1>2, <3>1, RequestTypes DEF poll
    <3>2. CASE refreshAll(r)
      BY <1>2, <3>2, RequestTypes DEF refreshAll
    <3>3. CASE loaded(r)
      <4>1. requests[r] \in Request
        BY <1>2, <3>3 DEF loaded, InPhase
      <4>2. PICK tenant \in Tenants : tenant = requests[r].tenant
        BY <4>1 DEF Request
      <4>3. requests' = [requests EXCEPT ![r] = sent(tenant)]
        BY <1>2, <3>3, <4>2 DEF loaded
      <4>4. QED
        BY <1>2, <4>3, RequestTypes
    <3>4. CASE onFailure(r)
      BY <3>4 DEF onFailure
    <3>5. QED
      BY <1>5, <3>1, <3>2, <3>3, <3>4
  <2>4. ASSUME NEW k \in Requests, requests'[k] # Idle PROVE RequestInv(requests[k])'
    <3>1. RequestInv(requests'[k])
      <4>1. CASE k = r
        <5>1. requests'[k] = p
          BY <1>2, <2>3, <4>1
        <5>2. QED
          BY <2>3, <2>4, <5>1 DEF RequestInv
      <4>2. CASE k # r
        <5>1. requests'[k] = requests[k]
          BY <1>2, <2>3, <4>2
        <5>2. QED
          BY <2>4, <5>1 DEF ConsoleInv
      <4>3. QED
        BY <4>1, <4>2
    <3>2. QED
      BY <1>3, <2>1, <3>1 DEF RequestInv, PageInv, Newer, Past
  <2>5. QED
    BY <1>1, <1>4, <2>2, <2>4 DEF ConsoleInv
<1>6. ASSUME NEW tenant \in Tenants, switch_identity(r, tenant) PROVE ConsoleInv'
  <2>1. /\ cursor' = 0 /\ feed' = <<>> /\ requests' = [requests EXCEPT ![r] = loading(tenant)]
    BY <1>6 DEF switch_identity
  <2>2. FeedInv'
    BY <2>1 DEF FeedInv, NewestFirst
  <2>3. /\ requests'[r] = loading(tenant) /\ loading(tenant) # Idle
        /\ loading(tenant).phase = "loading"
    BY <1>2, <2>1, RequestTypes
  <2>4. ASSUME NEW k \in Requests, requests'[k] # Idle PROVE k = r
    <3>1. requests'[r] # Idle
      BY <2>3
    <3>2. Cardinality({h \in Requests : requests'[h] # Idle}) <= 1
      BY DEF AsksInTurn
    <3>3. QED
      BY <2>4, <3>1, <3>2, OneAtATime
  <2>5. ASSUME NEW k \in Requests, requests'[k] # Idle PROVE RequestInv(requests[k])'
    <3>1. requests'[k].phase = "loading"
      BY <2>3, <2>4, <2>5
    <3>2. QED
      BY <3>1 DEF RequestInv
  <2>6. QED
    BY <1>1, <1>4, <2>2, <2>5 DEF ConsoleInv
<1>7. QED
  BY <1>5, <1>6

(* What puts the console online, or changes nothing.                       *)
LEMMA StillKeepsOrder == ConsoleInv /\ (loadItems \/ UNCHANGED vars) => ConsoleInv'
<1>1. SUFFICES ASSUME ConsoleInv, loadItems \/ UNCHANGED vars PROVE ConsoleInv'
  OBVIOUS
<1>2. TypeOK'
  <2>1. CASE loadItems
    BY <1>1, <2>1, ConsoleType DEF ConsoleInv
  <2>2. CASE UNCHANGED vars
    BY <1>1, <2>2 DEF ConsoleInv, TypeOK, vars, serverVars, consoleVars
  <2>3. QED
    BY <1>1, <2>1, <2>2
<1>3. /\ seq' = seq /\ log' = log /\ restarts' = restarts /\ requests' = requests
      /\ feed' = feed /\ cursor' = cursor
  BY <1>1 DEF loadItems, vars, serverVars, consoleVars
<1>4. LogInv' /\ FeedInv'
  BY <1>1, <1>3 DEF ConsoleInv, LogInv, FeedInv, Increasing, NewestFirst, Newer, Past
<1>5. ASSUME NEW r \in Requests, requests'[r] # Idle PROVE RequestInv(requests[r])'
  BY <1>1, <1>3, <1>5 DEF ConsoleInv, RequestInv, PageInv, Newer, Past
<1>6. QED
  BY <1>2, <1>4, <1>5 DEF ConsoleInv

(* A console that has one request in flight at most shows every event once, *)
(* the newest first, over restarts, failures and changes of identity.      *)
THEOREM FeedStaysInOrder == Spec => FeedInOrder
<1> DEFINE Shown == \A i, j \in DOMAIN feed : i < j => Newer(feed[i], feed[j])
<1>1. Init => ConsoleInv
  BY InitOrder
<1>2. ConsoleInv /\ AsksInTurn /\ AsksInTurn' /\ [Next]_vars => ConsoleInv'
  BY RecordKeepsOrder, ClearKeepsOrder, RestartKeepsOrder, HandlerKeepsOrder,
     LoadKeepsOrder, AskingKeepsOrder, StillKeepsOrder DEF Next
<1>3. ConsoleInv => Shown
  <2>1. SUFFICES ASSUME ConsoleInv PROVE Shown
    OBVIOUS
  <2>2. DOMAIN feed = 1..Len(feed)
    BY <2>1 DEF ConsoleInv, TypeOK
  <2>3. QED
    BY <2>1, <2>2 DEF ConsoleInv, FeedInv, NewestFirst
<1>4. Spec /\ []AsksInTurn => []Shown
  <2> HIDE DEF Shown
  <2>1. QED
    BY <1>1, <1>2, <1>3, PTL DEF Spec
<1>5. QED
  BY <1>4, PTL DEF FeedInOrder
=============================================================================
