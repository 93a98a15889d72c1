---------------------- MODULE PowerRefEventManagerProofs ----------------------
(***************************************************************************)
(* Proofs about PowerRefEventManager, for any triggers and any number of   *)
(* events.                                                                 *)
(*                                                                         *)
(* processedEventHandler pops the head whoever calls it, so everything     *)
(* rests on there being one caller to come at most: OneAnswer.  A request  *)
(* that is out, an error or a RESUME callback, an accepted suspend and its *)
(* ack indication are four stages of one answer, which is the head's.      *)
(* EventsTold ties each id to its place in the queue and to the number of  *)
(* notifications; EndsOfQueue says that the two ends of the queue are what *)
(* was last asked for and what was last pushed.                            *)
(*                                                                         *)
(* The loops over the queue are a least index and a recursive function;    *)
(* what they compute is shown first, by minimal counterexamples.           *)
(***************************************************************************)
EXTENDS PowerRefEventManager, WellFoundedInduction, TLAPS

\* The command callbacks that pop the queue.
Poppers == {c \in callbacks : ~c.ok \/ c.e.st = "RESUME"}

\* At most one answer is to come.
OneAnswer ==
    /\ sending # NoEvent => Poppers = {} /\ expected = {} /\ ackStatus = {}
    /\ Poppers # {} => expected = {} /\ ackStatus = {}
    /\ expected # {} => ackStatus = {}
    /\ \A c, d \in Poppers : c = d
    /\ \A e, f \in expected : e = f
    /\ \A a, b \in ackStatus : a = b

\* No two events of the queue are the same.
Distinct(q) == \A i, j \in 1 .. Len(q) : q[i].id = q[j].id => i = j

Queued(i) == \E k \in 1 .. Len(eventQueue_) : eventQueue_[k].id = i

\* An id that was not pushed is unknown, one in the queue has not been answered, any
\* other has been answered once.
EventsTold ==
    /\ Distinct(eventQueue_)
    /\ \A i \in Ids : status[i] = "NONE" => ~Queued(i)
    /\ \A i \in Ids : answers[i] = IF status[i] = "NONE" \/ Queued(i) THEN 0 ELSE 1
    /\ \A c \in callbacks : status[c.e.id] # "NONE"

\* The head is what was last asked of the server, the last event what was last pushed.
EndsOfQueue ==
    /\ eventQueue_ # <<>> => eventQueue_[1].st = lastSent
                             /\ eventQueue_[Len(eventQueue_)].st = latest
    /\ LatestWins

EMInv == EMTypeOK /\ OneAnswer /\ AnswerIsForHead /\ EventsTold /\ EndsOfQueue /\ LockGivenBack

-----------------------------------------------------------------------------
(* What the loops over eventQueue_ compute.                                 *)

\* Every set of natural numbers that is not empty has a least element.
LEMMA LeastNumber ==
    ASSUME NEW T, T \subseteq Nat, T # {}
    PROVE  \E x \in T : \A y \in T : x <= y
<1> DEFINE R == OpToRel(<, Nat)
<1>1. ASSUME NEW x \in Nat, NEW y \in Nat, y < x PROVE <<y, x>> \in R
  BY <1>1 DEF OpToRel
<1>2. IsWellFoundedOn(R, Nat)
  BY NatLessThanWellFounded
<1> HIDE DEF R
<1>3. PICK x \in T : \A y \in T : ~ (<<y, x>> \in R)
  BY <1>2, WFMin, Zenon
<1>4. ASSUME NEW y \in T PROVE x <= y
  <2>1. ~(y < x)
    BY <1>1, <1>3
  <2> QED BY <2>1
<1> QED BY <1>4

\* processedEventHandler finds the leading events that ask for what the head asks for.
LEMMA DuplicatesFacts ==
    ASSUME NEW q \in Seq(Event), q # <<>>
    PROVE  /\ Duplicates(q) \in 1 .. Len(q)
           /\ \A k \in 1 .. Duplicates(q) : q[k].st = Head(q).st
<1> DEFINE others == {i \in 1 .. Len(q) : q[i].st # Head(q).st}
<1>1. SelectInSeq(q, LAMBDA e : e.st # Head(q).st) = IF others # {} THEN Min(others) ELSE 0
  BY Zenon DEF SelectInSeq
<1>2. Len(q) \in Nat \ {0} /\ Head(q) = q[1] /\ others \subseteq 1 .. Len(q) /\ 1 \notin others
  OBVIOUS
<1>3. CASE others = {}
  <2>1. Duplicates(q) = Len(q)
    BY <1>1, <1>3 DEF Duplicates
  <2> QED BY <1>2, <1>3, <2>1
<1>4. CASE others # {}
  <2> DEFINE least == Min(others)
  <2>1. least \in others /\ \A j \in others : least <= j
    <3>1. others \subseteq Nat
      OBVIOUS
    <3> HIDE DEF others
    <3>2. \E i \in others : \A j \in others : i <= j
      BY <1>4, <3>1, LeastNumber
    <3> QED BY <3>2 DEF Min
  <2> HIDE DEF least
  <2>2. least \in 2 .. Len(q)
    BY <1>2, <2>1
  <2>3. Duplicates(q) = least - 1
    <3>1. SelectInSeq(q, LAMBDA e : e.st # Head(q).st) = least
      BY <1>1, <1>4 DEF least
    <3> QED BY <2>2, <3>1 DEF Duplicates
  <2>4. \A k \in 1 .. least - 1 : k \notin others
    BY <2>1, <2>2
  <2> QED BY <1>2, <2>2, <2>3, <2>4
<1> QED BY <1>3, <1>4

\* The recursion of the erasing loop, as a function of its own.
KeptLoop(q, out) ==
    CHOOSE f : f = [k \in 0 .. Len(q) |->
                      IF k = 0 THEN <<>>
                      ELSE IF q[k].id \in out THEN f[k - 1] ELSE Append(f[k - 1], q[k])]

\* It is well defined: the loop can be carried on from each event to the next.
LEMMA KeptLoopDef ==
    ASSUME NEW q \in Seq(Event), NEW out
    PROVE  /\ Kept(q, out) = KeptLoop(q, out)[Len(q)]
           /\ KeptLoop(q, out)[0] = <<>>
           /\ \A k \in 1 .. Len(q) : KeptLoop(q, out)[k] =
                  IF q[k].id \in out THEN KeptLoop(q, out)[k - 1]
                  ELSE Append(KeptLoop(q, out)[k - 1], q[k])
<1> DEFINE Body(f, k) == IF k = 0 THEN <<>>
                         ELSE IF q[k].id \in out THEN f[k - 1] ELSE Append(f[k - 1], q[k])
           Upto(n) == \E f : f = [k \in 0 .. n |-> Body(f, k)]
<1>1. Upto(0)
  <2> DEFINE g == [k \in 0 .. 0 |-> <<>>]
  <2>1. g = [k \in 0 .. 0 |-> Body(g, k)]
    OBVIOUS
  <2> QED BY <2>1
<1>2. ASSUME NEW n \in Nat, Upto(n) PROVE Upto(n + 1)
  <2>1. PICK f : f = [k \in 0 .. n |-> Body(f, k)]
    BY <1>2
  <2> DEFINE g == [k \in 0 .. n + 1 |-> IF k = n + 1 THEN Body(f, k) ELSE f[k]]
  <2>2. \A k \in 0 .. n : g[k] = f[k] /\ f[k] = Body(f, k)
    <3> HIDE DEF Body
    <3>1. \A k \in 0 .. n : f[k] = Body(f, k)
      BY <2>1
    <3> QED BY <3>1
  <2>3. \A k \in 0 .. n + 1 : Body(g, k) = Body(f, k)
    BY <2>2
  <2>4. \A k \in 0 .. n + 1 : g[k] = Body(g, k)
    <3> HIDE DEF Body
    <3>1. g[n + 1] = Body(f, n + 1)
      OBVIOUS
    <3>2. \A k \in 0 .. n + 1 : k = n + 1 \/ k \in 0 .. n
      OBVIOUS
    <3> HIDE DEF g
    <3>3. \A k \in 0 .. n + 1 : g[k] = Body(f, k)
      BY <2>2, <3>1, <3>2
    <3> QED BY <2>3, <3>3
  <2>5. g = [k \in 0 .. n + 1 |-> Body(g, k)]
    BY <2>4
  <2> QED BY <2>5
<1>3. Upto(Len(q))
  <2> SUFFICES ASSUME ~Upto(Len(q)) PROVE FALSE
    OBVIOUS
  <2> DEFINE T == {n \in Nat : ~Upto(n)}
  <2> HIDE DEF Upto
  <2>1. T \subseteq Nat /\ T # {}
    OBVIOUS
  <2>2. PICK n \in T : \A m \in T : n <= m
    <3> HIDE DEF T
    <3> QED BY <2>1, LeastNumber
  <2>3. n \in Nat /\ n # 0 /\ ~Upto(n)
    BY <1>1
  <2>4. Upto(n - 1)
    BY <2>2, <2>3
  <2> QED BY <1>2, <2>3, <2>4
<1>4. KeptLoop(q, out) = [k \in 0 .. Len(q) |-> Body(KeptLoop(q, out), k)]
  BY <1>3, Zenon DEF KeptLoop
<1>5. Kept(q, out) = KeptLoop(q, out)[Len(q)]
  BY DEF Kept, KeptLoop
<1> HIDE DEF KeptLoop
<1>6. \A k \in 0 .. Len(q) : KeptLoop(q, out)[k] = Body(KeptLoop(q, out), k)
  BY <1>4
<1> QED BY <1>5, <1>6
\* r holds, in order, what is left of the first k events of q.
LeftOf(r, q, k, out) ==
    /\ r \in Seq(Event)
    /\ \A i \in 1 .. Len(r) : \E j \in 1 .. k : r[i] = q[j] /\ q[j].id \notin out
    /\ \A j \in 1 .. k : q[j].id \notin out => \E i \in 1 .. Len(r) : r[i] = q[j]
    /\ Distinct(r)
    /\ k > 0 /\ q[1].id \notin out => r # <<>> /\ r[1] = q[1]

\* One round of the erasing loop.
LEMMA LeftOfStep ==
    ASSUME NEW q \in Seq(Event), Distinct(q), NEW out, NEW k \in 1 .. Len(q),
           NEW r, LeftOf(r, q, k - 1, out)
    PROVE  LeftOf(IF q[k].id \in out THEN r ELSE Append(r, q[k]), q, k, out)
<1>1. CASE q[k].id \in out
  BY <1>1 DEF LeftOf
<1>2. CASE q[k].id \notin out
  <2> DEFINE s == Append(r, q[k])
  <2>1. /\ s \in Seq(Event) /\ Len(s) = Len(r) + 1 /\ Len(r) \in Nat /\ s # <<>>
        /\ s[Len(r) + 1] = q[k] /\ \A i \in 1 .. Len(r) : s[i] = r[i]
    <3>1. r \in Seq(Event) /\ q[k] \in Event
      BY DEF LeftOf
    <3> QED BY <3>1
  <2> HIDE DEF s
  <2>2. \A i \in 1 .. Len(s) : \E j \in 1 .. k : s[i] = q[j] /\ q[j].id \notin out
    <3> SUFFICES ASSUME NEW i \in 1 .. Len(s)
                 PROVE  \E j \in 1 .. k : s[i] = q[j] /\ q[j].id \notin out
      OBVIOUS
    <3>1. CASE i = Len(r) + 1
      BY <1>2, <2>1, <3>1
    <3>2. CASE i \in 1 .. Len(r)
      <4>1. PICK j \in 1 .. k - 1 : r[i] = q[j] /\ q[j].id \notin out
        BY <3>2 DEF LeftOf
      <4> QED BY <2>1, <3>2, <4>1
    <3> QED BY <2>1, <3>1, <3>2
  <2>3. \A j \in 1 .. k : q[j].id \notin out => \E i \in 1 .. Len(s) : s[i] = q[j]
    <3> SUFFICES ASSUME NEW j \in 1 .. k, q[j].id \notin out
                 PROVE  \E i \in 1 .. Len(s) : s[i] = q[j]
      OBVIOUS
    <3>1. CASE j = k
      BY <2>1, <3>1
    <3>2. CASE j # k
      <4>1. PICK i \in 1 .. Len(r) : r[i] = q[j]
        BY <3>2 DEF LeftOf
      <4> QED BY <2>1, <4>1
    <3> QED BY <3>1, <3>2
  <2>4. Distinct(s)
    <3>1. \A i \in 1 .. Len(r) : s[i].id # q[k].id
      <4> SUFFICES ASSUME NEW i \in 1 .. Len(r) PROVE s[i].id # q[k].id
        OBVIOUS
      <4>1. PICK j \in 1 .. k - 1 : r[i] = q[j]
        BY DEF LeftOf
      <4> QED BY <2>1, <4>1 DEF Distinct
    <3>2. \A i, j \in 1 .. Len(r) : s[i].id = s[j].id => i = j
      BY <2>1 DEF LeftOf, Distinct
    <3>3. \A i \in 1 .. Len(s) : i \in 1 .. Len(r) \/ i = Len(r) + 1
      BY <2>1
    <3> QED BY <2>1, <3>1, <3>2, <3>3 DEF Distinct
  <2>5. q[1].id \notin out => s[1] = q[1]
    <3>1. CASE k = 1
      <4>1. Len(r) = 0
        BY <3>1 DEF LeftOf
      <4> QED BY <2>1, <3>1, <4>1
    <3>2. CASE k # 1
      <4> SUFFICES ASSUME q[1].id \notin out PROVE s[1] = q[1]
        OBVIOUS
      <4>1. r # <<>> /\ r[1] = q[1] /\ r \in Seq(Event)
        BY <3>2 DEF LeftOf
      <4>2. 1 \in 1 .. Len(r)
        BY <4>1
      <4> QED BY <2>1, <4>1, <4>2
    <3> QED BY <3>1, <3>2
  <2> QED BY <1>2, <2>1, <2>2, <2>3, <2>4, <2>5, ZenonT(60) DEF LeftOf, s
<1> QED BY <1>1, <1>2

\* pushEvent leaves the events that are not overridden, each once, and the head first.
LEMMA KeptFacts ==
    ASSUME NEW q \in Seq(Event), Distinct(q), NEW out
    PROVE  LeftOf(Kept(q, out), q, Len(q), out)
<1> DEFINE f == KeptLoop(q, out)
           Good(k) == k \in 0 .. Len(q) => LeftOf(f[k], q, k, out)
<1> HIDE DEF f
<1>1. Good(0)
  <2>1. f[0] = <<>>
    BY KeptLoopDef DEF f
  <2> QED BY <2>1 DEF LeftOf, Distinct
<1>2. ASSUME NEW n \in Nat, Good(n) PROVE Good(n + 1)
  <2> SUFFICES ASSUME n + 1 \in 0 .. Len(q) PROVE LeftOf(f[n + 1], q, n + 1, out)
    OBVIOUS
  <2>1. n + 1 \in 1 .. Len(q) /\ (n + 1) - 1 = n /\ LeftOf(f[n], q, n, out)
    BY <1>2
  <2>2. f[n + 1] = IF q[n + 1].id \in out THEN f[n] ELSE Append(f[n], q[n + 1])
    <3>1. \A k \in 1 .. Len(q) : f[k] = IF q[k].id \in out THEN f[k - 1] ELSE Append(f[k - 1], q[k])
      BY KeptLoopDef DEF f
    <3> QED BY <2>1, <3>1
  <2> QED BY <2>1, <2>2, LeftOfStep
<1> HIDE DEF Good
<1>3. Good(Len(q))
  <2> SUFFICES ASSUME ~Good(Len(q)) PROVE FALSE
    OBVIOUS
  <2> DEFINE T == {n \in Nat : ~Good(n)}
  <2>1. T \subseteq Nat /\ T # {}
    OBVIOUS
  <2>2. PICK n \in T : \A m \in T : n <= m
    <3> HIDE DEF T
    <3> QED BY <2>1, LeastNumber
  <2>3. n \in Nat /\ n # 0 /\ ~Good(n)
    BY <1>1
  <2>4. Good(n - 1)
    BY <2>2, <2>3
  <2> QED BY <1>2, <2>3, <2>4
<1>4. LeftOf(f[Len(q)], q, Len(q), out)
  BY <1>3 DEF Good
<1> QED BY <1>4, KeptLoopDef DEF f
-----------------------------------------------------------------------------
\* What is known of an event.
LEMMA EventFacts ==
    ASSUME NEW e \in Event
    PROVE  e.id \in Ids /\ e.st \in TcuStates /\ e # NoEvent
<1>1. PICK i \in Ids, t \in Triggers : e = [id |-> i, st |-> t.st, mach |-> t.mach]
  BY DEF Event
<1>2. e.id = i /\ e.st = t.st /\ i # 0 /\ t.st \in TcuStates
  BY <1>1, EventAssumption DEF Ids
<1> QED BY <1>2 DEF NoEvent

\* What processedEventHandler and pushEvent must leave of the queue, the notifications
\* and the request.
QueuePart ==
    /\ eventQueue_ \in Seq(Event) /\ status \in [Ids -> EventStatus]
    /\ answers \in [Ids -> 0 .. 2] /\ latest \in TcuStates /\ lastSent \in TcuStates
    /\ sending \in Event \cup {NoEvent} /\ thenRelease \in BOOLEAN
    /\ releases \in Nat /\ wakeLock \in BOOLEAN
    /\ Distinct(eventQueue_)
    /\ \A i \in Ids : status[i] = "NONE" => ~Queued(i)
    /\ \A i \in Ids : answers[i] = IF status[i] = "NONE" \/ Queued(i) THEN 0 ELSE 1
    /\ EndsOfQueue /\ LockGivenBack
    /\ sending # NoEvent => IsFirst(sending)

LEMMA QueuePartOfInv == EMInv => QueuePart
  BY DEF EMInv, EMTypeOK, EventsTold, QueuePart, AnswerIsForHead, Pending

\* What processedEventHandler(st, _) makes of a queue that is not empty: the head
\* leaves; if all do, they are told st, otherwise the next request goes out.
HandlerEffect(st) ==
    /\ \A i \in Ids : /\ Queued(i)' => Queued(i)
                      /\ status'[i] # "NONE" <=> status[i] # "NONE"
                      /\ ~Queued(i) => status'[i] = status[i]
    /\ \A i \in Ids : i = eventQueue_[1].id => ~Queued(i)'
    /\ eventQueue_' = <<>> => /\ sending' = NoEvent /\ lastSent' = lastSent
                              /\ \A i \in Ids : Queued(i) => status'[i] = st
    /\ eventQueue_' # <<>> => /\ sending' # NoEvent
                              /\ eventQueue_'[Len(eventQueue_')] = eventQueue_[Len(eventQueue_)]

\* processedEventHandler, called for the head: the leading duplicates are told once and
\* leave, the next event becomes the head and is asked for, or the lock is given back.
LEMMA Processed ==
    ASSUME QueuePart, eventQueue_ # <<>>, NEW st \in AckStatus, NEW release \in BOOLEAN,
           processedEventHandler(st, release)
    PROVE  /\ QueuePart' /\ \A i \in Ids : status[i] # "NONE" => status'[i] # "NONE"
           /\ HandlerEffect(st)
<1> DEFINE q == eventQueue_
           n == Duplicates(q)
           done == SubSeq(q, 1, n)
           rest == SubSeq(q, n + 1, Len(q))
           out == Outcome(q, st)
<1>1. /\ Unlocked /\ Notify(IdsOf(done), out) /\ q' = rest /\ Continue(q', release)
      /\ latest' = latest
  BY DEF processedEventHandler
<1>2. q \in Seq(Event) /\ n \in 1 .. Len(q) /\ \A k \in 1 .. n : q[k].st = q[1].st
  BY DuplicatesFacts DEF QueuePart
<1> HIDE DEF n
<1>3. Len(q) \in Nat \ {0} /\ \A k \in 1 .. Len(q) : q[k] \in Event
  BY <1>2
<1>4. /\ rest \in Seq(Event) /\ Len(rest) = Len(q) - n
      /\ \A k \in 1 .. Len(q) - n : rest[k] = q[n + k]
  BY <1>2
<1>5. done \in Seq(Event) /\ Len(done) = n /\ \A k \in 1 .. n : done[k] = q[k]
  BY <1>2
<1>6. \A i : i \in IdsOf(done) <=> \E k \in 1 .. n : q[k].id = i
  <2>1. DOMAIN done = 1 .. n
    BY <1>5
  <2> HIDE DEF done, q
  <2> QED BY <1>5, <2>1 DEF IdsOf, ToSet
<1>7. out \in Final \ {"NONE"}
  BY DEF Outcome, Final, AckStatus
<1> DEFINE gone == IdsOf(done)
<1>8. /\ answers' = [i \in Ids |-> IF i \in gone THEN answers[i] + 1 ELSE answers[i]]
      /\ status' = [i \in Ids |-> IF i \in gone THEN out ELSE status[i]]
  BY <1>1 DEF Notify
<1> HIDE DEF out, done, rest, gone
<1>9. \A i \in Ids : status[i] # "NONE" <=> status'[i] # "NONE"
  <2> SUFFICES ASSUME NEW i \in Ids PROVE status[i] # "NONE" <=> status'[i] # "NONE"
    OBVIOUS
  <2>1. i \in gone => status[i] # "NONE"
    BY <1>2, <1>6 DEF gone, QueuePart, Queued
  <2> QED BY <2>1, <1>7, <1>8
<1>10. \A i \in Ids : Queued(i)' <=> Queued(i) /\ i \notin gone
  <2> SUFFICES ASSUME NEW i \in Ids PROVE Queued(i)' <=> Queued(i) /\ i \notin gone
    OBVIOUS
  <2>1. Queued(i)' <=> \E k \in 1 .. Len(rest) : rest[k].id = i
    BY <1>1 DEF Queued
  <2>2. (\E k \in 1 .. Len(rest) : rest[k].id = i) <=> \E k \in n + 1 .. Len(q) : q[k].id = i
    <3>1. ASSUME NEW k \in 1 .. Len(rest), rest[k].id = i
          PROVE  \E j \in n + 1 .. Len(q) : q[j].id = i
      BY <3>1, <1>2, <1>4
    <3>2. ASSUME NEW k \in n + 1 .. Len(q), q[k].id = i
          PROVE  \E j \in 1 .. Len(rest) : rest[j].id = i
      <4>1. k - n \in 1 .. Len(q) - n /\ n + (k - n) = k
        BY <1>2, <1>3
      <4> QED BY <3>2, <4>1, <1>4
    <3> QED BY <3>1, <3>2
  <2>3. Queued(i) <=> (\E k \in n + 1 .. Len(q) : q[k].id = i) \/ i \in gone
    BY <1>2, <1>3, <1>6 DEF Queued, gone
  <2>4. ASSUME NEW k \in n + 1 .. Len(q), q[k].id = i PROVE i \notin gone
    BY <2>4, <1>2, <1>3, <1>6 DEF gone, QueuePart, Distinct
  <2> QED BY <2>1, <2>2, <2>3, <2>4
<1>11. gone \subseteq {i \in Ids : Queued(i)}
  <2> SUFFICES ASSUME NEW i \in gone PROVE i \in Ids /\ Queued(i)
    OBVIOUS
  <2>1. PICK k \in 1 .. n : q[k].id = i
    BY <1>6 DEF gone
  <2> QED BY <2>1, <1>2, <1>3, EventFacts DEF Queued
<1>12. \A i \in Ids : answers'[i] = IF status'[i] = "NONE" \/ Queued(i)' THEN 0 ELSE 1
  BY <1>8, <1>9, <1>10, <1>11 DEF QueuePart
<1>13. \A i \in Ids : status'[i] = "NONE" => ~Queued(i)'
  BY <1>9, <1>10 DEF QueuePart
<1>14. status' \in [Ids -> EventStatus] /\ answers' \in [Ids -> 0 .. 2]
  <2>1. status' \in [Ids -> EventStatus]
    BY <1>7, <1>8 DEF QueuePart, EventStatus
  <2>2. answers' \in [Ids -> 0 .. 2]
    BY <1>8, <1>12
  <2> QED BY <2>1, <2>2
<1>15. Distinct(eventQueue_)'
  <2> SUFFICES ASSUME NEW i \in 1 .. Len(rest), NEW j \in 1 .. Len(rest), rest[i].id = rest[j].id
               PROVE  i = j
    BY <1>1 DEF Distinct
  <2>1. n + i \in 1 .. Len(q) /\ n + j \in 1 .. Len(q) /\ q[n + i].id = q[n + j].id
    BY <1>2, <1>3, <1>4
  <2>2. n + i = n + j
    BY <2>1 DEF QueuePart, Distinct
  <2> QED BY <2>2, <1>2
<1>15a. /\ \A i \in Ids : /\ Queued(i)' => Queued(i)
                          /\ status'[i] # "NONE" <=> status[i] # "NONE"
                          /\ ~Queued(i) => status'[i] = status[i]
        /\ \A i \in Ids : i = eventQueue_[1].id => ~Queued(i)'
  <2>1. q[1].id \in gone /\ q[1].id \in Ids
    BY <1>2, <1>3, <1>6, EventFacts DEF gone
  <2>2. \A i \in Ids : i = eventQueue_[1].id => ~Queued(i)'
    BY <1>10, <2>1
  <2>3. ASSUME NEW i \in Ids, ~Queued(i) PROVE status'[i] = status[i]
    BY <1>8, <1>11, <2>3
  <2> QED BY <1>9, <1>10, <2>2, <2>3
<1>16. CASE rest = <<>>
  <2>1. n = Len(q)
    BY <1>2, <1>3, <1>4, <1>16
  <2>2. /\ wakeLock' = FALSE /\ sending' = NoEvent /\ thenRelease' = thenRelease
        /\ lastSent' = lastSent /\ releases' \in Nat
    BY <1>1, <1>16 DEF Continue, request, Unlocked, QueuePart
  <2>3. lastSent = latest
    BY <1>2, <1>3, <2>1 DEF QueuePart, EndsOfQueue
  <2>4. EndsOfQueue' /\ LockGivenBack'
    BY <1>1, <1>16, <2>2, <2>3 DEF EndsOfQueue, LatestWins, LockGivenBack
  <2>5. out = st
    BY <1>2, <1>3, <2>1 DEF out, Outcome, Last
  <2>6. \A i \in Ids : Queued(i) => status'[i] = st
    BY <1>1, <1>8, <1>10, <1>16, <2>5 DEF Queued
  <2>7. HandlerEffect(st)
    BY <1>1, <1>15a, <1>16, <2>2, <2>6 DEF HandlerEffect
  <2> QED BY <1>1, <1>4, <1>9, <1>12, <1>13, <1>14, <1>15, <2>2, <2>4, <2>7 DEF QueuePart
<1>17. CASE rest # <<>>
  <2>1. Len(rest) \in Nat \ {0} /\ rest[1] = Head(rest) /\ Head(rest) \in Event
    BY <1>4, <1>17
  <2>2. /\ sending' = Head(rest) /\ thenRelease' = release /\ lastSent' = rest[1].st
        /\ releases' = releases /\ wakeLock' = wakeLock
    BY <1>1, <1>17, <2>1 DEF Continue, StartRequest
  <2>3. rest[Len(rest)] = q[Len(q)]
    BY <1>2, <1>3, <1>4, <2>1
  <2>4. EndsOfQueue' /\ LockGivenBack'
    BY <1>1, <1>17, <2>2, <2>3 DEF QueuePart, EndsOfQueue, LatestWins, LockGivenBack
  <2>5. lastSent' \in TcuStates /\ IsFirst(sending)'
    BY <1>1, <1>17, <2>1, <2>2, EventFacts DEF IsFirst
  <2>6. HandlerEffect(st)
    BY <1>1, <1>15a, <1>17, <2>1, <2>2, <2>3, EventFacts DEF HandlerEffect
  <2> QED BY <1>1, <1>4, <1>9, <1>12, <1>13, <1>14, <1>15, <2>1, <2>2, <2>4, <2>5, <2>6 DEF QueuePart
<1> QED BY <1>16, <1>17

\* What pushEvent makes of a queue that is not empty: the event comes last, the others
\* stay or are told.
LEMMA PushedBehind ==
    ASSUME QueuePart, NEW e \in Event, PushBehind(e)
    PROVE  /\ \A i \in Ids : /\ Queued(i)' => Queued(i) \/ i = e.id
                             /\ status[i] # "NONE" => status'[i] # "NONE"
                             /\ status'[i] # "NONE" => status[i] # "NONE" \/ i = e.id
           /\ status'[e.id] # "NONE"
           /\ eventQueue_' # <<>> /\ eventQueue_'[Len(eventQueue_')] = e
           /\ sending' = sending
<1> DEFINE out == Overridden(eventQueue_, e.st)
           kept == Kept(eventQueue_, out)
<1>1. /\ eventQueue_' = Append(kept, e) /\ sending' = sending
      /\ status' = [i \in Ids |-> CASE i \in out -> "REJECTED_EVENT_OVERRIDDEN"
                                    [] i = e.id -> "IN_QUEUE"
                                    [] OTHER -> status[i]]
  BY DEF PushBehind, request
<1>2. e.id \in Ids
  BY EventFacts
<1>3. LeftOf(kept, eventQueue_, Len(eventQueue_), out)
  BY KeptFacts DEF QueuePart
<1>4. \A i \in out : Queued(i)
  <2>1. DOMAIN eventQueue_ = 1 .. Len(eventQueue_)
    BY DEF QueuePart
  <2> QED BY <2>1 DEF Overridden, ToSet, Queued
<1> HIDE DEF out, kept
<1>5. /\ kept \in Seq(Event)
      /\ \A k \in 1 .. Len(kept) : Queued(kept[k].id)
  BY <1>3 DEF LeftOf, Queued
<1>6. /\ Len(eventQueue_') = Len(kept) + 1 /\ Len(kept) \in Nat /\ eventQueue_' # <<>>
      /\ eventQueue_'[Len(kept) + 1] = e
      /\ \A k \in 1 .. Len(kept) : eventQueue_'[k] = kept[k]
  BY <1>1, <1>5
<1>7. ASSUME NEW i \in Ids, Queued(i)' PROVE Queued(i) \/ i = e.id
  <2>1. PICK k \in 1 .. Len(eventQueue_') : eventQueue_'[k].id = i
    BY <1>7 DEF Queued
  <2>2. k \in 1 .. Len(kept) \/ k = Len(kept) + 1
    BY <1>6
  <2> QED BY <1>5, <1>6, <2>1, <2>2
<1>8. ASSUME NEW i \in Ids
      PROVE  /\ status[i] # "NONE" => status'[i] # "NONE"
             /\ status'[i] # "NONE" => status[i] # "NONE" \/ i = e.id
  <2>1. status'[i] = IF i \in out THEN "REJECTED_EVENT_OVERRIDDEN"
                     ELSE IF i = e.id THEN "IN_QUEUE" ELSE status[i]
    <3>1. status'[i] = CASE i \in out -> "REJECTED_EVENT_OVERRIDDEN"
                         [] i = e.id -> "IN_QUEUE"
                         [] OTHER -> status[i]
      BY <1>1, Zenon
    <3>2. i \in out => i # e.id
      BY <1>4, EventFacts DEF PushBehind, NewEvent, QueuePart
    <3>3. CASE i \in out
      BY <3>1, <3>2, <3>3
    <3>4. CASE i \notin out
      BY <3>1, <3>4
    <3> QED BY <3>3, <3>4
  <2>2. i \in out => status[i] # "NONE"
    BY <1>4 DEF QueuePart
  <2> QED BY <2>1, <2>2
<1>9. status'[e.id] # "NONE"
  BY <1>1, <1>2
<1> QED BY <1>1, <1>6, <1>7, <1>8, <1>9

\* A push changes at most the queue's ends, and never its head.
LEMMA Pushed ==
    ASSUME QueuePart, NEW e \in Event,
           PushInvalidMachine(e) \/ PushBehind(e) \/ PushServiceDown(e) \/ PushFirst(e)
    PROVE  /\ QueuePart' /\ \A i \in Ids : status[i] # "NONE" => status'[i] # "NONE"
           /\ \A f : IsFirst(f) => IsFirst(f)'
<1>1. e.id \in Ids /\ e.st \in TcuStates /\ e # NoEvent /\ sending = NoEvent /\ status[e.id] = "NONE"
      /\ ~Queued(e.id) /\ answers[e.id] = 0
  BY EventFacts DEF PushInvalidMachine, PushBehind, PushServiceDown, PushFirst, NewEvent, Unlocked,
     QueuePart
<1>2. ASSUME NEW st \in Final, Notify({e.id}, st),
             UNCHANGED <<eventQueue_, latest, request, releases, wakeLock>>
      PROVE  /\ QueuePart' /\ \A i \in Ids : status[i] # "NONE" => status'[i] # "NONE"
             /\ \A f : IsFirst(f) => IsFirst(f)'
  <2>1. st # "NONE" /\ st \in EventStatus
    BY DEF Final, EventStatus
  <2>2. \A i \in Ids : /\ answers'[i] = IF i = e.id THEN 1 ELSE answers[i]
                       /\ status'[i] = IF i = e.id THEN st ELSE status[i]
    BY <1>1, <1>2 DEF Notify
  <2>3. status' \in [Ids -> EventStatus] /\ answers' \in [Ids -> 0 .. 2]
    BY <1>1, <1>2, <2>1 DEF Notify, QueuePart
  <2>4. \A i : Queued(i)' <=> Queued(i)
    BY <1>2 DEF Queued
  <2>5. \A i \in Ids : /\ status'[i] = "NONE" => ~Queued(i)'
                       /\ answers'[i] = IF status'[i] = "NONE" \/ Queued(i)' THEN 0 ELSE 1
    BY <1>1, <2>1, <2>2, <2>4 DEF QueuePart
  <2> QED BY <1>2, <2>1, <2>2, <2>3, <2>5 DEF QueuePart, Distinct, EndsOfQueue, LatestWins,
             LockGivenBack, IsFirst, request
<1>3. CASE PushInvalidMachine(e)
  BY <1>2, <1>3 DEF PushInvalidMachine, Final
<1>4. CASE PushServiceDown(e)
  BY <1>2, <1>4 DEF PushServiceDown, Final
<1>5. CASE PushFirst(e)
  <2>1. eventQueue_' = <<e>> /\ Len(eventQueue_') = 1 /\ eventQueue_'[1] = e /\ eventQueue_' # <<>>
        /\ eventQueue_' \in Seq(Event) /\ Head(eventQueue_') = e
    BY <1>5 DEF PushFirst
  <2>2. /\ status' = [status EXCEPT ![e.id] = "INITIALIZED"] /\ answers' = answers
        /\ sending' = e /\ thenRelease' = FALSE /\ lastSent' = e.st /\ latest' = e.st
        /\ wakeLock' = TRUE /\ releases' = releases /\ eventQueue_ = <<>>
    BY <1>5 DEF PushFirst, StartRequest
  <2>3. \A i \in Ids : (Queued(i)' <=> i = e.id) /\ ~Queued(i)
    BY <2>1, <2>2 DEF Queued
  <2>4. \A i \in Ids : /\ status'[i] = "NONE" => ~Queued(i)'
                       /\ answers'[i] = IF status'[i] = "NONE" \/ Queued(i)' THEN 0 ELSE 1
    BY <1>1, <2>2, <2>3 DEF QueuePart
  <2>5. status' \in [Ids -> EventStatus] /\ answers' \in [Ids -> 0 .. 2]
    BY <2>2 DEF QueuePart, EventStatus
  <2>6. Distinct(eventQueue_)' /\ EndsOfQueue' /\ LockGivenBack' /\ IsFirst(sending)'
    BY <2>1, <2>2 DEF Distinct, EndsOfQueue, LatestWins, LockGivenBack, IsFirst
  <2>7. QueuePart'
    BY <1>1, <2>1, <2>2, <2>4, <2>5, <2>6 DEF QueuePart
  <2>8. \A i \in Ids : status[i] # "NONE" => status'[i] # "NONE"
    BY <2>2 DEF QueuePart
  <2> QED BY <2>2, <2>7, <2>8 DEF IsFirst
<1>6. CASE PushBehind(e)
  <2> DEFINE q == eventQueue_
             out == Overridden(q, e.st)
             left == Kept(q, out)
  <2>1. /\ q' = Append(left, e) /\ latest' = e.st /\ q # <<>>
        /\ answers' = [i \in Ids |-> IF i \in out THEN answers[i] + 1 ELSE answers[i]]
        /\ status' = [i \in Ids |-> CASE i \in out -> "REJECTED_EVENT_OVERRIDDEN"
                                       [] i = e.id -> "IN_QUEUE"
                                       [] OTHER -> status[i]]
        /\ UNCHANGED <<request, releases, wakeLock>>
    BY <1>6 DEF PushBehind
  <2>2. q \in Seq(Event) /\ Distinct(q) /\ Len(q) \in Nat \ {0} /\ Head(q) = q[1]
        /\ \A k \in 1 .. Len(q) : q[k] \in Event
    BY <2>1 DEF QueuePart
  <2>3. LeftOf(left, q, Len(q), out)
    BY <2>2, KeptFacts
  <2>4. \A i : i \in out <=> \E k \in 1 .. Len(q) : q[k].id = i /\ q[k].st # e.st /\ q[k].st # q[1].st
    <3>1. DOMAIN q = 1 .. Len(q)
      BY <2>2
    <3> HIDE DEF q
    <3> QED BY <2>2, <3>1 DEF Overridden, ToSet
  <2>5. q[1].id \notin out
    BY <2>2, <2>4 DEF Distinct
  <2> HIDE DEF out, left
  <2>6. left \in Seq(Event) /\ left # <<>> /\ left[1] = q[1]
    BY <2>2, <2>3, <2>5 DEF LeftOf
  <2>7. /\ q' \in Seq(Event) /\ Len(left) \in Nat \ {0} /\ Len(q') = Len(left) + 1
        /\ q'[Len(left) + 1] = e /\ (\A k \in 1 .. Len(left) : q'[k] = left[k])
        /\ Head(q') = q'[1] /\ q' # <<>>
    BY <2>1, <2>6
  <2>8. \A i \in Ids : Queued(i)' <=> i = e.id \/ (Queued(i) /\ i \notin out)
    <3> SUFFICES ASSUME NEW i \in Ids
                 PROVE  Queued(i)' <=> i = e.id \/ (Queued(i) /\ i \notin out)
      OBVIOUS
    <3>1. Queued(i)' <=> i = e.id \/ \E k \in 1 .. Len(left) : left[k].id = i
      BY <2>7 DEF Queued
    <3>2. ASSUME NEW k \in 1 .. Len(left), left[k].id = i PROVE Queued(i) /\ i \notin out
      BY <2>3, <3>2 DEF LeftOf, Queued
    <3>3. ASSUME NEW k \in 1 .. Len(q), q[k].id = i, i \notin out
          PROVE  \E j \in 1 .. Len(left) : left[j].id = i
      BY <2>3, <3>3 DEF LeftOf
    <3> QED BY <3>1, <3>2, <3>3 DEF Queued
  <2>9. \A i \in Ids : i \in out => Queued(i) /\ i # e.id
    BY <1>1, <2>4 DEF Queued
  <2>10. \A i \in Ids : /\ answers'[i] = IF i \in out THEN answers[i] + 1 ELSE answers[i]
                        /\ i \in out => status'[i] = "REJECTED_EVENT_OVERRIDDEN"
                        /\ i = e.id => status'[i] = "IN_QUEUE"
                        /\ i \notin out /\ i # e.id => status'[i] = status[i]
    BY <2>1, <2>9
  <2>11. \A i \in Ids : /\ status'[i] = "NONE" => ~Queued(i)'
                        /\ answers'[i] = IF status'[i] = "NONE" \/ Queued(i)' THEN 0 ELSE 1
    BY <1>1, <2>8, <2>9, <2>10 DEF QueuePart
  <2>12. status' \in [Ids -> EventStatus]
    <3>1. \A i \in Ids : status'[i] \in EventStatus
      BY <2>10 DEF QueuePart, EventStatus, Final
    <3> QED BY <2>1, <3>1
  <2>13. answers' \in [Ids -> 0 .. 2]
    BY <2>1, <2>11
  <2>14. Distinct(q)'
    <3>1. \A k \in 1 .. Len(left) : left[k].id # e.id
      <4> SUFFICES ASSUME NEW k \in 1 .. Len(left) PROVE left[k].id # e.id
        OBVIOUS
      <4>1. PICK j \in 1 .. Len(q) : left[k] = q[j]
        BY <2>3 DEF LeftOf
      <4> QED BY <1>1, <4>1 DEF Queued
    <3>2. \A k \in 1 .. Len(q') : k \in 1 .. Len(left) \/ k = Len(left) + 1
      BY <2>7
    <3>3. Distinct(left)
      BY <2>3 DEF LeftOf
    <3> QED BY <2>7, <3>1, <3>2, <3>3, SMTT(30) DEF Distinct
  <2>15. q'[1] = q[1]
    BY <2>6, <2>7
  <2>16. EndsOfQueue' /\ LockGivenBack'
    BY <2>1, <2>7, <2>15, SMTT(30) DEF QueuePart, EndsOfQueue, LatestWins, LockGivenBack, request
  <2>17. \A f : IsFirst(f) => IsFirst(f)'
    BY <2>2, <2>7, <2>15 DEF IsFirst
  <2>18. QueuePart'
    BY <1>1, <2>1, <2>7, <2>11, <2>12, <2>13, <2>14, <2>16 DEF QueuePart, request
  <2> QED BY <2>10, <2>17, <2>18
<1> QED BY <1>3, <1>4, <1>5, <1>6
-----------------------------------------------------------------------------
\* What the server and the callback threads must leave of the answers to come.
AnswerPart ==
    /\ service \in BOOLEAN /\ callbacks \subseteq [e : Event, ok : BOOLEAN]
    /\ expected \subseteq Event /\ ackStatus \subseteq [e : Event, st : AckStatus]
    /\ lost \subseteq Ids
    /\ OneAnswer
    /\ \A c \in Poppers : IsFirst(c.e)
    /\ \A e \in expected : IsFirst(e)
    /\ \A a \in ackStatus : IsFirst(a.e)
    /\ \A c \in callbacks : status[c.e.id] # "NONE"

LEMMA InvInParts == EMInv <=> QueuePart /\ AnswerPart
<1>1. AnswerIsForHead <=> /\ sending # NoEvent => IsFirst(sending)
                          /\ \A c \in Poppers : IsFirst(c.e)
                          /\ \A e \in expected : IsFirst(e)
                          /\ \A a \in ackStatus : IsFirst(a.e)
  BY DEF AnswerIsForHead, Pending, Poppers
<1> QED BY <1>1 DEF EMInv, QueuePart, AnswerPart, EMTypeOK, EventsTold

\* The three facts that make EMInv an invariant of the event manager.
LEMMA EMInitially == EMInit => EMInv
<1> SUFFICES ASSUME EMInit PROVE EMInv
  OBVIOUS
<1>1. <<>> \in Seq(Event) /\ "NONE" \in EventStatus /\ "RESUME" \in TcuStates
  BY DEF EventStatus, TcuStates
<1>2. status \in [Ids -> EventStatus] /\ answers \in [Ids -> 0 .. 2] /\ releases \in Nat
  BY <1>1 DEF EMInit
<1>3. \A i : ~Queued(i)
  BY DEF EMInit, Queued
<1>4. QueuePart
  <2>1. \A i \in Ids : answers[i] = 0 /\ status[i] = "NONE"
    BY DEF EMInit
  <2>2. EndsOfQueue /\ LockGivenBack /\ Distinct(eventQueue_)
    BY DEF EMInit, EndsOfQueue, LatestWins, LockGivenBack, Distinct
  <2> QED BY <1>1, <1>2, <1>3, <2>1, <2>2 DEF EMInit, QueuePart
<1>5. AnswerPart
  BY DEF EMInit, AnswerPart, OneAnswer, Poppers
<1> QED BY <1>4, <1>5, InvInParts

LEMMA EMStep == QueuePart /\ AnswerPart /\ [EMNext]_emVars => QueuePart' /\ AnswerPart'
<1> SUFFICES ASSUME QueuePart, AnswerPart, [EMNext]_emVars PROVE QueuePart' /\ AnswerPart'
  OBVIOUS
<1>1. ASSUME NEW e \in Event, Push(e) PROVE QueuePart' /\ AnswerPart'
  <2>1. /\ QueuePart' /\ \A i \in Ids : status[i] # "NONE" => status'[i] # "NONE"
        /\ \A f : IsFirst(f) => IsFirst(f)'
    BY <1>1, Pushed DEF Push
  <2>2. UNCHANGED <<service, callbacks, expected, ackStatus, lost>>
    BY <1>1 DEF Push, PushInvalidMachine, PushBehind, PushServiceDown, PushFirst
  <2>3. Poppers' = Poppers
    BY <2>2 DEF Poppers
  <2>4. OneAnswer'
    <3>1. CASE sending' = NoEvent
      BY <2>2, <2>3, <3>1 DEF AnswerPart, OneAnswer
    <3>2. CASE sending' # NoEvent
      <4>1. eventQueue_ = <<>>
        BY <1>1, <3>2 DEF Push, PushInvalidMachine, PushBehind, PushServiceDown, PushFirst, NewEvent,
           Unlocked, request
      <4>2. Poppers = {} /\ expected = {} /\ ackStatus = {}
        BY <4>1 DEF AnswerPart, IsFirst
      <4> QED BY <2>2, <2>3, <4>2 DEF OneAnswer
    <3> QED BY <3>1, <3>2
  <2>5. \A c \in callbacks : c.e.id \in Ids
    BY EventFacts DEF AnswerPart
  <2>6. AnswerPart'
    BY <2>1, <2>2, <2>3, <2>4, <2>5 DEF AnswerPart
  <2> QED BY <2>1, <2>6
<1>2. CASE Reply
  <2>1. sending # NoEvent /\ sending \in Event /\ IsFirst(sending) /\ sending.id \in Ids
        /\ RequestDone
    BY <1>2, EventFacts DEF Reply, RequestAccepted, RequestRefused, RequestFailed,
       RequestFailedTakenOn, RequestDone, QueuePart
  <2>2. status[sending.id] # "NONE"
    <3>1. eventQueue_ # <<>> /\ eventQueue_ \in Seq(Event) /\ Head(eventQueue_) = sending
      BY <2>1 DEF IsFirst, QueuePart
    <3>2. 1 \in 1 .. Len(eventQueue_) /\ eventQueue_[1] = sending
      BY <3>1
    <3>3. Queued(sending.id)
      BY <3>2 DEF Queued
    <3> QED BY <2>1, <3>3 DEF QueuePart
  <2>3. Poppers = {} /\ expected = {} /\ ackStatus = {}
    BY <2>1 DEF AnswerPart, OneAnswer
  <2>4. QueuePart'
    <3>1. releases' \in Nat /\ sending' = NoEvent /\ thenRelease' = FALSE
          /\ UNCHANGED <<eventQueue_, status, answers, latest, lastSent, wakeLock>>
      BY <2>1 DEF RequestDone, queue, QueuePart
    <3>2. EndsOfQueue' /\ LockGivenBack' /\ Distinct(eventQueue_)' /\ \A i : Queued(i)' <=> Queued(i)
      BY <3>1 DEF QueuePart, EndsOfQueue, LatestWins, LockGivenBack, Queued, Distinct
    <3> QED BY <3>1, <3>2 DEF QueuePart
  <2>5. sending' = NoEvent /\ service' = service /\ ackStatus' = {} /\ status' = status
        /\ \A f : IsFirst(f) => IsFirst(f)'
    BY <2>1, <2>3 DEF RequestDone, queue, IsFirst
  <2>6. CASE RequestAccepted
    <3>1. [e |-> sending, ok |-> TRUE] \in [e : Event, ok : BOOLEAN]
          /\ callbacks' = callbacks \cup {[e |-> sending, ok |-> TRUE]}
      BY <2>1, <2>6 DEF RequestAccepted
    <3>4. callbacks' \subseteq [e : Event, ok : BOOLEAN] /\ \A c \in callbacks' : status'[c.e.id] # "NONE"
      <4>1. callbacks' \subseteq [e : Event, ok : BOOLEAN]
        BY <3>1 DEF AnswerPart
      <4>2. [e |-> sending, ok |-> TRUE].e = sending
        OBVIOUS
      <4>3. \A c \in callbacks : status[c.e.id] # "NONE"
        BY DEF AnswerPart
      <4> QED BY <2>2, <2>5, <3>1, <4>1, <4>2, <4>3
    <3>2. CASE sending.st = "RESUME"
      <4>1. expected' = {} /\ lost' = lost
        BY <2>3, <2>6, <3>2 DEF RequestAccepted, DownStates
      <4>2. Poppers' = {[e |-> sending, ok |-> TRUE]}
        BY <2>3, <3>1, <3>2 DEF Poppers
      <4>3. OneAnswer' /\ \A c \in Poppers' : IsFirst(c.e)'
        BY <2>1, <2>5, <4>1, <4>2 DEF OneAnswer
      <4> QED BY <2>4, <2>5, <3>1, <3>4, <4>1, <4>3 DEF AnswerPart
    <3>3. CASE sending.st # "RESUME"
      <4>1. Poppers' = {} /\ lost' = lost
        BY <2>3, <2>6, <3>1, <3>3 DEF Poppers, RequestAccepted
      <4>2. expected' \subseteq {sending}
        BY <2>3, <2>6 DEF RequestAccepted
      <4>3. OneAnswer' /\ \A e \in expected' : e \in Event /\ IsFirst(e)'
        BY <2>1, <2>5, <4>1, <4>2 DEF OneAnswer
      <4> QED BY <2>4, <2>5, <3>1, <3>4, <4>1, <4>3 DEF AnswerPart
    <3> QED BY <3>2, <3>3
  <2>7. CASE RequestRefused
    <3>1. [e |-> sending, ok |-> FALSE] \in [e : Event, ok : BOOLEAN]
          /\ callbacks' = callbacks \cup {[e |-> sending, ok |-> FALSE]}
          /\ expected' = {} /\ lost' = lost
      BY <2>1, <2>3, <2>7 DEF RequestRefused
    <3>2. Poppers' = {[e |-> sending, ok |-> FALSE]}
      BY <2>3, <3>1 DEF Poppers
    <3>3. callbacks' \subseteq [e : Event, ok : BOOLEAN] /\ \A c \in callbacks' : status'[c.e.id] # "NONE"
      <4>1. callbacks' \subseteq [e : Event, ok : BOOLEAN]
        BY <3>1 DEF AnswerPart
      <4>2. [e |-> sending, ok |-> FALSE].e = sending
        OBVIOUS
      <4>3. \A c \in callbacks : status[c.e.id] # "NONE"
        BY DEF AnswerPart
      <4> QED BY <2>2, <2>5, <3>1, <4>1, <4>2, <4>3
    <3>4. OneAnswer' /\ \A c \in Poppers' : IsFirst(c.e)'
      BY <2>1, <2>5, <3>1, <3>2 DEF OneAnswer
    <3> QED BY <2>4, <2>5, <3>1, <3>3, <3>4 DEF AnswerPart
  <2>8. CASE RequestFailed
    <3>1. callbacks' = callbacks /\ expected' = {} /\ lost' = lost \cup {sending.id} /\ Poppers' = {}
      BY <2>3, <2>8 DEF RequestFailed, Poppers
    <3> QED BY <2>1, <2>4, <2>5, <3>1 DEF AnswerPart, OneAnswer
  <2>9. CASE RequestFailedTakenOn
    <3>1. callbacks' = callbacks /\ expected' = {sending} /\ lost' = lost /\ Poppers' = {}
      BY <2>3, <2>9 DEF RequestFailedTakenOn, Poppers
    <3> QED BY <2>1, <2>4, <2>5, <3>1 DEF AnswerPart, OneAnswer
  <2> QED BY <1>2, <2>6, <2>7, <2>8, <2>9 DEF Reply
<1>3. ASSUME NEW c \in callbacks, CallbackError(c) \/ CallbackResumed(c)
      PROVE QueuePart' /\ AnswerPart'
  <2>1. c \in Poppers /\ IsFirst(c.e)
    BY <1>3 DEF CallbackError, CallbackResumed, Poppers, AnswerPart
  <2>2. eventQueue_ # <<>> /\ expected = {} /\ ackStatus = {} /\ Poppers = {c}
    BY <2>1 DEF IsFirst, AnswerPart, OneAnswer
  <2>3. /\ QueuePart' /\ \A i \in Ids : status[i] # "NONE" => status'[i] # "NONE"
    <3>1. {"FAILED_TCU_ACTIVITY", "SUCCEED"} \subseteq AckStatus
      BY DEF AckStatus
    <3> QED BY <1>3, <2>2, <3>1, Processed DEF CallbackError, CallbackResumed
  <2>4. callbacks' = callbacks \ {c} /\ UNCHANGED <<service, expected, ackStatus, lost>>
    BY <1>3 DEF CallbackError, CallbackResumed
  <2>5. Poppers' = {}
    BY <2>2, <2>4 DEF Poppers
  <2>6. \A d \in callbacks : d.e.id \in Ids
    BY EventFacts DEF AnswerPart
  <2> QED BY <2>2, <2>3, <2>4, <2>5, <2>6 DEF AnswerPart, OneAnswer
<1>4. ASSUME NEW c \in callbacks, CallbackStarted(c) PROVE QueuePart' /\ AnswerPart'
  <2>1. c.e.id \in Ids /\ status[c.e.id] # "NONE" /\ c \notin Poppers
    BY <1>4, EventFacts DEF AnswerPart, CallbackStarted, Poppers
  <2>2. status' = [status EXCEPT ![c.e.id] = "IN_PROGRESS_TCU_ACTIVITY"]
        /\ callbacks' = callbacks \ {c}
        /\ UNCHANGED <<eventQueue_, answers, latest, request, service, expected, ackStatus,
                       releases, wakeLock, lost>>
    BY <1>4 DEF CallbackStarted
  <2>3. \A i \in Ids : (status'[i] = "NONE" <=> status[i] = "NONE") /\ (Queued(i)' <=> Queued(i))
    BY <2>1, <2>2 DEF QueuePart, Queued
  <2>4. status' \in [Ids -> EventStatus]
    BY <2>1, <2>2 DEF QueuePart, EventStatus
  <2>5. QueuePart'
    BY <2>2, <2>3, <2>4 DEF QueuePart, request, EndsOfQueue, LatestWins, LockGivenBack, Distinct, IsFirst
  <2>6. Poppers' = Poppers
    BY <2>1, <2>2 DEF Poppers
  <2>7. \A d \in callbacks : d.e.id \in Ids
    BY EventFacts DEF AnswerPart
  <2>8. AnswerPart'
    BY <2>2, <2>3, <2>6, <2>7 DEF AnswerPart, OneAnswer, request, IsFirst
  <2> QED BY <2>5, <2>8
<1>5. ASSUME NEW a \in ackStatus, onSlaveAckStatusUpdate(a) PROVE QueuePart' /\ AnswerPart'
  <2>1. IsFirst(a.e) /\ a.st \in AckStatus
    BY <1>5 DEF AnswerPart
  <2>2. eventQueue_ # <<>> /\ expected = {} /\ ackStatus = {a} /\ Poppers = {}
    BY <2>1 DEF IsFirst, AnswerPart, OneAnswer
  <2>3. QueuePart' /\ \A i \in Ids : status[i] # "NONE" => status'[i] # "NONE"
    BY <1>5, <2>1, <2>2, Processed DEF onSlaveAckStatusUpdate
  <2>4. ackStatus' = {} /\ UNCHANGED <<service, callbacks, expected, lost>>
    BY <1>5, <2>2 DEF onSlaveAckStatusUpdate
  <2>5. Poppers' = {}
    BY <2>2, <2>4 DEF Poppers
  <2>6. \A d \in callbacks : d.e.id \in Ids
    BY EventFacts DEF AnswerPart
  <2> QED BY <2>2, <2>3, <2>4, <2>5, <2>6 DEF AnswerPart, OneAnswer
<1>6. CASE ReleaseWakeLock
  <2>1. QueuePart'
    <3>1. releases' \in Nat /\ wakeLock' = FALSE
          /\ UNCHANGED <<eventQueue_, status, answers, latest, sending, thenRelease, lastSent>>
      BY <1>6 DEF ReleaseWakeLock, QueuePart, queue, request
    <3>2. EndsOfQueue' /\ LockGivenBack' /\ Distinct(eventQueue_)' /\ \A i : Queued(i)' <=> Queued(i)
      BY <3>1 DEF QueuePart, EndsOfQueue, LatestWins, LockGivenBack, Queued, Distinct
    <3> QED BY <3>1, <3>2 DEF QueuePart, IsFirst
  <2>2. AnswerPart'
    BY <1>6 DEF ReleaseWakeLock, AnswerPart, OneAnswer, Poppers, queue, request, IsFirst
  <2> QED BY <2>1, <2>2
<1>7. ASSUME NEW e \in expected, NEW st \in AckStatus, AckIndication(e, st)
      PROVE  QueuePart' /\ AnswerPart'
  <2>1. QueuePart'
    BY <1>7 DEF AckIndication, QueuePart, queue, request, EndsOfQueue, LatestWins, LockGivenBack,
       Queued, Distinct, IsFirst
  <2>2. sending = NoEvent /\ Poppers = {} /\ ackStatus = {} /\ expected = {e} /\ IsFirst(e) /\ e \in Event
    BY DEF AnswerPart, OneAnswer
  <2>3. expected' = {} /\ ackStatus' = {[e |-> e, st |-> st]}
        /\ UNCHANGED <<sending, service, callbacks, lost, status, eventQueue_>>
    BY <1>7, <2>2 DEF AckIndication, queue, request
  <2>4. Poppers' = {} /\ IsFirst(e)'
    BY <2>2, <2>3 DEF Poppers, IsFirst
  <2>5. AnswerPart'
    BY <2>2, <2>3, <2>4 DEF AnswerPart, OneAnswer
  <2> QED BY <2>1, <2>5
<1>8. ASSUME NEW e \in expected, AcksLost({e}) PROVE QueuePart' /\ AnswerPart'
  <2>1. QueuePart'
    BY <1>8 DEF AcksLost, QueuePart, queue, request, EndsOfQueue, LatestWins, LockGivenBack,
       Queued, Distinct, IsFirst
  <2>2. e.id \in Ids /\ lost' = lost \cup {e.id} /\ expected' = expected \ {e}
    BY <1>8, EventFacts DEF AcksLost, AnswerPart
  <2>3. AnswerPart'
    BY <1>8, <2>2 DEF AcksLost, AnswerPart, OneAnswer, Poppers, queue, request, IsFirst
  <2> QED BY <2>1, <2>3
<1>9. CASE ServiceStatusChange
  <2>1. QueuePart'
    BY <1>9 DEF ServiceStatusChange, QueuePart, queue, request, EndsOfQueue, LatestWins, LockGivenBack,
       Queued, Distinct, IsFirst
  <2>2. AnswerPart'
    BY <1>9 DEF ServiceStatusChange, AnswerPart, OneAnswer, Poppers, queue, request, IsFirst
  <2> QED BY <2>1, <2>2
<1>10. CASE UNCHANGED emVars
  <2>1. QueuePart'
    BY <1>10 DEF emVars, QueuePart, queue, request, EndsOfQueue, LatestWins, LockGivenBack,
       Queued, Distinct, IsFirst
  <2>2. AnswerPart'
    BY <1>10 DEF emVars, AnswerPart, OneAnswer, Poppers, queue, request, IsFirst
  <2> QED BY <2>1, <2>2
<1> QED
  BY <1>1, <1>2, <1>3, <1>4, <1>5, <1>6, <1>7, <1>8, <1>9, <1>10 DEF EMNext, Callback, Server

LEMMA EMInvariant == EMSpec => []EMInv
  BY EMInitially, EMStep, InvInParts, PTL DEF EMSpec

\* The variables of the event manager keep their types.
THEOREM EMTyped == EMSpec => []EMTypeOK
  BY EMInvariant, PTL DEF EMInv

\* The answer processedEventHandler acts on is the head's, although neither an ack
\* indication nor an error callback says whose it is.
THEOREM AnswersAreForHead == EMSpec => []AnswerIsForHead
  BY EMInvariant, PTL DEF EMInv

\* When the queue has run empty the state last asked of the server is the one the
\* latest event wanted.
THEOREM LastWordKept == EMSpec => []LatestWins
  BY EMInvariant, PTL DEF EMInv, EndsOfQueue

\* An empty queue holds no wake lock.
THEOREM LockReturned == EMSpec => []LockGivenBack
  BY EMInvariant, PTL DEF EMInv

\* Every event that was pushed waits in the queue, once, or has been answered, once.
THEOREM EventsAnsweredOnce == EMSpec => []AnsweredOnce
<1>1. EMInv => AnsweredOnce
  <2> SUFFICES ASSUME EMInv, NEW i \in Ids, status[i] # "NONE"
               PROVE  \/ answers[i] = 0 /\ \E k \in 1 .. Len(eventQueue_) :
                            \A j \in 1 .. Len(eventQueue_) : eventQueue_[j].id = i <=> j = k
                      \/ answers[i] = 1 /\ i \notin IdsOf(eventQueue_)
    BY DEF AnsweredOnce
  <2>1. CASE Queued(i)
    <3>1. PICK k \in 1 .. Len(eventQueue_) : eventQueue_[k].id = i
      BY <2>1 DEF Queued
    <3>2. \A j \in 1 .. Len(eventQueue_) : eventQueue_[j].id = i <=> j = k
      BY <3>1 DEF EMInv, EventsTold, Distinct
    <3> QED BY <2>1, <3>2 DEF EMInv, EventsTold
  <2>2. CASE ~Queued(i)
    <3>1. DOMAIN eventQueue_ = 1 .. Len(eventQueue_)
      BY DEF EMInv, EMTypeOK
    <3>2. i \notin IdsOf(eventQueue_)
      BY <2>2, <3>1 DEF IdsOf, ToSet, Queued
    <3> QED BY <2>2, <3>2 DEF EMInv, EventsTold
  <2> QED BY <2>1, <2>2
<1> QED BY <1>1, EMInvariant, PTL
===============================================================================
