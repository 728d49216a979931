---------------------------- MODULE CovfefeProofs ----------------------------
(***************************************************************************)
(* Proofs about Covfefe, for any timelines, any nesting of tweets in       *)
(* tweets and in users, and any number of starts, faults and rescans.      *)
(***************************************************************************)

EXTENDS Covfefe, SequenceTheorems, TLAPS

USE IdAssumption, PostAssumption, ProfileAssumption, TimelineAssumption, InsideAssumption
  DEF IdAssumption, PostAssumption, ProfileAssumption, TimelineAssumption, InsideAssumption

\* What was answered is handled, or on its way to Handle.
AnsweredInv ==
  up => \A p \in Timelines : \A o \in answered[p] :
          o \in Sent /\ (Handled(o) \/ Pending(o) \/ o \in ToSet(batch[p]))

\* What a producer still has to send is newer than what it knows.
BatchInv ==
  \A p \in Timelines : \A o \in ToSet(batch[p]) : o \in Sent /\ Id[o] > since[p]

IInv == TypeOK /\ RowsFromMessages /\ AnsweredInv /\ BatchInv

\* TaskOK, with the table of the messages as a parameter.
Right(task, stored) ==
  /\ task \in Tasks
  /\ task.do = "handle" => task = HandleCall(task.body) /\ task.body \in Bodies
  /\ task.do \in {"tweet", "parent", "user", "follow"} =>
       task.id \in DOMAIN stored /\ task.body \in Inside[stored[task.id]]
  /\ task.do \in {"tweet", "parent"} => task.body \in Posts
  /\ task.do = "tweet" => task.by \in Inside[stored[task.id]] \cup {None}
  /\ task.do = "user" => task.body \in Profiles
  /\ task.do = "follow" => task.body \in Fans /\ task.body = stored[task.id]
  /\ task.do = "scan" => task.id \in 1 .. Len(stored) + 1

AllRight(tasks, stored) ==
  tasks \in Seq(Tasks) /\ \A i \in DOMAIN tasks : Right(tasks[i], stored)

-----------------------------------------------------------------------------
(* The calls                                                               *)

LEMMA TypeIsRight == TypeOK => AllRight(todo, messages)
<1> SUFFICES ASSUME TypeOK PROVE AllRight(todo, messages)
  OBVIOUS
<1>1. todo \in Seq(Tasks) /\ \A k \in DOMAIN todo : TaskOK(todo[k])
  BY DEF TypeOK
<1>2. \A k \in DOMAIN todo : todo[k] \in Tasks
  BY <1>1
<1> QED
  BY <1>1, <1>2 DEF AllRight, Right, TaskOK

LEMMA NoCalls ==
  ASSUME NEW stored
  PROVE  AllRight(<<>>, stored)
BY DEF AllRight

LEMMA OneCall ==
  ASSUME NEW stored, NEW task, Right(task, stored)
  PROVE  AllRight(<<task>>, stored) /\ ToSet(<<task>>) = {task}
<1>1. task \in Tasks
  BY DEF Right
<1>2. <<task>> \in Seq(Tasks) /\ DOMAIN <<task>> = {1} /\ <<task>>[1] = task
  BY <1>1
<1>3. ToSet(<<task>>) = {task}
  BY <1>2 DEF ToSet
<1> QED
  BY <1>2, <1>3, Zenon DEF AllRight

LEMMA TwoCalls ==
  ASSUME NEW stored, NEW s, NEW t, Right(s, stored), Right(t, stored)
  PROVE  AllRight(<<s, t>>, stored) /\ ToSet(<<s, t>>) = {s, t}
<1>1. s \in Tasks /\ t \in Tasks
  BY DEF Right
<1>2. <<s, t>> \in Seq(Tasks) /\ DOMAIN <<s, t>> = {1, 2} /\ <<s, t>>[1] = s /\ <<s, t>>[2] = t
  BY <1>1
<1>3. \A i \in DOMAIN <<s, t>> : Right(<<s, t>>[i], stored)
  BY <1>2
<1>4. ToSet(<<s, t>>) = {s, t}
  BY <1>2 DEF ToSet
<1> QED
  BY <1>2, <1>3, <1>4 DEF AllRight

LEMMA JoinedCalls ==
  ASSUME NEW stored, NEW s, NEW t, AllRight(s, stored), AllRight(t, stored)
  PROVE  /\ AllRight(s \o t, stored)
         /\ ToSet(s \o t) = ToSet(s) \cup ToSet(t)
<1> DEFINE all == s \o t
<1>1. s \in Seq(Tasks) /\ t \in Seq(Tasks)
  BY DEF AllRight
<1>2. /\ all \in Seq(Tasks) /\ Len(all) = Len(s) + Len(t)
      /\ \A k \in 1 .. Len(s) + Len(t) : all[k] = IF k <= Len(s) THEN s[k] ELSE t[k - Len(s)]
  BY <1>1, ConcatProperties
<1>3. /\ Len(s) \in Nat /\ Len(t) \in Nat /\ DOMAIN s = 1 .. Len(s) /\ DOMAIN t = 1 .. Len(t)
      /\ DOMAIN all = 1 .. Len(all)
  BY <1>1, <1>2, LenProperties
<1> HIDE DEF all
<1>4. ASSUME NEW k \in DOMAIN all
      PROVE  \/ \E i \in DOMAIN s : all[k] = s[i]
             \/ \E i \in DOMAIN t : all[k] = t[i]
  <2>1. CASE k <= Len(s)
    BY <1>2, <1>3, <2>1
  <2>2. CASE ~(k <= Len(s))
    <3>1. k - Len(s) \in DOMAIN t
      BY <1>2, <1>3, <2>2
    <3>2. all[k] = t[k - Len(s)]
      BY ONLY k \in DOMAIN all, <1>2, <1>3, <2>2, Zenon
    <3> QED
      BY <3>1, <3>2
  <2> QED
    BY <2>1, <2>2
<1>5. \A i \in DOMAIN s : i \in DOMAIN all /\ all[i] = s[i]
  BY <1>2, <1>3
<1>6. ASSUME NEW i \in DOMAIN t
      PROVE  \E k \in DOMAIN all : all[k] = t[i]
  <2> DEFINE k == Len(s) + i
  <2>1. k \in 1 .. Len(s) + Len(t) /\ ~(k <= Len(s)) /\ k - Len(s) = i
    BY <1>3
  <2> HIDE DEF k
  <2>2. all[k] = t[k - Len(s)]
    BY ONLY <1>2, <2>1, Zenon
  <2> QED
    BY ONLY <1>2, <1>3, <2>1, <2>2, Zenon
<1>7. AllRight(all, stored)
  BY <1>2, <1>4, Zenon DEF AllRight
<1>8. ToSet(all) = ToSet(s) \cup ToSet(t)
  <2>1. ASSUME NEW x \in ToSet(all) PROVE x \in ToSet(s) \/ x \in ToSet(t)
    <3>1. PICK k \in DOMAIN all : x = all[k]
      BY Zenon DEF ToSet
    <3> QED
      BY <1>4, <3>1, Zenon DEF ToSet
  <2>2. ASSUME NEW x \in ToSet(s) PROVE x \in ToSet(all)
    <3>1. PICK i \in DOMAIN s : x = s[i]
      BY Zenon DEF ToSet
    <3> QED
      BY <1>5, <3>1, Zenon DEF ToSet
  <2>3. ASSUME NEW x \in ToSet(t) PROVE x \in ToSet(all)
    <3>1. PICK i \in DOMAIN t : x = t[i]
      BY Zenon DEF ToSet
    <3> QED
      BY <1>6, <3>1, Zenon DEF ToSet
  <2> QED
    BY <2>1, <2>2, <2>3
<1> QED
  BY <1>7, <1>8 DEF all

\* A call stays right when messages are added.
LEMMA StaysRight ==
  ASSUME NEW stored \in Seq(Bodies), NEW body \in Bodies, NEW tasks, AllRight(tasks, stored)
  PROVE  AllRight(tasks, Append(stored, body))
<1> DEFINE more == Append(stored, body)
<1>1. /\ \A i \in DOMAIN stored : i \in DOMAIN more /\ more[i] = stored[i]
      /\ Len(more) = Len(stored) + 1 /\ Len(stored) \in Nat
  BY AppendProperties
<1>2. 1 .. Len(stored) + 1 \subseteq 1 .. Len(more) + 1
  BY <1>1
<1> HIDE DEF more
<1>3. \A i \in DOMAIN tasks : Right(tasks[i], more)
  <2> SUFFICES ASSUME NEW task, Right(task, stored) PROVE Right(task, more)
    BY Zenon DEF AllRight
  <2> QED
    BY <1>1, <1>2, Zenon DEF Right
<1> QED
  BY <1>3 DEF AllRight, more

\* The calls about what is in a message are right.
LEMMA RightCalls ==
  ASSUME NEW stored \in Seq(Bodies), NEW id \in DOMAIN stored
  PROVE  /\ \A o \in Posts \cap Inside[stored[id]] :
              /\ \A by \in (Profiles \cap Inside[stored[id]]) \cup {None} :
                   Right(Task("tweet", id, o, by), stored)
              /\ Right(Task("parent", id, o, None), stored)
         /\ \A u \in Profiles \cap Inside[stored[id]] : Right(UserCall(id, u), stored)
         /\ stored[id] \in Fans => Right(FollowCall(id, stored[id]), stored)
<1>1. id \in Nat /\ stored[id] \in Bodies /\ stored[id] \in Posts \cup Profiles
  BY DEF Bodies, Sent
<1>2. ASSUME NEW o \in Posts \cap Inside[stored[id]],
             NEW by \in (Profiles \cap Inside[stored[id]]) \cup {None}
      PROVE  Right(Task("tweet", id, o, by), stored)
  <2>1. Task("tweet", id, o, by) \in Tasks
    BY <1>1 DEF Task, Tasks, Calling
  <2> QED
    BY <1>1, <2>1 DEF Task, Right
<1>3. ASSUME NEW o \in Posts \cap Inside[stored[id]]
      PROVE  Right(Task("parent", id, o, None), stored)
  <2>1. Task("parent", id, o, None) \in Tasks
    BY <1>1 DEF Task, Tasks, Calling
  <2> QED
    BY <1>1, <2>1 DEF Task, Right
<1>4. ASSUME NEW u \in Profiles \cap Inside[stored[id]]
      PROVE  Right(UserCall(id, u), stored)
  <2>1. UserCall(id, u) \in Tasks
    BY <1>1 DEF UserCall, Task, Tasks, Calling
  <2> QED
    BY <1>1, <2>1 DEF UserCall, Task, Right
<1>5. ASSUME stored[id] \in Fans
      PROVE  Right(FollowCall(id, stored[id]), stored)
  <2>1. FollowCall(id, stored[id]) \in Tasks
    BY <1>1, <1>5 DEF FollowCall, Task, Tasks, Calling
  <2>2. stored[id] \in Inside[stored[id]]
    BY <1>1
  <2> QED
    BY <1>1, <1>5, <2>1, <2>2 DEF FollowCall, Task, Right
<1> QED
  BY <1>2, <1>3, <1>4, <1>5

\* The calls for what is nested in a tweet.
LEMMA CallsOfNested ==
  ASSUME NEW stored \in Seq(Bodies), NEW id \in DOMAIN stored,
         NEW o \in Posts \cap Inside[stored[id]]
  PROVE  LET nested == [k \in DOMAIN Nested[o] |-> Task("tweet", id, Nested[o][k], Author[Nested[o][k]])]
         IN  /\ AllRight(nested, stored)
             /\ \A k \in DOMAIN Nested[o] :
                  Task("tweet", id, Nested[o][k], Author[Nested[o][k]]) \in ToSet(nested)
             /\ \A task \in ToSet(nested) : task.do = "tweet"
<1> DEFINE nested == [k \in DOMAIN Nested[o] |-> Task("tweet", id, Nested[o][k], Author[Nested[o][k]])]
<1>1. stored[id] \in Posts \cup Profiles
  BY DEF Bodies, Sent
<1>2. Inside[o] \subseteq Inside[stored[id]]
  BY <1>1
<1>3. ASSUME NEW k \in DOMAIN Nested[o]
      PROVE  /\ Nested[o][k] \in Posts \cap Inside[stored[id]]
             /\ Author[Nested[o][k]] \in (Profiles \cap Inside[stored[id]]) \cup {None}
  <2>1. Nested[o][k] \in Posts /\ Nested[o][k] \in Inside[o]
    OBVIOUS
  <2>2. Inside[Nested[o][k]] \subseteq Inside[o]
    BY <2>1
  <2>3. Author[Nested[o][k]] # None =>
          Author[Nested[o][k]] \in Profiles \cap Inside[Nested[o][k]]
    BY <2>1
  <2> QED
    BY <1>2, <2>1, <2>2, <2>3
<1>4. \A k \in DOMAIN Nested[o] : Right(nested[k], stored)
  BY <1>3, RightCalls
<1>5. nested \in Seq(Tasks)
  <2>1. Nested[o] \in Seq(Posts)
    OBVIOUS
  <2>2. Len(Nested[o]) \in Nat /\ DOMAIN Nested[o] = 1 .. Len(Nested[o])
    BY <2>1, LenProperties
  <2>3. \A k \in DOMAIN Nested[o] : nested[k] \in Tasks
    BY <1>4, Zenon DEF Right
  <2> QED
    BY <2>2, <2>3, IsASeq
<1>6. \A k \in DOMAIN Nested[o] :
        Task("tweet", id, Nested[o][k], Author[Nested[o][k]]) \in ToSet(nested)
  BY DEF ToSet
<1>7. AllRight(nested, stored)
  <2>1. DOMAIN nested = DOMAIN Nested[o]
    OBVIOUS
  <2> HIDE DEF nested
  <2> QED
    BY <1>4, <1>5, <2>1, Zenon DEF AllRight
<1>8. ASSUME NEW task \in ToSet(nested)
      PROVE  task.do = "tweet"
  <2>1. DOMAIN nested = DOMAIN Nested[o] /\ \A k \in DOMAIN Nested[o] : nested[k].do = "tweet"
    BY DEF Task
  <2> HIDE DEF nested
  <2> QED
    BY <2>1, Zenon DEF ToSet
<1> QED
  BY <1>6, <1>7, <1>8

\* The calls of processTweet.
LEMMA CallsOfTweet ==
  ASSUME NEW stored \in Seq(Bodies), NEW id \in DOMAIN stored,
         NEW o \in Posts \cap Inside[stored[id]], NEW by \in Profiles \cap Inside[stored[id]]
  PROVE  /\ AllRight(TweetCalls(id, o, by), stored)
         /\ UserCall(id, by) \in ToSet(TweetCalls(id, o, by))
         /\ \A k \in DOMAIN Nested[o] :
              Task("tweet", id, Nested[o][k], Author[Nested[o][k]]) \in ToSet(TweetCalls(id, o, by))
         /\ \A task \in ToSet(TweetCalls(id, o, by)) : task.do \in {"user", "tweet", "parent"}
<1> DEFINE first == <<UserCall(id, by)>>
           nested == [k \in DOMAIN Nested[o] |-> Task("tweet", id, Nested[o][k], Author[Nested[o][k]])]
           last == <<Task("parent", id, o, None)>>
<1>1. AllRight(first, stored) /\ ToSet(first) = {UserCall(id, by)}
  <2>1. Right(UserCall(id, by), stored)
    BY RightCalls
  <2> QED
    BY <2>1, OneCall
<1>2. AllRight(last, stored) /\ ToSet(last) = {Task("parent", id, o, None)}
  <2>1. Right(Task("parent", id, o, None), stored)
    BY RightCalls
  <2> QED
    BY <2>1, OneCall
<1>3. /\ AllRight(nested, stored)
      /\ \A k \in DOMAIN Nested[o] :
           Task("tweet", id, Nested[o][k], Author[Nested[o][k]]) \in ToSet(nested)
      /\ \A task \in ToSet(nested) : task.do = "tweet"
  BY CallsOfNested
<1>4. TweetCalls(id, o, by) = (first \o nested) \o last
  BY DEF TweetCalls
<1> HIDE DEF first, nested, last
<1>5. AllRight(first \o nested, stored) /\ ToSet(first \o nested) = ToSet(first) \cup ToSet(nested)
  <2>1. AllRight(first, stored) /\ AllRight(nested, stored)
    BY <1>1, <1>3, Zenon
  <2> QED
    BY <2>1, JoinedCalls
<1> DEFINE front == first \o nested
<1>6. AllRight(front, stored)
  BY <1>5
<1> HIDE DEF front
<1>7. AllRight(front \o last, stored) /\ ToSet(front \o last) = ToSet(front) \cup ToSet(last)
  BY <1>2, <1>6, JoinedCalls
<1>8. TweetCalls(id, o, by) = front \o last
  BY <1>4 DEF front
<1>9. ToSet(front) = ToSet(first) \cup ToSet(nested)
  BY <1>5 DEF front
<1>10. UserCall(id, by).do = "user" /\ Task("parent", id, o, None).do = "parent"
  BY DEF UserCall, Task
<1>11. ToSet(TweetCalls(id, o, by)) =
         ({UserCall(id, by)} \cup ToSet(nested)) \cup {Task("parent", id, o, None)}
  BY <1>1, <1>2, <1>7, <1>8, <1>9
<1> QED
  BY <1>3, <1>7, <1>8, <1>10, <1>11

\* The call of processUser.
LEMMA CallsOfUser ==
  ASSUME NEW stored \in Seq(Bodies), NEW id \in DOMAIN stored,
         NEW u \in Profiles \cap Inside[stored[id]]
  PROVE  /\ AllRight(StatusCalls(id, u), stored)
         /\ Status[u] # None => Task("tweet", id, Status[u], u) \in ToSet(StatusCalls(id, u))
         /\ \A task \in ToSet(StatusCalls(id, u)) : task.do = "tweet"
<1>1. CASE Status[u] = None
  BY <1>1, NoCalls DEF StatusCalls, ToSet
<1>2. CASE Status[u] # None
  <2> DEFINE task == Task("tweet", id, Status[u], u)
  <2>1. stored[id] \in Posts \cup Profiles
    BY DEF Bodies, Sent
  <2>2. Status[u] \in Posts \cap Inside[stored[id]]
    <3>1. Status[u] \in Posts /\ Status[u] \in Inside[u]
      BY <1>2
    <3>2. Inside[u] \subseteq Inside[stored[id]]
      BY <2>1
    <3> QED
      BY <3>1, <3>2
  <2>3. Right(task, stored)
    BY <2>2, RightCalls
  <2>4. StatusCalls(id, u) = <<task>>
    BY <1>2 DEF StatusCalls
  <2> HIDE DEF task
  <2>5. AllRight(<<task>>, stored) /\ ToSet(<<task>>) = {task}
    BY <2>3, OneCall
  <2>6. task.do = "tweet"
    BY DEF task, Task
  <2> QED
    BY <2>4, <2>5, <2>6 DEF task
<1> QED
  BY <1>1, <1>2

\* The calls for a message.
LEMMA CallsOfMessage ==
  ASSUME NEW stored \in Seq(Bodies), NEW id \in DOMAIN stored
  PROVE  /\ Right(BodyCall(id, stored[id]), stored)
         /\ AllRight(<<BodyCall(id, stored[id])>> \o FollowCalls(id, stored[id]), stored)
         /\ BodyCall(id, stored[id]) \in
              ToSet(<<BodyCall(id, stored[id])>> \o FollowCalls(id, stored[id]))
         /\ stored[id] \in Fans => FollowCall(id, stored[id]) \in
              ToSet(<<BodyCall(id, stored[id])>> \o FollowCalls(id, stored[id]))
         /\ \A task \in ToSet(<<BodyCall(id, stored[id])>> \o FollowCalls(id, stored[id])) :
              task.do \in {"tweet", "user", "follow"}
         /\ BodyCall(id, stored[id]).do \in {"tweet", "user"}
<1> DEFINE body == stored[id]
           first == <<BodyCall(id, body)>>
           last == FollowCalls(id, body)
<1>1. body \in Sent \cup Fans /\ body \in Inside[body]
  BY DEF Bodies, Sent
<1>2. Right(BodyCall(id, body), stored)
  <2>1. CASE body \in Posts
    <3>1. Author[body] \in Profiles \cap Inside[body]
      BY <1>1, <2>1 DEF Sent
    <3> QED
      BY <1>1, <2>1, <3>1, RightCalls DEF BodyCall
  <2>2. CASE body \notin Posts
    <3>1. body \in Profiles
      BY <1>1, <2>2 DEF Sent
    <3> QED
      BY <1>1, <2>2, <3>1, RightCalls DEF BodyCall
  <2> QED
    BY <2>1, <2>2
<1>3. /\ AllRight(last, stored)
      /\ body \in Fans => FollowCall(id, body) \in ToSet(last)
      /\ \A task \in ToSet(last) : task.do = "follow"
  <2>1. CASE body \in Fans
    <3>1. Right(FollowCall(id, body), stored)
      BY <2>1, RightCalls
    <3>2. last = <<FollowCall(id, body)>>
      BY <2>1 DEF FollowCalls
    <3>3. FollowCall(id, body).do = "follow"
      BY DEF FollowCall, Task
    <3> DEFINE task == FollowCall(id, body)
    <3>4. Right(task, stored) /\ last = <<task>> /\ task.do = "follow"
      BY <3>1, <3>2, <3>3
    <3> HIDE DEF task
    <3>5. AllRight(<<task>>, stored) /\ ToSet(<<task>>) = {task}
      BY <3>4, OneCall
    <3>6. AllRight(last, stored) /\ ToSet(last) = {task}
      BY <3>4, <3>5, Zenon
    <3> QED
      BY <3>4, <3>6 DEF task
  <2>2. CASE body \notin Fans
    <3>1. last = <<>>
      BY <2>2 DEF FollowCalls
    <3>2. AllRight(last, stored) /\ ToSet(last) = {}
      BY <3>1, NoCalls DEF ToSet
    <3> QED
      BY <2>2, <3>2
  <2> QED
    BY <2>1, <2>2
<1>4. AllRight(first, stored) /\ ToSet(first) = {BodyCall(id, body)}
  BY <1>2, OneCall
<1>6. BodyCall(id, body).do \in {"tweet", "user"}
  BY DEF BodyCall, UserCall, Task
<1> HIDE DEF first, last
<1>5. AllRight(first \o last, stored) /\ ToSet(first \o last) = ToSet(first) \cup ToSet(last)
  BY <1>3, <1>4, JoinedCalls
<1> QED
  BY <1>2, <1>3, <1>4, <1>5, <1>6 DEF first, last

-----------------------------------------------------------------------------
(* The inductive invariant                                                 *)

LEMMA InitIInv == Init => IInv
<1> SUFFICES ASSUME Init PROVE IInv
  OBVIOUS
<1>1. TypeOK
  <2> USE DEF Init
  <2>1. /\ shown \in [Timelines -> Nat] /\ \A p \in Timelines : shown[p] <= Len(Entries[p])
        /\ messages \in Seq(Bodies)
        /\ tweets \in [Tweets -> Nat] /\ users \in [Keys -> Nat] /\ follows \in [Accounts -> Nat]
        /\ origin \in [Tweets -> (Posts \X Profiles) \cup {None}]
    OBVIOUS
  <2>2. /\ pc \in [Producers -> {"tick", "send", "done"}]
        /\ batch \in [Producers -> Seq(Bodies)]
        /\ \A p \in Producers : pc[p] = "send" <=> batch[p] # <<>>
        /\ newest \in [Producers -> Nat] /\ since \in [Producers -> Nat]
    OBVIOUS
  <2>3. todo \in Seq(Tasks) /\ \A k \in DOMAIN todo : TaskOK(todo[k])
    OBVIOUS
  <2>4. counts \in [Counted -> Nat] /\ up \in BOOLEAN /\ ctxDone \in BOOLEAN
    OBVIOUS
  <2> QED
    BY <2>1, <2>2, <2>3, <2>4 DEF TypeOK
<1>2. RowsFromMessages
  BY DEF Init, RowsFromMessages
<1>3. AnsweredInv /\ BatchInv
  BY DEF Init, AnsweredInv, BatchInv, ToSet, Producers
<1> QED
  BY <1>1, <1>2, <1>3 DEF IInv

\* The call that is made next.
LEMMA NextCall ==
  ASSUME TypeOK, todo # <<>>
  PROVE  /\ Right(Head(todo), messages) /\ Head(todo) \in ToSet(todo)
         /\ \A task \in ToSet(todo) : task = Head(todo) \/ task \in ToSet(Tail(todo))
<1>1. todo \in Seq(Tasks) /\ AllRight(todo, messages)
  BY TypeIsRight DEF TypeOK
<1>2. /\ Head(todo) = todo[1] /\ Tail(todo) \in Seq(Tasks) /\ Len(Tail(todo)) = Len(todo) - 1
      /\ \A i \in 1 .. Len(Tail(todo)) : Tail(todo)[i] = todo[i + 1]
      /\ Len(todo) \in Nat /\ DOMAIN todo = 1 .. Len(todo) /\ 1 \in DOMAIN todo
      /\ DOMAIN Tail(todo) = 1 .. Len(Tail(todo))
  BY <1>1, HeadTailProperties, LenProperties
<1>3. ASSUME NEW i \in DOMAIN todo, i # 1
      PROVE  \E k \in DOMAIN Tail(todo) : Tail(todo)[k] = todo[i]
  <2>1. i - 1 \in 1 .. Len(Tail(todo)) /\ i - 1 + 1 = i
    BY <1>2, <1>3
  <2>2. Tail(todo)[i - 1] = todo[i]
    BY ONLY <1>2, <2>1, Zenon
  <2> QED
    BY ONLY <1>2, <2>1, <2>2, Zenon
<1>4. ASSUME NEW task \in ToSet(todo), task # Head(todo)
      PROVE  task \in ToSet(Tail(todo))
  <2>1. PICK i \in DOMAIN todo : task = todo[i]
    BY Zenon DEF ToSet
  <2>2. PICK k \in DOMAIN Tail(todo) : Tail(todo)[k] = task
    BY <1>2, <1>3, <1>4, <2>1, Zenon
  <2> QED
    BY <2>2, Zenon DEF ToSet
<1>5. Right(Head(todo), messages)
  <2>1. Right(todo[1], messages)
    BY <1>1, <1>2, Zenon DEF AllRight
  <2> QED
    BY <1>2, <2>1
<1>6. Head(todo) \in ToSet(todo)
  BY <1>2, Zenon DEF ToSet
<1> QED
  BY <1>4, <1>5, <1>6

\* What a step of the consumer does to the calls that are still to be made.
LEMMA CallsMade ==
  ASSUME TypeOK, NEW stored, AllRight(todo, stored), NEW tasks, AllRight(tasks, stored),
         todo # <<>>, todo' = tasks \o Tail(todo)
  PROVE  /\ AllRight(todo', stored) /\ ToSet(tasks) \subseteq ToSet(todo')
         /\ \A task \in ToSet(todo) : task = Head(todo) \/ task \in ToSet(todo')
         /\ ToSet(todo') \subseteq ToSet(tasks) \cup ToSet(todo)
<1>1. AllRight(Tail(todo), stored) /\ ToSet(Tail(todo)) \subseteq ToSet(todo)
  <2>1. todo \in Seq(Tasks)
    BY DEF TypeOK
  <2>2. Tail(todo) \in Seq(Tasks) /\ \A k \in DOMAIN Tail(todo) : k + 1 \in DOMAIN todo /\ Tail(todo)[k] = todo[k + 1]
    BY <2>1, HeadTailProperties, LenProperties
  <2>3. AllRight(Tail(todo), stored)
    BY <2>2, Zenon DEF AllRight
  <2>4. ASSUME NEW x \in ToSet(Tail(todo)) PROVE x \in ToSet(todo)
    <3>1. PICK k \in DOMAIN Tail(todo) : x = Tail(todo)[k]
      BY Zenon DEF ToSet
    <3>2. k + 1 \in DOMAIN todo /\ x = todo[k + 1]
      BY <2>2, <3>1
    <3> QED
      BY <3>2, Zenon DEF ToSet
  <2> QED
    BY <2>3, <2>4
<1> DEFINE rest == Tail(todo)
<1>2. AllRight(rest, stored) /\ todo' = tasks \o rest /\ ToSet(rest) \subseteq ToSet(todo)
  BY <1>1
<1>3. \A task \in ToSet(todo) : task = Head(todo) \/ task \in ToSet(rest)
  BY NextCall
<1> HIDE DEF rest
<1>4. AllRight(tasks \o rest, stored) /\ ToSet(tasks \o rest) = ToSet(tasks) \cup ToSet(rest)
  BY <1>2, JoinedCalls
<1>5. AllRight(todo', stored) /\ ToSet(todo') = ToSet(tasks) \cup ToSet(rest)
  BY <1>2, <1>4
<1> QED
  BY <1>2, <1>3, <1>5

\* Messages are added behind the others.
LEMMA MessagesGrow ==
  ASSUME TypeOK, [Next]_vars
  PROVE  \/ messages' = messages
         \/ /\ Handle /\ messages' = Append(messages, Head(todo).body)
            /\ Head(todo).body \in Bodies
<1>1. CASE Handle
  <2>1. Right(Head(todo), messages) /\ Head(todo).do = "handle"
    BY <1>1, NextCall DEF Handle, Next1
  <2> QED
    BY <1>1, <2>1 DEF Handle, Right
<1>2. ASSUME NEW p \in Timelines, Appear(p) \/ Fetch(p)
      PROVE  messages' = messages
  BY <1>2 DEF Appear, Fetch
<1>3. ASSUME NEW p \in Producers, Poll(p)
      PROVE  messages' = messages
  BY <1>3 DEF Poll, FetchFails, Send, Stop
<1>4. CASE Consume /\ ~Handle
  BY <1>4 DEF Consume, StatementFails, HandleDrops, ProcessTweet, ProcessUser, InsertFollow,
              NoParent, FetchParent, ScanMessage
<1>5. CASE FetchFollowers \/ Signal \/ End \/ Crash \/ Restart \/ Rescan
  BY <1>5 DEF FetchFollowers, Signal, End, Crash, Restart, Rescan
<1>6. CASE UNCHANGED vars
  BY <1>6 DEF vars
<1> QED
  BY <1>1, <1>2, <1>3, <1>4, <1>5, <1>6 DEF Next

LEMMA MessagesStay ==
  ASSUME TypeOK, [Next]_vars
  PROVE  /\ messages' \in Seq(Bodies)
         /\ \A i \in DOMAIN messages : i \in DOMAIN messages' /\ messages'[i] = messages[i]
         /\ AllRight(todo, messages')
<1>0. messages \in Seq(Bodies) /\ AllRight(todo, messages)
  BY TypeIsRight DEF TypeOK
<1>1. CASE messages' = messages
  BY <1>0, <1>1
<1>2. CASE messages' = Append(messages, Head(todo).body) /\ Head(todo).body \in Bodies
  <2>1. PICK body \in Bodies : messages' = Append(messages, body)
    BY <1>2
  <2>2. AllRight(todo, Append(messages, body))
    BY <1>0, StaysRight
  <2> QED
    BY <1>0, <2>1, <2>2, AppendProperties
<1> QED
  BY <1>1, <1>2, MessagesGrow

\* A step of the consumer replaces the first call by calls about a stored message.
LEMMA ConsumeMakes ==
  ASSUME TypeOK, Consume
  PROVE  /\ todo # <<>> /\ Unchanged
         /\ \E tasks : /\ todo' = tasks \o Tail(todo) /\ AllRight(tasks, messages')
                      /\ \A task \in ToSet(tasks) : task.do = "scan" => ScanMessage
<1>0. todo # <<>> /\ Unchanged
  BY DEF Consume, StatementFails, HandleDrops, Handle, ProcessTweet, ProcessUser,
         InsertFollow, NoParent, FetchParent, ScanMessage, Next1
<1>1. Right(Head(todo), messages) /\ messages \in Seq(Bodies)
  BY <1>0, NextCall DEF TypeOK
<1> DEFINE body == Head(todo).body
           id == Head(todo).id
           Goal == \E tasks : /\ todo' = tasks \o Tail(todo) /\ AllRight(tasks, messages')
                              /\ \A task \in ToSet(tasks) : task.do = "scan" => ScanMessage
<1> HIDE DEF Goal
<1> SUFFICES Goal
  BY <1>0 DEF Goal
<1>2. ASSUME Calls(<<>>) PROVE Goal
  <2>1. todo' = <<>> \o Tail(todo) /\ AllRight(<<>>, messages')
    BY <1>2, NoCalls DEF Calls
  <2>2. ToSet(<<>>) = {}
    BY DEF ToSet
  <2> QED
    BY <2>1, <2>2, Zenon DEF Goal
<1>3. CASE HandleDrops \/ InsertFollow \/ NoParent
  BY <1>0, <1>2, <1>3 DEF HandleDrops, InsertFollow, NoParent
<1>4. ASSUME Next1("user"), Calls(StatusCalls(id, body)), messages' = messages
      PROVE  Goal
  <2>1. id \in DOMAIN messages /\ body \in Profiles \cap Inside[messages[id]]
    BY <1>1, <1>4 DEF Next1, Right
  <2>2. /\ AllRight(StatusCalls(id, body), messages)
        /\ \A task \in ToSet(StatusCalls(id, body)) : task.do = "tweet"
    BY <1>1, <2>1, CallsOfUser
  <2>3. todo' = StatusCalls(id, body) \o Tail(todo)
    BY <1>4 DEF Calls
  <2> QED
    BY <1>4, <2>2, <2>3 DEF Goal
<1>5. CASE StatementFails
  <2>1. messages' = messages
    BY <1>5 DEF StatementFails
  <2>2. Calls(<<>>) \/ (Next1("user") /\ Calls(StatusCalls(id, body)))
    BY <1>5 DEF StatementFails
  <2> QED
    BY <1>0, <1>2, <1>4, <2>1, <2>2
<1>6. CASE ProcessUser
  <2>1. Next1("user") /\ Calls(StatusCalls(id, body)) /\ messages' = messages
    BY <1>6 DEF ProcessUser
  <2> QED
    BY <1>0, <1>4, <2>1
<1>7. CASE Handle
  <2> DEFINE stored == Append(messages, body)
             n == Len(messages) + 1
             tasks == <<BodyCall(n, body)>> \o FollowCalls(n, body)
  <2>1. body \in Bodies
    BY <1>1, <1>7 DEF Handle, Next1, Right
  <2>2. messages' = stored /\ todo' = tasks \o Tail(todo)
    BY <1>7 DEF Handle, Calls
  <2>3. stored \in Seq(Bodies) /\ n \in DOMAIN stored /\ stored[n] = body
    BY <1>1, <2>1, AppendProperties
  <2> HIDE DEF stored, n
  <2>4. /\ AllRight(<<BodyCall(n, stored[n])>> \o FollowCalls(n, stored[n]), stored)
        /\ \A task \in ToSet(<<BodyCall(n, stored[n])>> \o FollowCalls(n, stored[n])) :
             task.do \in {"tweet", "user", "follow"}
    BY <2>3, CallsOfMessage
  <2>5. AllRight(tasks, stored) /\ \A task \in ToSet(tasks) : task.do \in {"tweet", "user", "follow"}
    BY <2>3, <2>4
  <2> HIDE DEF tasks
  <2> QED
    BY <1>0, <2>2, <2>5 DEF Goal
<1>8. CASE ProcessTweet
  <2> DEFINE by == Head(todo).by
             tasks == TweetCalls(id, body, by)
  <2>1. messages' = messages /\ (Calls(<<>>) \/ (by # None /\ Calls(tasks)))
    BY <1>8 DEF ProcessTweet
  <2>2. /\ id \in DOMAIN messages /\ body \in Posts \cap Inside[messages[id]]
        /\ by # None => by \in Profiles \cap Inside[messages[id]]
    <3>1. by \in Profiles \cup {None}
      BY <1>1 DEF Right, Tasks
    <3> QED
      BY <1>1, <1>8, <3>1 DEF ProcessTweet, Next1, Right
  <2>3. by # None => /\ AllRight(tasks, messages)
                     /\ \A task \in ToSet(tasks) : task.do \in {"user", "tweet", "parent"}
    BY <1>1, <2>2, CallsOfTweet
  <2> HIDE DEF tasks, body, id, by
  <2> QED
    BY <1>0, <1>2, <2>1, <2>3 DEF Calls, Goal
<1>9. CASE FetchParent
  <2>1. PICK o \in Posts : Hydrates(o) /\ Calls(<<HandleCall(o)>>)
    BY <1>9 DEF FetchParent
  <2>2. messages' = messages /\ o \in Bodies
    BY <1>9, <2>1 DEF FetchParent, Hydrates, Bodies
  <2>3. Right(HandleCall(o), messages)
    <3>1. HandleCall(o) \in Tasks
      BY DEF HandleCall, Task, Tasks, Calling
    <3> QED
      BY <2>2, <3>1 DEF HandleCall, Task, Right
  <2>4. HandleCall(o).do = "handle"
    BY DEF HandleCall, Task
  <2> DEFINE task == HandleCall(o)
  <2>5. Right(task, messages') /\ task.do = "handle" /\ todo' = <<task>> \o Tail(todo)
    BY <2>1, <2>2, <2>3, <2>4 DEF Calls
  <2> HIDE DEF task
  <2>6. AllRight(<<task>>, messages') /\ ToSet(<<task>>) = {task}
    <3> DEFINE stored == messages'
    <3>1. Right(task, stored)
      BY <2>5
    <3> HIDE DEF stored
    <3>2. AllRight(<<task>>, stored) /\ ToSet(<<task>>) = {task}
      BY <3>1, OneCall
    <3> QED
      BY <3>2 DEF stored
  <2> QED
    BY <2>5, <2>6 DEF Goal
<1>10. CASE ScanMessage
  <2>1. messages' = messages
    BY <1>10 DEF ScanMessage
  <2>2. CASE id > Len(messages)
    BY <1>0, <1>2, <1>10, <2>2 DEF ScanMessage
  <2>3. CASE ~(id > Len(messages))
    <3>1. id \in 1 .. Len(messages) + 1 /\ Len(messages) \in Nat /\ DOMAIN messages = 1 .. Len(messages)
      BY <1>1, <1>10 DEF ScanMessage, Next1, Right
    <3>2. id \in DOMAIN messages /\ id + 1 \in 1 .. Len(messages) + 1
      BY <2>3, <3>1
    <3>3. Right(BodyCall(id, messages[id]), messages)
      BY <1>1, <3>2, CallsOfMessage
    <3>4. Right(ScanCall(id + 1), messages)
      <4>1. ScanCall(id + 1) \in Tasks
        BY <3>2 DEF ScanCall, Task, Tasks, Calling
      <4> QED
        BY <3>2, <4>1 DEF ScanCall, Task, Right
    <3> DEFINE first == BodyCall(id, messages[id])
               last == ScanCall(id + 1)
    <3>5. Calls(<<first, last>>)
      BY <1>10, <2>3 DEF ScanMessage
    <3>6. Right(first, messages) /\ Right(last, messages)
      BY <3>3, <3>4
    <3> HIDE DEF first, last
    <3>7. AllRight(<<first, last>>, messages)
      BY <3>6, TwoCalls
    <3> QED
      BY <1>10, <2>1, <3>5, <3>7 DEF Calls, Goal
  <2> QED
    BY <2>2, <2>3
<1> QED
  BY <1>3, <1>5, <1>6, <1>7, <1>8, <1>9, <1>10 DEF Consume

\* Which steps touch the calls.
LEMMA TodoKept ==
  ASSUME [Next]_vars
  PROVE  Consume \/ (\E p \in Producers : Send(p)) \/ Crash \/ Rescan \/ todo' = todo
<1>1. ASSUME NEW p \in Timelines, Appear(p) \/ Fetch(p)
      PROVE  todo' = todo
  BY <1>1 DEF Appear, Fetch
<1>2. ASSUME NEW p \in Producers, FetchFails(p) \/ Stop(p)
      PROVE  todo' = todo
  BY <1>2 DEF FetchFails, Stop
<1>3. CASE FetchFollowers \/ Signal \/ End \/ Restart
  BY <1>3 DEF FetchFollowers, Signal, End, Restart
<1>4. CASE UNCHANGED vars
  BY <1>4 DEF vars
<1> QED
  BY <1>1, <1>2, <1>3, <1>4 DEF Next, Poll

\* Calls stay right in every step.
LEMMA TodoStep ==
  ASSUME TypeOK, [Next]_vars
  PROVE  AllRight(todo', messages')
<1>0. AllRight(todo, messages) /\ AllRight(todo, messages')
  BY TypeIsRight, MessagesStay
<1>1. CASE Consume
  <2>1. PICK tasks : todo' = tasks \o Tail(todo) /\ AllRight(tasks, messages')
    BY <1>1, ConsumeMakes
  <2>2. todo # <<>>
    BY <1>1, ConsumeMakes
  <2> DEFINE stored == messages'
  <2>3. AllRight(todo, stored) /\ AllRight(tasks, stored)
    BY <1>0, <2>1
  <2> HIDE DEF stored
  <2>4. AllRight(todo', stored)
    BY <2>1, <2>2, <2>3, CallsMade
  <2> QED
    BY <2>4 DEF stored
<1>2. ASSUME NEW p \in Producers, Send(p)
      PROVE  AllRight(todo', messages')
  <2>1. batch[p] # <<>> /\ batch[p] \in Seq(Bodies)
    BY <1>2 DEF Send, TypeOK
  <2>2. Head(batch[p]) \in Bodies
    BY <2>1
  <2> DEFINE body == Head(batch[p])
  <2>3. todo' = <<HandleCall(body)>> /\ messages' = messages
    BY <1>2 DEF Send
  <2>4. body \in Bodies
    BY <2>2
  <2> HIDE DEF body
  <2>5. Right(HandleCall(body), messages)
    <3>1. HandleCall(body) \in Tasks
      BY <2>4 DEF HandleCall, Task, Tasks, Calling, Bodies, Sent
    <3> QED
      BY <2>4, <3>1 DEF HandleCall, Task, Right
  <2> QED
    BY <2>3, <2>5, OneCall
<1>3. CASE Crash
  BY <1>3, NoCalls DEF Crash
<1>4. CASE Rescan
  <2>1. todo' = <<ScanCall(1)>> \o todo /\ messages' = messages
    BY <1>4 DEF Rescan
  <2>2. Right(ScanCall(1), messages)
    <3>1. ScanCall(1) \in Tasks
      BY DEF ScanCall, Task, Tasks, Calling
    <3>2. 1 \in 1 .. Len(messages) + 1
      BY DEF TypeOK
    <3> QED
      BY <3>1, <3>2 DEF ScanCall, Task, Right
  <2>3. AllRight(<<ScanCall(1)>> \o todo, messages)
    BY <1>0, <2>2, OneCall, JoinedCalls
  <2> QED
    BY <2>1, <2>3
<1>5. CASE todo' = todo
  BY <1>0, <1>5
<1> QED
  BY <1>1, <1>2, <1>3, <1>4, <1>5, TodoKept

-----------------------------------------------------------------------------
(* The types                                                               *)

\* What Twitter answers is a tweet above since_id.
LEMMA AboveAreTweets ==
  ASSUME TypeOK, NEW p \in Timelines, NEW k \in Above(p)
  PROVE  Entries[p][k] \in Sent /\ Id[Entries[p][k]] > since[p] /\ Id[Entries[p][k]] \in Nat
<1>1. Entries[p] \in Seq(Sent) /\ shown[p] \in Nat /\ shown[p] <= Len(Entries[p])
  BY DEF TypeOK
<1>2. k \in 1 .. shown[p] /\ Id[Entries[p][k]] > since[p]
  BY DEF Above
<1>3. k \in 1 .. Len(Entries[p])
  BY <1>1, <1>2
<1>4. Entries[p][k] \in Sent
  BY <1>1, <1>3
<1>5. Id[Entries[p][k]] \in Nat
  BY <1>4 DEF Sent
<1> QED
  BY <1>2, <1>4, <1>5

\* What a producer does when it has sent its last message.
LEMMA NewestKept ==
  ASSUME TypeOK, NEW p \in Producers, KeepsNewest(p)
  PROVE  /\ \E state \in {"tick", "done"} : pc' = [pc EXCEPT ![p] = state]
         /\ since' = since \/ since' = [since EXCEPT ![p] = newest[p]]
         /\ ctxDone' \in BOOLEAN
BY DEF KeepsNewest, TypeOK

\* The locals of the producers keep their types, and one sends as long as it has
\* something to send.
LEMMA ProducersStep ==
  ASSUME TypeOK, [Next]_vars
  PROVE  /\ pc' \in [Producers -> {"tick", "send", "done"}]
         /\ batch' \in [Producers -> Seq(Bodies)]
         /\ \A p \in Producers : pc'[p] = "send" <=> batch'[p] # <<>>
         /\ newest' \in [Producers -> Nat] /\ since' \in [Producers -> Nat]
<1> DEFINE Goal ==
         /\ pc' \in [Producers -> {"tick", "send", "done"}]
         /\ batch' \in [Producers -> Seq(Bodies)]
         /\ \A p \in Producers : pc'[p] = "send" <=> batch'[p] # <<>>
         /\ newest' \in [Producers -> Nat] /\ since' \in [Producers -> Nat]
<1>0. /\ pc \in [Producers -> {"tick", "send", "done"}]
      /\ batch \in [Producers -> Seq(Bodies)]
      /\ \A p \in Producers : pc[p] = "send" <=> batch[p] # <<>>
      /\ newest \in [Producers -> Nat] /\ since \in [Producers -> Nat]
  BY DEF TypeOK
<1>1. ASSUME NEW p \in Timelines, Fetch(p)
      PROVE  Goal
  <2>1. PICK n \in 1 .. PerPage : \E at \in [1 .. n -> Above(p)] :
          /\ batch' = [batch EXCEPT ![p] = Page(p, at, n)]
          /\ newest' = [newest EXCEPT ![p] = Id[Page(p, at, n)[1]]]
    BY <1>1 DEF Fetch
  <2>2. PICK at \in [1 .. n -> Above(p)] :
          /\ batch' = [batch EXCEPT ![p] = Page(p, at, n)]
          /\ newest' = [newest EXCEPT ![p] = Id[Page(p, at, n)[1]]]
    BY <2>1
  <2> DEFINE page == Page(p, at, n)
  <2>3. n \in Nat /\ DOMAIN page = 1 .. n /\ \A i \in 1 .. n : page[i] \in Sent /\ Id[page[i]] \in Nat
    BY AboveAreTweets DEF Page
  <2>4. page \in Seq(Bodies)
    <3>1. \A i \in 1 .. n : Entries[p][at[i]] \in Bodies
      BY AboveAreTweets DEF Bodies
    <3> QED
      BY <2>3, <3>1, IsASeq DEF Page
  <2>5. batch' = [batch EXCEPT ![p] = page] /\ newest' = [newest EXCEPT ![p] = Id[page[1]]]
    BY <2>2
  <2> HIDE DEF page
  <2>6. page # <<>> /\ Id[page[1]] \in Nat
    <3>1. 1 \in 1 .. n
      OBVIOUS
    <3>2. DOMAIN page = 1 .. n
      BY <2>3
    <3>3. page # <<>>
      BY ONLY <3>1, <3>2
    <3> QED
      BY <2>3, <3>1, <3>3
  <2>7. p \in Producers /\ pc' = [pc EXCEPT ![p] = "send"] /\ since' = since
    BY <1>1 DEF Fetch, Producers
  <2> QED
    BY <1>0, <2>4, <2>5, <2>6, <2>7
<1>2. CASE FetchFollowers
  <2>1. FanList \in Seq(Bodies)
    BY DEF Bodies
  <2>2. /\ FanList # <<>> /\ batch' = [batch EXCEPT ![Followers] = FanList]
        /\ pc' = [pc EXCEPT ![Followers] = "send"] /\ UNCHANGED <<newest, since>>
    BY <1>2 DEF FetchFollowers
  <2> QED
    BY <1>0, <2>1, <2>2 DEF Producers
<1>3. ASSUME NEW p \in Producers, FetchFails(p) \/ Stop(p)
      PROVE  Goal
  BY <1>0, <1>3 DEF FetchFails, Stop
<1>4. ASSUME NEW p \in Producers, Send(p)
      PROVE  Goal
  <2>1. batch[p] \in Seq(Bodies) /\ batch[p] # <<>> /\ pc[p] = "send"
    BY <1>0, <1>4 DEF Send
  <2>2. Tail(batch[p]) \in Seq(Bodies) /\ (Tail(batch[p]) = <<>> <=> Len(batch[p]) = 1)
    <3>1. Tail(batch[p]) \in Seq(Bodies) /\ Len(Tail(batch[p])) = Len(batch[p]) - 1
          /\ Len(batch[p]) \in Nat
      BY <2>1, HeadTailProperties, LenProperties
    <3>2. Tail(batch[p]) = <<>> <=> Len(Tail(batch[p])) = 0
      BY <3>1, EmptySeq
    <3> QED
      BY <3>1, <3>2
  <2>3. batch' = [batch EXCEPT ![p] = Tail(batch[p])] /\ newest' = newest
    BY <1>4 DEF Send
  <2>4. CASE Len(batch[p]) = 1
    <3>1. KeepsNewest(p)
      BY <1>4, <2>4 DEF Send
    <3>2. PICK state \in {"tick", "done"} : pc' = [pc EXCEPT ![p] = state]
      BY <3>1, NewestKept
    <3>3. since' \in [Producers -> Nat]
      BY <1>0, <3>1, NewestKept
    <3> QED
      BY <1>0, <2>2, <2>3, <2>4, <3>2, <3>3
  <2>5. CASE Len(batch[p]) # 1
    <3>1. pc' = pc /\ since' = since
      BY <1>4, <2>5 DEF Send
    <3> QED
      BY <1>0, <2>1, <2>2, <2>3, <2>5, <3>1
  <2> QED
    BY <2>4, <2>5
<1>5. CASE Restart
  BY <1>5 DEF Restart
<1>6. CASE UNCHANGED producers
  <2>1. pc' = pc /\ batch' = batch /\ newest' = newest /\ since' = since
    BY <1>6 DEF producers
  <2> QED
    BY <1>0, <2>1
<1>7. ASSUME NEW p \in Timelines, Appear(p)
      PROVE  UNCHANGED producers
  BY <1>7 DEF Appear
<1>8. CASE Consume
  <2>1. UNCHANGED producers
    BY <1>8, ConsumeMakes DEF Unchanged
  <2> QED
    BY <1>6, <2>1
<1>9. CASE Signal \/ End \/ Crash \/ Rescan
  <2>1. UNCHANGED producers
    BY <1>9 DEF Signal, End, Crash, Rescan, producers
  <2> QED
    BY <1>6, <2>1
<1>10. CASE UNCHANGED vars
  <2>1. UNCHANGED producers
    BY <1>10 DEF vars
  <2> QED
    BY <1>6, <2>1
<1> QED
  BY <1>1, <1>2, <1>3, <1>4, <1>5, <1>6, <1>7, <1>8, <1>9, <1>10 DEF Next, Poll

\* Which steps write the derived rows.
LEMMA RowsKept ==
  ASSUME [Next]_vars
  PROVE  \/ ProcessTweet \/ ProcessUser \/ InsertFollow \/ Rescan
         \/ (tweets' = tweets /\ origin' = origin /\ users' = users /\ follows' = follows)
<1>1. ASSUME NEW p \in Timelines, Appear(p) \/ Fetch(p)
      PROVE  UNCHANGED derived
  BY <1>1 DEF Appear, Fetch
<1>2. ASSUME NEW p \in Producers, Poll(p)
      PROVE  UNCHANGED derived
  BY <1>2 DEF Poll, FetchFails, Send, Stop
<1>3. CASE StatementFails \/ HandleDrops \/ Handle \/ NoParent \/ FetchParent \/ ScanMessage
  <2>1. UNCHANGED derived
    BY <1>3 DEF StatementFails, HandleDrops, Handle, NoParent, FetchParent, ScanMessage
  <2> QED
    BY <2>1 DEF derived
<1>4. CASE FetchFollowers \/ Signal \/ End \/ Crash \/ Restart
  <2>1. UNCHANGED derived
    BY <1>4 DEF FetchFollowers, Signal, End, Crash, Restart
  <2> QED
    BY <2>1 DEF derived
<1>5. CASE UNCHANGED vars
  BY <1>5 DEF vars, derived
<1> QED
  BY <1>1, <1>2, <1>3, <1>4, <1>5 DEF Next, Consume, derived

\* A tweet that gets a row.
LEMMA TweetMade ==
  ASSUME TypeOK, ProcessTweet, Head(todo).by # None, tweets[Id[Head(todo).body]] = 0
  PROVE  LET o == Head(todo).body
             id == Head(todo).id
             by == Head(todo).by
         IN  /\ id \in DOMAIN messages /\ id \in Nat \ {0} /\ Id[o] \in Tweets
             /\ o \in Posts \cap Inside[messages[id]] /\ by \in Profiles \cap Inside[messages[id]]
             /\ tweets' = [tweets EXCEPT ![Id[o]] = id]
             /\ origin' = [origin EXCEPT ![Id[o]] = <<o, by>>]
             /\ todo' = TweetCalls(id, o, by) \o Tail(todo)
<1>1. todo # <<>> /\ Head(todo).do = "tweet"
  BY DEF ProcessTweet, Next1
<1>2. Right(Head(todo), messages) /\ messages \in Seq(Bodies)
  BY <1>1, NextCall DEF TypeOK
<1>3. Head(todo).by \in Profiles
  BY <1>2 DEF Right, Tasks
<1>4. /\ Head(todo).id \in DOMAIN messages /\ Head(todo).body \in Posts \cap Inside[messages[Head(todo).id]]
      /\ Head(todo).by \in Profiles \cap Inside[messages[Head(todo).id]]
  BY <1>1, <1>2, <1>3 DEF Right
<1>5. Head(todo).id \in Nat \ {0}
  BY <1>2, <1>4
<1> QED
  BY <1>4, <1>5 DEF ProcessTweet, Calls

\* A step that makes a row of a tweet, or none.
LEMMA TweetOrNone ==
  ASSUME TypeOK, ProcessTweet
  PROVE  \/ Head(todo).by # None /\ tweets[Id[Head(todo).body]] = 0
         \/ /\ tweets' = tweets /\ origin' = origin /\ Calls(<<>>)
            /\ (Head(todo).by = None \/ tweets[Id[Head(todo).body]] # 0)
BY DEF ProcessTweet

\* A user that gets a row, or has one.
LEMMA UserMade ==
  ASSUME TypeOK, ProcessUser
  PROVE  LET u == Head(todo).body
             id == Head(todo).id
         IN  /\ id \in DOMAIN messages /\ id \in Nat \ {0} /\ Key[u] \in Keys
             /\ u \in Profiles \cap Inside[messages[id]]
             /\ users' \in [Keys -> Nat] /\ users'[Key[u]] # 0
             /\ \A k \in Keys : users'[k] = users[k] \/ (users[k] = 0 /\ k = Key[u] /\ users'[k] = id)
             /\ todo' = StatusCalls(id, u) \o Tail(todo)
<1>1. todo # <<>> /\ Head(todo).do = "user"
  BY DEF ProcessUser, Next1
<1>2. Right(Head(todo), messages) /\ messages \in Seq(Bodies) /\ users \in [Keys -> Nat]
  BY <1>1, NextCall DEF TypeOK
<1> DEFINE u == Head(todo).body
           id == Head(todo).id
<1>3. id \in DOMAIN messages /\ u \in Profiles \cap Inside[messages[id]]
  BY <1>1, <1>2 DEF Right
<1>4. id \in Nat \ {0} /\ Key[u] \in Keys
  BY <1>2, <1>3
<1>5. users' = [users EXCEPT ![Key[u]] = IF users[Key[u]] = 0 THEN id ELSE users[Key[u]]]
  BY <1>2, <1>4 DEF ProcessUser
<1>6. todo' = StatusCalls(id, u) \o Tail(todo)
  BY DEF ProcessUser, Calls
<1> HIDE DEF u, id
<1>7. /\ users' \in [Keys -> Nat] /\ users'[Key[u]] # 0
      /\ \A k \in Keys : users'[k] = users[k] \/ (users[k] = 0 /\ k = Key[u] /\ users'[k] = id)
  BY <1>2, <1>4, <1>5
<1> QED
  BY <1>3, <1>4, <1>6, <1>7 DEF u, id

\* A follower that gets a row of Follows, or has one.
LEMMA FollowMade ==
  ASSUME TypeOK, InsertFollow
  PROVE  LET u == Head(todo).body
             id == Head(todo).id
         IN  /\ id \in DOMAIN messages /\ u \in Fans /\ messages[id] = u
             /\ Account[Key[u]] \in Accounts
             /\ follows' \in [Accounts -> Nat] /\ follows'[Account[Key[u]]] # 0
             /\ \A a \in Accounts :
                  follows'[a] = follows[a] \/ (a = Account[Key[u]] /\ follows[a] = 0 /\ follows'[a] = id)
             /\ todo' = <<>> \o Tail(todo)
<1>1. todo # <<>> /\ Head(todo).do = "follow"
  BY DEF InsertFollow, Next1
<1>2. Right(Head(todo), messages) /\ messages \in Seq(Bodies) /\ follows \in [Accounts -> Nat]
  BY <1>1, NextCall DEF TypeOK
<1> DEFINE u == Head(todo).body
           id == Head(todo).id
<1>3. id \in DOMAIN messages /\ u \in Fans /\ messages[id] = u
  BY <1>1, <1>2 DEF Right
<1>4. id \in Nat \ {0} /\ Account[Key[u]] \in Accounts
  BY <1>2, <1>3 DEF Accounts
<1>5. follows' = [follows EXCEPT ![Account[Key[u]]] =
               IF follows[Account[Key[u]]] = 0 THEN id ELSE follows[Account[Key[u]]]]
  BY <1>2, <1>4 DEF InsertFollow
<1>6. todo' = <<>> \o Tail(todo)
  BY DEF InsertFollow, Calls
<1> HIDE DEF u, id
<1>7. /\ follows' \in [Accounts -> Nat] /\ follows'[Account[Key[u]]] # 0
      /\ \A a \in Accounts :
                  follows'[a] = follows[a] \/ (a = Account[Key[u]] /\ follows[a] = 0 /\ follows'[a] = id)
  BY <1>2, <1>4, <1>5
<1> QED
  BY <1>3, <1>4, <1>6, <1>7 DEF u, id

RowTypes ==
  /\ tweets \in [Tweets -> Nat] /\ users \in [Keys -> Nat] /\ follows \in [Accounts -> Nat]
  /\ origin \in [Tweets -> (Posts \X Profiles) \cup {None}]

LEMMA RowTypesStep ==
  ASSUME TypeOK, [Next]_vars
  PROVE  RowTypes'
<1>0. RowTypes
  BY DEF TypeOK, RowTypes
<1>1. CASE ProcessTweet /\ Head(todo).by # None /\ tweets[Id[Head(todo).body]] = 0
  <2>1. users' = users /\ follows' = follows
    BY <1>1 DEF ProcessTweet
  <2> DEFINE o == Head(todo).body
             id == Head(todo).id
             by == Head(todo).by
  <2>2. /\ id \in Nat /\ o \in Posts /\ by \in Profiles /\ Id[o] \in Tweets
        /\ tweets' = [tweets EXCEPT ![Id[o]] = id] /\ origin' = [origin EXCEPT ![Id[o]] = <<o, by>>]
    BY <1>1, TweetMade
  <2> HIDE DEF o, id, by
  <2> QED
    BY <1>0, <2>1, <2>2 DEF RowTypes
<1>2. CASE ProcessTweet /\ tweets' = tweets /\ origin' = origin
  BY <1>0, <1>2 DEF ProcessTweet, RowTypes
<1>3. CASE ProcessUser
  <2>1. users' \in [Keys -> Nat]
    BY <1>3, UserMade
  <2> QED
    BY <1>0, <1>3, <2>1 DEF ProcessUser, RowTypes
<1>4. CASE InsertFollow
  <2>1. follows' \in [Accounts -> Nat]
    BY <1>4, FollowMade
  <2> QED
    BY <1>0, <1>4, <2>1 DEF InsertFollow, RowTypes
<1>5. CASE Rescan
  BY <1>5 DEF Rescan, RowTypes
<1>6. CASE tweets' = tweets /\ origin' = origin /\ users' = users /\ follows' = follows
  BY <1>0, <1>6 DEF RowTypes
<1> QED
  BY <1>1, <1>2, <1>3, <1>4, <1>5, <1>6, RowsKept, TweetOrNone

\* The types of the other variables.
LEMMA RestStep ==
  ASSUME TypeOK, [Next]_vars
  PROVE  /\ shown' \in [Timelines -> Nat] /\ \A p \in Timelines : shown'[p] <= Len(Entries[p])
         /\ up' \in BOOLEAN /\ ctxDone' \in BOOLEAN
         /\ counts' \in [Counted -> Nat]
<1>1. /\ shown' \in [Timelines -> Nat] /\ \A p \in Timelines : shown'[p] <= Len(Entries[p])
  <2>1. \/ \E p \in Timelines : Appear(p)
        \/ shown' = shown
    BY ConsumeMakes DEF Next, Fetch, FetchFollowers, Poll, FetchFails, Send, Stop, Unchanged,
           Signal, End, Crash, Restart, Rescan, vars
  <2>2. ASSUME NEW p \in Timelines, Appear(p)
        PROVE  /\ shown' \in [Timelines -> Nat]
               /\ \A q \in Timelines : shown'[q] <= Len(Entries[q])
    <3>1. shown' = [shown EXCEPT ![p] = shown[p] + 1] /\ shown[p] < Len(Entries[p])
      BY <2>2 DEF Appear
    <3>2. Entries[p] \in Seq(Sent) /\ Len(Entries[p]) \in Nat
      OBVIOUS
    <3> QED
      BY <3>1, <3>2 DEF TypeOK
  <2> QED
    BY <2>1, <2>2 DEF TypeOK
<1>2. up' \in BOOLEAN
  BY ConsumeMakes, Zenon DEF TypeOK, Next, Appear, Fetch, FetchFollowers, Poll, FetchFails, Send, Stop,
         Unchanged, Signal, End, Crash, Restart, Rescan, vars
<1>3. ctxDone' \in BOOLEAN
  <2>1. ASSUME NEW p \in Producers, Send(p) PROVE ctxDone' = ctxDone \/ ctxDone' = TRUE
    BY <2>1 DEF Send, KeepsNewest
  <2>2. ctxDone' = ctxDone \/ ctxDone' = TRUE \/ ctxDone' = FALSE
    BY <2>1, ConsumeMakes, Zenon DEF Next, Appear, Fetch, FetchFollowers, Poll, FetchFails, Stop,
         Unchanged, Signal, End, Crash, Restart, Rescan, vars
  <2> QED
    BY <2>2, Zenon DEF TypeOK
<1>4. counts' \in [Counted -> Nat]
  <2>1. counts' = counts \/ \E what \in Counted : Spend(what)
    BY Zenon DEF Counted, Next, Appear, Fetch, FetchFollowers, Poll, FetchFails, Send, Stop, Consume,
           StatementFails, HandleDrops, Handle, ProcessTweet, ProcessUser, InsertFollow, NoParent,
           FetchParent, ScanMessage, Signal, End, Crash, Restart, Rescan, vars
  <2>2. ASSUME NEW what \in Counted, Spend(what)
        PROVE  counts' \in [Counted -> Nat]
    BY <2>2 DEF Spend, TypeOK
  <2> QED
    BY <2>1, <2>2 DEF TypeOK
<1> QED
  BY <1>1, <1>2, <1>3, <1>4

\* The types are kept.
LEMMA TypeStep ==
  ASSUME TypeOK, [Next]_vars
  PROVE  TypeOK'
<1>1. AllRight(todo', messages')
  BY TodoStep
<1>2. todo' \in Seq(Tasks) /\ \A k \in DOMAIN todo' : TaskOK(todo[k])'
  BY <1>1 DEF AllRight, Right, TaskOK
<1>3. messages' \in Seq(Bodies)
  BY MessagesStay
<1>4. RowTypes'
  BY RowTypesStep
<1> QED
  BY <1>2, <1>3, <1>4, ProducersStep, RestStep, Zenon DEF TypeOK, RowTypes

-----------------------------------------------------------------------------
(* Where rows come from                                                    *)

\* What a message says of a tweet, of a user and of a follower.
TweetIn(t, from, body) ==
  /\ from \in Posts \X Profiles /\ Id[from[1]] = t
  /\ from[1] \in Inside[body] /\ from[2] \in Inside[body]
UserIn(k, body)   == \E u \in Inside[body] \cap Profiles : Key[u] = k
FollowIn(a, body) == \E u \in Fans : body = u /\ Account[Key[u]] = a

TweetRows ==
  \A t \in Tweets : tweets[t] # 0 =>
    tweets[t] \in DOMAIN messages /\ TweetIn(t, origin[t], messages[tweets[t]])
UserRows ==
  \A k \in Keys : users[k] # 0 => users[k] \in DOMAIN messages /\ UserIn(k, messages[users[k]])
FollowRows ==
  \A a \in Accounts : follows[a] # 0 =>
    follows[a] \in DOMAIN messages /\ FollowIn(a, messages[follows[a]])

LEMMA RowsByTable == RowsFromMessages <=> TweetRows /\ UserRows /\ FollowRows
BY DEF RowsFromMessages, TweetRows, UserRows, FollowRows, TweetIn, UserIn, FollowIn

\* Rows come from messages that hold what they say.
LEMMA RowsStep ==
  ASSUME TypeOK, RowsFromMessages, [Next]_vars
  PROVE  RowsFromMessages'
<1>0. TweetRows /\ UserRows /\ FollowRows /\ RowTypes
  BY RowsByTable DEF TypeOK, RowTypes
<1>m. \A i \in DOMAIN messages : i \in DOMAIN messages' /\ messages'[i] = messages[i]
  BY MessagesStay
<1>1. TweetRows'
  <2>1. CASE tweets' = tweets /\ origin' = origin
    BY <1>0, <1>m, <2>1 DEF TweetRows
  <2>2. CASE ProcessTweet /\ Head(todo).by # None /\ tweets[Id[Head(todo).body]] = 0
    <3> DEFINE o == Head(todo).body
               id == Head(todo).id
               by == Head(todo).by
    <3>1. /\ id \in DOMAIN messages /\ Id[o] \in Tweets
          /\ o \in Posts \cap Inside[messages[id]] /\ by \in Profiles \cap Inside[messages[id]]
          /\ tweets' = [tweets EXCEPT ![Id[o]] = id] /\ origin' = [origin EXCEPT ![Id[o]] = <<o, by>>]
      BY <2>2, TweetMade
    <3> HIDE DEF o, id, by
    <3>2. \A t \in Tweets : t # Id[o] => tweets'[t] = tweets[t] /\ origin'[t] = origin[t]
      BY <1>0, <3>1 DEF RowTypes
    <3>3. tweets'[Id[o]] = id /\ origin'[Id[o]] = <<o, by>>
      BY <1>0, <3>1 DEF RowTypes
    <3>4. messages'[id] = messages[id] /\ id \in DOMAIN messages'
      BY <1>m, <3>1
    <3>5. TweetIn(Id[o], <<o, by>>, messages[id])
      BY <3>1 DEF TweetIn
    <3>6. ASSUME NEW t \in Tweets, tweets'[t] # 0
          PROVE  tweets'[t] \in DOMAIN messages' /\ TweetIn(t, origin'[t], messages'[tweets'[t]])
      <4>1. CASE t = Id[o]
        BY <3>3, <3>4, <3>5, <4>1, Zenon
      <4>2. CASE t # Id[o]
        <5>1. tweets'[t] = tweets[t] /\ origin'[t] = origin[t] /\ tweets[t] # 0
          BY <3>2, <3>6, <4>2
        <5>2. tweets[t] \in DOMAIN messages /\ TweetIn(t, origin[t], messages[tweets[t]])
          BY <1>0, <5>1 DEF TweetRows
        <5> QED
          BY <1>m, <5>1, <5>2, Zenon
      <4> QED
        BY <4>1, <4>2
    <3> QED
      BY <3>6 DEF TweetRows
  <2>3. CASE Rescan
    BY <2>3 DEF Rescan, TweetRows
  <2> QED
    BY <2>1, <2>2, <2>3, RowsKept, TweetOrNone DEF ProcessUser, InsertFollow
<1>2. UserRows'
  <2>1. CASE users' = users
    BY <1>0, <1>m, <2>1 DEF UserRows
  <2>2. CASE ProcessUser
    <3> DEFINE u == Head(todo).body
               id == Head(todo).id
    <3>1. /\ id \in DOMAIN messages /\ u \in Profiles \cap Inside[messages[id]]
          /\ \A k \in Keys : users'[k] = users[k] \/ (users[k] = 0 /\ k = Key[u] /\ users'[k] = id)
      BY <2>2, UserMade
    <3>2. UserIn(Key[u], messages[id])
      BY <3>1 DEF UserIn
    <3> HIDE DEF u, id
    <3>3. messages'[id] = messages[id] /\ id \in DOMAIN messages'
      BY <1>m, <3>1
    <3>4. ASSUME NEW k \in Keys, users'[k] # 0
          PROVE  users'[k] \in DOMAIN messages' /\ UserIn(k, messages'[users'[k]])
      <4>1. CASE users'[k] = users[k]
        <5>1. users[k] \in DOMAIN messages /\ UserIn(k, messages[users[k]])
          BY <1>0, <3>4, <4>1 DEF UserRows
        <5>2. messages'[users[k]] = messages[users[k]] /\ users[k] \in DOMAIN messages'
          BY <1>m, <5>1
        <5> QED
          BY <4>1, <5>1, <5>2
      <4>2. CASE k = Key[u] /\ users'[k] = id
        <5>1. UserIn(k, messages'[id])
          BY <3>2, <3>3, <4>2
        <5> QED
          BY <3>3, <4>2, <5>1
      <4> QED
        BY <3>1, <4>1, <4>2
    <3> QED
      BY <3>4 DEF UserRows
  <2>3. CASE Rescan
    BY <2>3 DEF Rescan, UserRows
  <2> QED
    BY <2>1, <2>2, <2>3, RowsKept DEF ProcessTweet, InsertFollow
<1>3. FollowRows'
  <2>1. CASE follows' = follows
    BY <1>0, <1>m, <2>1 DEF FollowRows
  <2>2. CASE InsertFollow
    <3> DEFINE u == Head(todo).body
               id == Head(todo).id
    <3>1. /\ id \in DOMAIN messages /\ u \in Fans /\ messages[id] = u
          /\ \A a \in Accounts :
               follows'[a] = follows[a] \/ (a = Account[Key[u]] /\ follows[a] = 0 /\ follows'[a] = id)
      BY <2>2, FollowMade
    <3>2. FollowIn(Account[Key[u]], messages[id])
      BY <3>1 DEF FollowIn
    <3> HIDE DEF u, id
    <3>3. messages'[id] = messages[id] /\ id \in DOMAIN messages'
      BY <1>m, <3>1
    <3>4. ASSUME NEW a \in Accounts, follows'[a] # 0
          PROVE  follows'[a] \in DOMAIN messages' /\ FollowIn(a, messages'[follows'[a]])
      <4>1. CASE follows'[a] = follows[a]
        <5>1. follows[a] \in DOMAIN messages /\ FollowIn(a, messages[follows[a]])
          BY <1>0, <3>4, <4>1 DEF FollowRows
        <5>2. messages'[follows[a]] = messages[follows[a]] /\ follows[a] \in DOMAIN messages'
          BY <1>m, <5>1
        <5> QED
          BY <4>1, <5>1, <5>2
      <4>2. CASE a = Account[Key[u]] /\ follows'[a] = id
        <5>1. FollowIn(a, messages'[id])
          BY <3>2, <3>3, <4>2
        <5> QED
          BY <3>3, <4>2, <5>1
      <4> QED
        BY <3>1, <4>1, <4>2
    <3> QED
      BY <3>4 DEF FollowRows
  <2>3. CASE Rescan
    BY <2>3 DEF Rescan, FollowRows
  <2> QED
    BY <2>1, <2>2, <2>3, RowsKept DEF ProcessTweet, ProcessUser
<1> QED
  BY <1>1, <1>2, <1>3 DEF RowsFromMessages, TweetRows, UserRows, FollowRows, TweetIn, UserIn, FollowIn

-----------------------------------------------------------------------------
(* What was answered                                                       *)

\* The elements of a page of a timeline.
LEMMA PageIsAbove ==
  ASSUME TypeOK, NEW p \in Timelines, Fetch(p)
  PROVE  \E page : /\ batch' = [batch EXCEPT ![p] = page]
                   /\ answered' = [answered EXCEPT ![p] = @ \cup ToSet(page)]
                   /\ \A o \in ToSet(page) : o \in Sent /\ Id[o] > since[p]
<1>1. PICK n \in 1 .. PerPage : \E at \in [1 .. n -> Above(p)] :
        /\ batch' = [batch EXCEPT ![p] = Page(p, at, n)]
        /\ answered' = [answered EXCEPT ![p] = @ \cup ToSet(Page(p, at, n))]
  BY DEF Fetch
<1>2. PICK at \in [1 .. n -> Above(p)] :
        /\ batch' = [batch EXCEPT ![p] = Page(p, at, n)]
        /\ answered' = [answered EXCEPT ![p] = @ \cup ToSet(Page(p, at, n))]
  BY <1>1
<1> DEFINE page == Page(p, at, n)
<1>3. \A i \in 1 .. n : page[i] \in Sent /\ Id[page[i]] > since[p]
  BY AboveAreTweets DEF Page
<1>4. DOMAIN page = 1 .. n
  BY DEF Page
<1>5. batch' = [batch EXCEPT ![p] = page] /\ answered' = [answered EXCEPT ![p] = @ \cup ToSet(page)]
  BY <1>2
<1> HIDE DEF page
<1>6. \A o \in ToSet(page) : o \in Sent /\ Id[o] > since[p]
  BY ONLY <1>3, <1>4, Zenon DEF ToSet
<1> QED
  BY <1>5, <1>6

\* Which steps touch what the producers hold.
LEMMA BatchesKept ==
  ASSUME TypeOK, [Next]_vars
  PROVE  \/ \E p \in Timelines : Fetch(p)
         \/ FetchFollowers
         \/ \E p \in Producers : Send(p)
         \/ Restart
         \/ UNCHANGED <<batch, since, answered>>
<1>1. ASSUME NEW p \in Timelines, Appear(p)
      PROVE  UNCHANGED <<batch, since, answered>>
  BY <1>1 DEF Appear, producers, history
<1>2. ASSUME NEW p \in Producers, FetchFails(p) \/ Stop(p)
      PROVE  UNCHANGED <<batch, since, answered>>
  BY <1>2 DEF FetchFails, Stop, history
<1>3. CASE Consume
  BY <1>3, ConsumeMakes DEF Unchanged, producers
<1>4. CASE Signal \/ End \/ Crash \/ Rescan
  BY <1>4 DEF Signal, End, Crash, Rescan, producers, history
<1>5. CASE UNCHANGED vars
  BY <1>5 DEF vars, producers, history
<1> QED
  BY <1>1, <1>2, <1>3, <1>4, <1>5 DEF Next, Poll

\* A producer sends the first of what it holds and keeps the others.
LEMMA SentIsFirst ==
  ASSUME TypeOK, NEW p \in Producers, Send(p)
  PROVE  /\ todo' = <<HandleCall(Head(batch[p]))>>
         /\ batch' = [batch EXCEPT ![p] = Tail(batch[p])]
         /\ \A o \in ToSet(batch[p]) : o = Head(batch[p]) \/ o \in ToSet(Tail(batch[p]))
         /\ ToSet(Tail(batch[p])) \subseteq ToSet(batch[p])
         /\ Len(batch[p]) = 1 => ToSet(Tail(batch[p])) = {}
<1> DEFINE b == batch[p]
<1>1. b \in Seq(Bodies) /\ b # <<>>
  BY DEF Send, TypeOK
<1> HIDE DEF b
<1>2. /\ Tail(b) \in Seq(Bodies) /\ Len(Tail(b)) = Len(b) - 1
      /\ \A i \in 1 .. Len(Tail(b)) : Tail(b)[i] = b[i + 1]
      /\ Len(b) \in Nat /\ DOMAIN b = 1 .. Len(b)
      /\ DOMAIN Tail(b) = 1 .. Len(Tail(b)) /\ b[1] = Head(b)
  BY <1>1, HeadTailProperties, LenProperties
<1>3. ASSUME NEW i \in DOMAIN b
      PROVE  b[i] = Head(b) \/ b[i] \in ToSet(Tail(b))
  <2>1. CASE i = 1
    BY <1>2, <2>1
  <2>2. CASE i # 1
    <3>1. i - 1 \in 1 .. Len(Tail(b)) /\ i - 1 + 1 = i
      BY <1>2, <2>2
    <3>2. Tail(b)[i - 1] = b[i]
      BY ONLY <1>2, <3>1, Zenon
    <3> QED
      BY ONLY <1>2, <3>1, <3>2, Zenon DEF ToSet
  <2> QED
    BY <2>1, <2>2
<1>4. ASSUME NEW i \in DOMAIN Tail(b)
      PROVE  Tail(b)[i] \in ToSet(b)
  <2>1. i + 1 \in DOMAIN b /\ Tail(b)[i] = b[i + 1]
    BY <1>2
  <2> QED
    BY <2>1 DEF ToSet
<1>5. Len(b) = 1 => ToSet(Tail(b)) = {}
  <2>1. ASSUME Len(b) = 1
        PROVE  DOMAIN Tail(b) = {}
    <3>1. Len(Tail(b)) = 0
      BY ONLY <1>2, <2>1
    <3>2. 1 .. 0 = {}
      OBVIOUS
    <3> QED
      BY ONLY <1>2, <3>1, <3>2, Zenon
  <2> QED
    BY ONLY <2>1, Zenon DEF ToSet
<1>6. todo' = <<HandleCall(Head(b))>> /\ batch' = [batch EXCEPT ![p] = Tail(b)]
  BY DEF Send, b
<1>7. /\ \A o \in ToSet(b) : o = Head(b) \/ o \in ToSet(Tail(b))
      /\ ToSet(Tail(b)) \subseteq ToSet(b)
  BY <1>3, <1>4 DEF ToSet
<1> QED
  BY <1>5, <1>6, <1>7 DEF b

\* What is held stays newer than what is known.
LEMMA BatchStep ==
  ASSUME TypeOK, BatchInv, [Next]_vars
  PROVE  BatchInv'
<1>0. batch \in [Producers -> Seq(Bodies)] /\ since \in [Producers -> Nat]
  BY DEF TypeOK
<1>1. ASSUME NEW p \in Timelines, Fetch(p)
      PROVE  BatchInv'
  <2>1. PICK page : /\ batch' = [batch EXCEPT ![p] = page]
                    /\ \A o \in ToSet(page) : o \in Sent /\ Id[o] > since[p]
    BY <1>1, PageIsAbove
  <2>2. since' = since
    BY <1>1 DEF Fetch
  <2>3. batch'[p] = page /\ \A q \in Timelines \ {p} : batch'[q] = batch[q]
    BY <1>0, <2>1 DEF Producers
  <2> QED
    BY <2>1, <2>2, <2>3 DEF BatchInv
<1>2. CASE FetchFollowers
  <2>1. \A q \in Timelines : batch'[q] = batch[q]
    BY <1>0, <1>2 DEF FetchFollowers
  <2>2. since' = since
    BY <1>2 DEF FetchFollowers
  <2> QED
    BY <2>1, <2>2 DEF BatchInv
<1>3. ASSUME NEW p \in Producers, Send(p)
      PROVE  BatchInv'
  <2>1. batch'[p] = Tail(batch[p]) /\ \A q \in Producers \ {p} : batch'[q] = batch[q]
    BY <1>0, <1>3, SentIsFirst
  <2>2. since' = since \/ (Len(batch[p]) = 1 /\ \A q \in Producers \ {p} : since'[q] = since[q])
    BY <1>0, <1>3, NewestKept DEF Send
  <2>3. ToSet(Tail(batch[p])) \subseteq ToSet(batch[p])
        /\ (Len(batch[p]) = 1 => ToSet(Tail(batch[p])) = {})
    BY <1>3, SentIsFirst
  <2> QED
    BY <2>1, <2>2, <2>3, Zenon DEF BatchInv, Producers
<1>4. CASE Restart
  BY <1>4 DEF Restart, BatchInv, ToSet, Producers
<1>5. CASE UNCHANGED <<batch, since>>
  <2>1. batch' = batch /\ since' = since
    BY <1>5
  <2> QED
    BY <2>1 DEF BatchInv
<1> QED
  BY <1>1, <1>2, <1>3, <1>4, <1>5, BatchesKept

\* What is handled stays so.
LEMMA HandledStays ==
  ASSUME TypeOK, [Next]_vars, NEW o, Handled(o)
  PROVE  Handled(o)'
<1>1. \A x \in ToSet(messages) : x \in ToSet(messages')
  <2>1. \A i \in DOMAIN messages : i \in DOMAIN messages' /\ messages'[i] = messages[i]
    BY MessagesStay
  <2> QED
    BY <2>1 DEF ToSet
<1>2. lost \subseteq lost'
  <2>1. ASSUME NEW p \in Timelines, Appear(p) \/ Fetch(p)
        PROVE  lost' = lost
    BY <2>1 DEF Appear, Fetch, history
  <2>2. ASSUME NEW p \in Producers, Poll(p)
        PROVE  lost' = lost
    BY <2>2 DEF Poll, FetchFails, Send, Stop, history
  <2>3. ASSUME Consume
        PROVE  lost \subseteq lost'
    BY <2>3 DEF Consume, StatementFails, HandleDrops, Handle, ProcessTweet, ProcessUser,
           InsertFollow, NoParent, FetchParent, ScanMessage
  <2>4. CASE Crash
    BY <2>4 DEF Crash
  <2>5. CASE FetchFollowers \/ Signal \/ End \/ Restart \/ Rescan
    BY <2>5 DEF FetchFollowers, Signal, End, Restart, Rescan, history
  <2>6. CASE UNCHANGED vars
    BY <2>6 DEF vars, history
  <2> QED
    BY <2>1, <2>2, <2>3, <2>4, <2>5, <2>6 DEF Next
<1> QED
  BY <1>1, <1>2, Zenon DEF Handled

\* What a step of the consumer leaves of the calls, and what it adds.
LEMMA CallsLeft ==
  ASSUME TypeOK, [Next]_vars, Consume
  PROVE  \A task \in ToSet(todo) : task = Head(todo) \/ task \in ToSet(todo')
<1>1. PICK tasks : todo' = tasks \o Tail(todo) /\ AllRight(tasks, messages')
  BY ConsumeMakes
<1>2. todo # <<>> /\ AllRight(todo, messages')
  BY ConsumeMakes, MessagesStay
<1> DEFINE stored == messages'
<1>3. AllRight(todo, stored) /\ AllRight(tasks, stored)
  BY <1>1, <1>2
<1> HIDE DEF stored
<1> QED
  BY <1>1, <1>2, <1>3, CallsMade

\* A rescan goes before what the process has to do.
LEMMA RescanPushes ==
  ASSUME TypeOK, Rescan
  PROVE  ToSet(todo') = {ScanCall(1)} \cup ToSet(todo)
<1>1. Right(ScanCall(1), messages) /\ AllRight(todo, messages) /\ todo' = <<ScanCall(1)>> \o todo
  <2>1. ScanCall(1) \in Tasks
    BY DEF ScanCall, Task, Tasks, Calling
  <2>2. 1 \in 1 .. Len(messages) + 1
    BY DEF TypeOK
  <2> QED
    BY <2>1, <2>2, TypeIsRight DEF ScanCall, Task, Right, Rescan
<1> DEFINE task == ScanCall(1)
           first == <<task>>
<1>2. Right(task, messages) /\ todo' = first \o todo
  BY <1>1
<1> HIDE DEF task
<1>3. AllRight(first, messages) /\ ToSet(first) = {task}
  BY <1>2, OneCall
<1> HIDE DEF first
<1>4. ToSet(first \o todo) = ToSet(first) \cup ToSet(todo)
  BY <1>1, <1>3, JoinedCalls
<1> QED
  BY <1>2, <1>3, <1>4 DEF task

\* A message that waits for Handle is handled, or goes on waiting.
LEMMA PendingStays ==
  ASSUME TypeOK, [Next]_vars, Consume, NEW o, Pending(o)
  PROVE  Handled(o)' \/ Pending(o)'
<1>1. HandleCall(o) \in ToSet(todo)
  BY Zenon DEF Pending, ToSet
<1>2. todo # <<>>
  BY ConsumeMakes
<1>3. CASE HandleCall(o) # Head(todo)
  <2>1. HandleCall(o) \in ToSet(todo')
    BY <1>1, <1>3, CallsLeft
  <2> QED
    BY <2>1, Zenon DEF Pending, ToSet
<1>4. CASE Head(todo) = HandleCall(o)
  <2>1. Head(todo).do = "handle" /\ Head(todo).body = o
    BY <1>4 DEF HandleCall, Task
  <2>2. CASE StatementFails
    <3>1. lost' = lost \cup {o}
      BY <2>1, <2>2 DEF StatementFails, Next1
    <3> QED
      BY <3>1 DEF Handled
  <2>3. CASE HandleDrops
    BY <2>1, <2>3 DEF HandleDrops, Handled
  <2>4. CASE Handle
    <3>1. messages' = Append(messages, o) /\ messages \in Seq(Bodies)
      BY <2>1, <2>4 DEF Handle, TypeOK
    <3>2. o \in Bodies
      BY <1>2, <2>1, NextCall DEF Right
    <3>3. Len(messages) + 1 \in DOMAIN messages' /\ messages'[Len(messages) + 1] = o
      BY <3>1, <3>2, AppendProperties
    <3> QED
      BY <3>3, Zenon DEF Handled, ToSet
  <2> QED
    BY <2>1, <2>2, <2>3, <2>4
       DEF Consume, ProcessTweet, ProcessUser, InsertFollow, NoParent, FetchParent, ScanMessage, Next1
<1> QED
  BY <1>3, <1>4

\* Nothing that was answered gets lost on the way.
LEMMA AnsweredStep ==
  ASSUME TypeOK, BatchInv, AnsweredInv, [Next]_vars
  PROVE  AnsweredInv'
<1>0. batch \in [Producers -> Seq(Bodies)]
  BY DEF TypeOK
<1> DEFINE Way(o, p) == Handled(o) \/ Pending(o) \/ o \in ToSet(batch[p])
<1>1. SUFFICES ASSUME up', NEW p \in Timelines, NEW o \in answered'[p]
      PROVE  o \in Sent /\ Way(o, p)'
  BY Zenon DEF AnsweredInv
<1>2. p \in Producers
  BY DEF Producers
<1>3. ASSUME up, o \in answered[p]
      PROVE  o \in Sent /\ Way(o, p)
  BY <1>3 DEF AnsweredInv
<1>4. ASSUME up, o \in answered[p], batch' = batch, todo' = todo
      PROVE  o \in Sent /\ Way(o, p)'
  <2>1. Pending(o) => Pending(o)'
    BY <1>4 DEF Pending
  <2> QED
    BY <1>3, <1>4, <2>1, HandledStays, Zenon
<1>5. ASSUME NEW q \in Timelines, Fetch(q)
      PROVE  o \in Sent /\ Way(o, p)'
  <2>1. PICK page : /\ batch' = [batch EXCEPT ![q] = page]
                    /\ answered' = [answered EXCEPT ![q] = @ \cup ToSet(page)]
                    /\ \A x \in ToSet(page) : x \in Sent /\ Id[x] > since[q]
    BY <1>5, PageIsAbove
  <2>2. up /\ todo' = todo /\ batch[q] = <<>>
    BY <1>5 DEF Fetch, Runs, TypeOK, Producers
  <2>3. CASE o \in answered[p]
    <3>1. o \in Sent /\ Way(o, p)
      BY <1>3, <2>2, <2>3
    <3>2. o \in ToSet(batch[p]) => o \in ToSet(batch'[p])
      BY <1>0, <1>2, <2>1, <2>2 DEF ToSet
    <3>3. Pending(o) => Pending(o)'
      BY <2>2 DEF Pending
    <3> QED
      BY <3>1, <3>2, <3>3, HandledStays, Zenon
  <2>4. CASE o \notin answered[p]
    <3>1. p = q /\ o \in ToSet(page)
      BY <2>1, <2>4
    <3>2. batch'[p] = page
      BY <1>0, <1>2, <2>1, <3>1
    <3> QED
      BY <2>1, <3>1, <3>2
  <2> QED
    BY <2>3, <2>4
<1>6. CASE FetchFollowers
  <2>1. batch'[p] = batch[p] /\ up /\ todo' = todo /\ answered' = answered
    BY <1>0, <1>2, <1>6 DEF FetchFollowers, Runs, history
  <2>2. Pending(o) => Pending(o)'
    BY <2>1 DEF Pending
  <2> QED
    BY <1>3, <2>1, <2>2, HandledStays, Zenon
<1>7. ASSUME NEW q \in Producers, Send(q)
      PROVE  o \in Sent /\ Way(o, p)'
  <2>1. up /\ todo = <<>> /\ answered' = answered
    BY <1>7 DEF Send, history
  <2>2. o \in Sent /\ Way(o, p) /\ ~Pending(o)
    BY <1>3, <2>1 DEF Pending
  <2>3. /\ todo' = <<HandleCall(Head(batch[q]))>>
        /\ batch' = [batch EXCEPT ![q] = Tail(batch[q])]
        /\ \A x \in ToSet(batch[q]) : x = Head(batch[q]) \/ x \in ToSet(Tail(batch[q]))
    BY <1>7, SentIsFirst
  <2>4. CASE o \in ToSet(batch[p]) /\ p = q
    <3>1. o = Head(batch[q]) => Pending(o)'
      BY <2>3 DEF Pending
    <3>2. batch'[p] = Tail(batch[q])
      BY <1>0, <1>2, <2>3, <2>4
    <3> QED
      BY <2>2, <2>3, <2>4, <3>1, <3>2
  <2>5. CASE o \in ToSet(batch[p]) /\ p # q
    <3>1. batch'[p] = batch[p]
      BY <1>0, <1>2, <2>3, <2>5
    <3> QED
      BY <2>2, <2>5, <3>1
  <2> QED
    BY <2>2, <2>4, <2>5, HandledStays
<1>8. CASE Consume
  <2>1. up /\ answered' = answered /\ batch' = batch
    BY <1>1, <1>8, ConsumeMakes DEF Unchanged, producers
  <2> QED
    BY <1>3, <1>8, <2>1, HandledStays, PendingStays, Zenon
<1>9. CASE Restart
  BY <1>9 DEF Restart
<1>10. ASSUME NEW q \in Producers, FetchFails(q) \/ Stop(q)
       PROVE  o \in Sent /\ Way(o, p)'
  <2>1. up /\ answered' = answered /\ batch' = batch /\ todo' = todo
    BY <1>10 DEF FetchFails, Stop, Runs, history
  <2> QED
    BY <1>4, <2>1
<1>11. ASSUME NEW q \in Timelines, Appear(q)
       PROVE  o \in Sent /\ Way(o, p)'
  <2>1. up /\ answered' = answered /\ batch' = batch /\ todo' = todo
    BY <1>1, <1>11 DEF Appear, producers, history
  <2> QED
    BY <1>4, <2>1
<1>12. CASE Signal
  <2>1. up /\ answered' = answered /\ batch' = batch /\ todo' = todo
    BY <1>1, <1>12 DEF Signal, producers, history
  <2> QED
    BY <1>4, <2>1
<1>15. CASE Rescan
  <2>1. up /\ answered' = answered /\ batch' = batch
    BY <1>1, <1>15 DEF Rescan, producers
  <2>2. ASSUME Pending(o) PROVE Pending(o)'
    <3>1. HandleCall(o) \in ToSet(todo)
      BY <2>2, Zenon DEF Pending, ToSet
    <3>2. HandleCall(o) \in ToSet(todo')
      BY <1>15, <3>1, RescanPushes
    <3> QED
      BY <3>2, Zenon DEF Pending, ToSet
  <2> QED
    BY <1>3, <2>1, <2>2, HandledStays, Zenon
<1>13. CASE End \/ Crash
  BY <1>1, <1>13 DEF End, Crash
<1>14. CASE UNCHANGED vars
  <2>1. up /\ answered' = answered /\ batch' = batch /\ todo' = todo
    BY <1>1, <1>14 DEF vars, producers, history
  <2> QED
    BY <1>4, <2>1
<1> QED
  BY <1>5, <1>6, <1>7, <1>8, <1>9, <1>10, <1>11, <1>12, <1>13, <1>14, <1>15 DEF Next, Poll

-----------------------------------------------------------------------------
(* Theorems                                                                *)

\* The invariant is inductive.
LEMMA StepIInv == IInv /\ [Next]_vars => IInv'
BY TypeStep, RowsStep, BatchStep, AnsweredStep, Zenon DEF IInv

LEMMA Invariance == Spec => []IInv
BY InitIInv, StepIInv, PTL DEF Spec

\* The tables and the locals have their types, a producer sends as long as it holds
\* something, and every call of Handle that is still to be made is about something in
\* the message it names, with its author: for any nesting, crashes and rescans
\* (process.go:28-65).
THEOREM TypeCorrect == Spec => []TypeOK
BY Invariance, PTL DEF IInv

\* Every derived row names a stored message that holds what the row says, although a
\* parent is stored and processed in the middle of its child (process.go:28).
THEOREM RowsAreFounded == Spec => []RowsFromMessages
BY Invariance, PTL DEF IInv

\* A tweet that since_id leaves behind was stored, dropped, lost by a failing INSERT,
\* or is being handled: it is nowhere else, which a batch above since_id and the
\* place of each answered tweet give together (twitter.go:187).
THEOREM SinceIsKept == Spec => []SinceIsHandled
<1>1. IInv => SinceIsHandled
  <2> SUFFICES ASSUME IInv, up, NEW p \in Timelines, NEW o \in answered[p], Id[o] <= since[p]
               PROVE  Handled(o) \/ Pending(o)
    BY DEF SinceIsHandled
  <2>1. Id[o] \in Nat /\ since[p] \in Nat
    BY DEF IInv, AnsweredInv, TypeOK, Producers, Sent
  <2>2. o \notin ToSet(batch[p])
    BY <2>1 DEF IInv, BatchInv
  <2> QED
    BY <2>2 DEF IInv, AnsweredInv
<1> QED
  BY <1>1, Invariance, PTL

\* A process that ends by itself has handled every tweet its producers were answered:
\* the channel is closed only after the last of them was sent (covfefe.go:131-134).
THEOREM EndIsComplete == Spec => EndsComplete
<1>1. ASSUME IInv, [Next]_vars, up, ~up', counts' = counts
      PROVE  \A p \in Timelines : \A o \in answered[p] : Handled(o)
  <2>1. End
    <3>1. ~Crash
      <4>0. "faults" \in Counted
        BY DEF Counted
      <4>1. counts \in [Counted -> Nat] /\ "faults" \in Counted
        BY <1>1, <4>0, Zenon DEF IInv, TypeOK
      <4>2. counts["faults"] \in Nat
        BY <4>1
      <4>3. Crash => counts'["faults"] = counts["faults"] + 1
        BY <4>1 DEF Crash, Spend
      <4> QED
        BY <1>1, <4>2, <4>3
    <3> QED
      BY <1>1, <3>1, ConsumeMakes, Zenon DEF IInv, Next, Appear, Fetch, FetchFollowers, Poll,
             FetchFails, Send, Stop, Unchanged, Signal, Restart, Rescan, vars
  <2>2. todo = <<>> /\ \A p \in Producers : batch[p] = <<>>
    BY <1>1, <2>1 DEF End, IInv, TypeOK
  <2>3. \A p \in Timelines : ToSet(batch[p]) = {}
    BY <2>2 DEF ToSet, Producers
  <2>4. \A o : ~Pending(o)
    <3>1. DOMAIN todo = {}
      BY <2>2
    <3> QED
      BY <3>1, Zenon DEF Pending
  <2> QED
    BY <1>1, <2>3, <2>4 DEF IInv, AnsweredInv
<1> QED
  BY <1>1, Invariance, PTL DEF Spec, EndsComplete

-----------------------------------------------------------------------------
(* What is missing                                                         *)

\* The calls that still come to a tweet, to a user and to a follower of a message,
\* or what has become of them.
TweetDue(id, o, by) ==
  by = None \/ tweets[Id[o]] # 0 \/ Task("tweet", id, o, by) \in ToSet(todo)
UserDue(id, u) ==
  \/ UserCall(id, u) \in ToSet(todo)
  \/ users[Key[u]] # 0 /\ (Status[u] # None => TweetDue(id, Status[u], u))
FollowDue(id, u) ==
  counts["rescans"] # 0 \/ follows[Account[Key[u]]] # 0 \/ FollowCall(id, u) \in ToSet(todo)

\* A rescan has not come to the message.
ScanDue(i) == \E task \in ToSet(todo) : task.do = "scan" /\ task.id <= i

BodyDue(i) ==
  /\ messages[i] \in Posts => TweetDue(i, messages[i], Author[messages[i]])
  /\ messages[i] \in Fans => UserDue(i, messages[i]) /\ FollowDue(i, messages[i])

RowDue(t) ==
  LET o == origin[t][1]
  IN  /\ UserDue(tweets[t], origin[t][2])
      /\ \A k \in DOMAIN Nested[o] : TweetDue(tweets[t], Nested[o][k], Author[Nested[o][k]])

ScanInv == \A task \in ToSet(todo) : task.do = "scan" => counts["rescans"] # 0
MsgInv  == \A i \in DOMAIN messages \ cut : ScanDue(i) \/ BodyDue(i)
RowInv  == \A t \in Tweets : tweets[t] # 0 /\ tweets[t] \notin cut => RowDue(t)

HInv == ScanInv /\ MsgInv /\ RowInv

LEMMA InitHInv == Init => HInv
<1> SUFFICES ASSUME Init PROVE HInv
  OBVIOUS
<1>1. DOMAIN messages = {} /\ ToSet(todo) = {} /\ \A t \in Tweets : tweets[t] = 0
  BY DEF Init, ToSet
<1> QED
  BY <1>1 DEF HInv, ScanInv, MsgInv, RowInv

\* What a step of the consumer adds to the calls.
LEMMA CallsAdded ==
  ASSUME TypeOK, todo # <<>>, NEW stored, AllRight(todo, stored), NEW tasks, AllRight(tasks, stored),
         todo' = tasks \o Tail(todo)
  PROVE  ToSet(tasks) \subseteq ToSet(todo')
BY CallsMade

\* What a user leads to, when its row is there.
LEMMA StatusCalled ==
  ASSUME TypeOK, ProcessUser
  PROVE  LET u == Head(todo).body
             id == Head(todo).id
         IN  Status[u] # None => Task("tweet", id, Status[u], u) \in ToSet(todo')
<1> DEFINE u == Head(todo).body
           id == Head(todo).id
<1>1. /\ id \in DOMAIN messages /\ u \in Profiles \cap Inside[messages[id]]
      /\ todo' = StatusCalls(id, u) \o Tail(todo)
  BY UserMade
<1>2. todo # <<>> /\ messages \in Seq(Bodies) /\ AllRight(todo, messages)
  BY TypeIsRight DEF ProcessUser, Next1, TypeOK
<1> HIDE DEF u, id
<1>3. /\ AllRight(StatusCalls(id, u), messages)
      /\ Status[u] # None => Task("tweet", id, Status[u], u) \in ToSet(StatusCalls(id, u))
  BY <1>1, <1>2, CallsOfUser
<1>4. ToSet(StatusCalls(id, u)) \subseteq ToSet(todo')
  BY <1>1, <1>2, <1>3, CallsAdded
<1> QED
  BY <1>3, <1>4 DEF u, id

\* What a tweet leads to, when it gets its row.
LEMMA InsideCalled ==
  ASSUME TypeOK, ProcessTweet, Head(todo).by # None, tweets[Id[Head(todo).body]] = 0
  PROVE  LET o == Head(todo).body
             id == Head(todo).id
             by == Head(todo).by
         IN  /\ UserCall(id, by) \in ToSet(todo')
             /\ \A k \in DOMAIN Nested[o] :
                  Task("tweet", id, Nested[o][k], Author[Nested[o][k]]) \in ToSet(todo')
<1> DEFINE o == Head(todo).body
           id == Head(todo).id
           by == Head(todo).by
<1>1. /\ id \in DOMAIN messages
      /\ o \in Posts \cap Inside[messages[id]] /\ by \in Profiles \cap Inside[messages[id]]
      /\ todo' = TweetCalls(id, o, by) \o Tail(todo)
  BY TweetMade
<1>2. todo # <<>> /\ messages \in Seq(Bodies) /\ AllRight(todo, messages)
  BY TypeIsRight DEF ProcessTweet, Next1, TypeOK
<1> HIDE DEF o, id, by
<1>3. /\ AllRight(TweetCalls(id, o, by), messages)
      /\ UserCall(id, by) \in ToSet(TweetCalls(id, o, by))
      /\ \A k \in DOMAIN Nested[o] :
           Task("tweet", id, Nested[o][k], Author[Nested[o][k]]) \in ToSet(TweetCalls(id, o, by))
  BY <1>1, <1>2, CallsOfTweet
<1>4. ToSet(TweetCalls(id, o, by)) \subseteq ToSet(todo')
  BY <1>1, <1>2, <1>3, CallsAdded
<1>5. UserCall(id, by) \in ToSet(todo')
  BY <1>3, <1>4
<1>6. \A k \in DOMAIN Nested[o] :
        Task("tweet", id, Nested[o][k], Author[Nested[o][k]]) \in ToSet(todo')
  BY <1>3, <1>4
<1> QED
  BY <1>5, <1>6 DEF o, id, by

\* Only a rescan takes a row away or forgets what was cut short.
LEMMA KnownStays ==
  ASSUME TypeOK, [Next]_vars, ~Rescan
  PROVE  /\ \A t \in Tweets : tweets[t] # 0 => tweets'[t] = tweets[t] /\ origin'[t] = origin[t]
         /\ \A k \in Keys : users[k] # 0 => users'[k] # 0
         /\ \A a \in Accounts : follows[a] # 0 => follows'[a] # 0
         /\ cut \subseteq cut' /\ counts'["rescans"] = counts["rescans"]
<1>0. RowTypes
  BY DEF TypeOK, RowTypes
<1>1. \A t \in Tweets : tweets[t] # 0 => tweets'[t] = tweets[t] /\ origin'[t] = origin[t]
  <2>1. CASE ProcessTweet /\ Head(todo).by # None /\ tweets[Id[Head(todo).body]] = 0
    <3> DEFINE t0 == Id[Head(todo).body]
               id == Head(todo).id
               from == <<Head(todo).body, Head(todo).by>>
    <3>1. /\ tweets' = [tweets EXCEPT ![t0] = id] /\ origin' = [origin EXCEPT ![t0] = from]
          /\ tweets[t0] = 0
      BY <2>1, TweetMade
    <3> HIDE DEF t0, id, from
    <3> QED
      BY <1>0, <3>1 DEF RowTypes
  <2>2. CASE tweets' = tweets /\ origin' = origin
    BY <2>2
  <2> QED
    BY <2>1, <2>2, RowsKept, TweetOrNone DEF ProcessUser, InsertFollow
<1>2. \A k \in Keys : users[k] # 0 => users'[k] # 0
  <2>1. CASE ProcessUser
    <3>1. \A k \in Keys : users'[k] = users[k] \/ users[k] = 0
      BY <2>1, UserMade
    <3> QED
      BY <3>1
  <2> QED
    BY <2>1, RowsKept DEF ProcessTweet, InsertFollow
<1>3. \A a \in Accounts : follows[a] # 0 => follows'[a] # 0
  <2>1. CASE InsertFollow
    <3>1. \A a \in Accounts : follows'[a] = follows[a] \/ follows[a] = 0
      BY <2>1, FollowMade
    <3> QED
      BY <3>1
  <2> QED
    BY <2>1, RowsKept DEF ProcessTweet, ProcessUser
<1>4. cut \subseteq cut'
  BY DEF Next, vars, Appear, Fetch, FetchFollowers, Poll, FetchFails, Send, Stop, Consume,
         StatementFails, HandleDrops, Handle, ProcessTweet, ProcessUser, InsertFollow, NoParent,
         FetchParent, ScanMessage, Signal, End, Crash, Restart, history
<1>5. counts'["rescans"] = counts["rescans"]
  <2>1. counts' = counts \/ \E what \in Counted \ {"rescans"} : Spend(what)
    BY DEF Counted, Next, Appear, Fetch, FetchFollowers, Poll, FetchFails, Send, Stop, Consume,
           StatementFails, HandleDrops, Handle, ProcessTweet, ProcessUser, InsertFollow, NoParent,
           FetchParent, ScanMessage, Signal, End, Crash, Restart, vars
  <2>2. ASSUME NEW what \in Counted \ {"rescans"}, Spend(what)
        PROVE  counts'["rescans"] = counts["rescans"]
    BY <2>2 DEF Spend, Counted, TypeOK
  <2> QED
    BY <2>1, <2>2
<1> QED
  BY <1>1, <1>2, <1>3, <1>4, <1>5

\* A call about a message that is not cut short is still to be made, or made.
LEMMA CallStays ==
  ASSUME TypeOK, [Next]_vars, ~Rescan, NEW task \in ToSet(todo),
         task.do \in {"tweet", "user", "follow"}, task.id \notin cut',
         task.do = "tweet" => task.by # None
  PROVE  \/ task \in ToSet(todo')
         \/ /\ task = Head(todo)
            /\ task.do = "tweet" => ProcessTweet
            /\ task.do = "user" => ProcessUser
            /\ task.do = "follow" => InsertFollow
<1>1. CASE Consume /\ task # Head(todo)
  BY <1>1, CallsLeft
<1>2. CASE Consume /\ task = Head(todo)
  BY <1>2 DEF Consume, StatementFails, HandleDrops, Handle, ProcessTweet, ProcessUser,
              InsertFollow, NoParent, FetchParent, ScanMessage, Next1
<1>3. ASSUME NEW p \in Producers PROVE ~Send(p)
  BY DEF Send, ToSet
<1>4. ~Crash
  BY DEF Crash
<1>5. CASE todo' = todo
  BY <1>5
<1> QED
  BY <1>1, <1>2, <1>3, <1>4, <1>5, TodoKept

LEMMA TweetDueStays ==
  ASSUME TypeOK, [Next]_vars, ~Rescan, NEW id, id \notin cut', NEW o \in Posts, NEW by,
         TweetDue(id, o, by)
  PROVE  by = None \/ tweets'[Id[o]] # 0 \/ Task("tweet", id, o, by) \in ToSet(todo')
<1>1. CASE by # None /\ tweets[Id[o]] # 0
  <2>1. Id[o] \in Tweets
    OBVIOUS
  <2> QED
    BY <1>1, <2>1, KnownStays
<1>2. CASE by # None /\ tweets[Id[o]] = 0 /\ Task("tweet", id, o, by) \in ToSet(todo)
  <2> DEFINE task == Task("tweet", id, o, by)
  <2>1. task.do = "tweet" /\ task.id = id /\ task.body = o /\ task.by = by
    BY DEF Task
  <2>2. task \in ToSet(todo)
    BY <1>2
  <2> HIDE DEF task
  <2>3. task \in ToSet(todo') \/ (task = Head(todo) /\ ProcessTweet)
    BY <1>2, <2>1, <2>2, CallStays
  <2>4. CASE task = Head(todo) /\ ProcessTweet
    <3>1. Head(todo).by # None /\ tweets[Id[Head(todo).body]] = 0 /\ Head(todo).body = o
      BY <1>2, <2>1, <2>4
    <3>2. tweets' = [tweets EXCEPT ![Id[o]] = Head(todo).id] /\ Head(todo).id # 0 /\ Id[o] \in Tweets
      BY <2>4, <3>1, TweetMade
    <3>3. tweets \in [Tweets -> Nat]
      BY DEF TypeOK
    <3> QED
      BY <3>2, <3>3
  <2> QED
    BY <2>3, <2>4 DEF task
<1> QED
  BY <1>1, <1>2 DEF TweetDue

LEMMA UserDueStays ==
  ASSUME TypeOK, [Next]_vars, ~Rescan, NEW id, id \notin cut', NEW u \in Profiles, UserDue(id, u)
  PROVE  \/ UserCall(id, u) \in ToSet(todo')
         \/ /\ users'[Key[u]] # 0
            /\ Status[u] # None => \/ tweets'[Id[Status[u]]] # 0
                                   \/ Task("tweet", id, Status[u], u) \in ToSet(todo')
<1>0. Key[u] \in Keys /\ (Status[u] # None => Status[u] \in Posts) /\ u # None
  OBVIOUS
<1>1. CASE users[Key[u]] # 0 /\ (Status[u] # None => TweetDue(id, Status[u], u))
  <2>1. users'[Key[u]] # 0
    BY <1>0, <1>1, KnownStays
  <2>2. ASSUME Status[u] # None
        PROVE  tweets'[Id[Status[u]]] # 0 \/ Task("tweet", id, Status[u], u) \in ToSet(todo')
    BY <1>0, <1>1, <2>2, TweetDueStays
  <2> QED
    BY <2>1, <2>2
<1>2. CASE UserCall(id, u) \in ToSet(todo)
  <2> DEFINE task == UserCall(id, u)
  <2>1. task.do = "user" /\ task.id = id /\ task.body = u
    BY DEF UserCall, Task
  <2>2. task \in ToSet(todo)
    BY <1>2
  <2> HIDE DEF task
  <2>3. task \in ToSet(todo') \/ (task = Head(todo) /\ ProcessUser)
    BY <2>1, <2>2, CallStays
  <2>4. CASE task = Head(todo) /\ ProcessUser
    <3>1. Head(todo).body = u /\ Head(todo).id = id
      BY <2>1, <2>4
    <3>2. users'[Key[u]] # 0
      BY <2>4, <3>1, UserMade
    <3>3. Status[u] # None => Task("tweet", id, Status[u], u) \in ToSet(todo')
      BY <2>4, <3>1, StatusCalled
    <3> QED
      BY <3>2, <3>3
  <2> QED
    BY <2>3, <2>4 DEF task
<1> QED
  BY <1>1, <1>2 DEF UserDue

LEMMA FollowDueStays ==
  ASSUME TypeOK, [Next]_vars, ~Rescan, NEW id, id \notin cut', NEW u \in Fans, FollowDue(id, u)
  PROVE  counts'["rescans"] # 0 \/ follows'[Account[Key[u]]] # 0 \/ FollowCall(id, u) \in ToSet(todo')
<1>0. Account[Key[u]] \in Accounts
  BY DEF Accounts
<1>1. CASE counts["rescans"] # 0 \/ follows[Account[Key[u]]] # 0
  BY <1>0, <1>1, KnownStays
<1>2. CASE FollowCall(id, u) \in ToSet(todo)
  <2> DEFINE task == FollowCall(id, u)
  <2>1. task.do = "follow" /\ task.id = id /\ task.body = u
    BY DEF FollowCall, Task
  <2>2. task \in ToSet(todo)
    BY <1>2
  <2> HIDE DEF task
  <2>3. task \in ToSet(todo') \/ (task = Head(todo) /\ InsertFollow)
    BY <2>1, <2>2, CallStays
  <2>4. CASE task = Head(todo) /\ InsertFollow
    <3>1. Head(todo).body = u
      BY <2>1, <2>4
    <3> QED
      BY <2>4, <3>1, FollowMade
  <2> QED
    BY <2>3, <2>4 DEF task
<1> QED
  BY <1>1, <1>2 DEF FollowDue

LEMMA BodyDueStays ==
  ASSUME TypeOK, [Next]_vars, ~Rescan, NEW i \in DOMAIN messages, i \notin cut', BodyDue(i)
  PROVE  BodyDue(i)'
<1>0. messages'[i] = messages[i]
  BY MessagesStay
<1>1. ASSUME messages[i] \in Posts
      PROVE  \/ Author[messages[i]] = None \/ tweets'[Id[messages[i]]] # 0
             \/ Task("tweet", i, messages[i], Author[messages[i]]) \in ToSet(todo')
  <2>1. PICK o \in Posts : o = messages[i]
    BY <1>1
  <2>2. TweetDue(i, o, Author[o])
    BY <1>1, <2>1 DEF BodyDue
  <2> QED
    BY <2>1, <2>2, TweetDueStays
<1>2. ASSUME messages[i] \in Fans
      PROVE  UserDue(i, messages[i])' /\ FollowDue(i, messages[i])'
  <2>1. PICK u \in Fans : u = messages[i]
    BY <1>2
  <2>2. UserDue(i, u) /\ FollowDue(i, u) /\ u \in Profiles /\ u # None
    BY <1>2, <2>1 DEF BodyDue
  <2>3. \/ UserCall(i, u) \in ToSet(todo')
        \/ /\ users'[Key[u]] # 0
           /\ Status[u] # None => \/ tweets'[Id[Status[u]]] # 0
                                  \/ Task("tweet", i, Status[u], u) \in ToSet(todo')
    BY <2>2, UserDueStays
  <2>4. counts'["rescans"] # 0 \/ follows'[Account[Key[u]]] # 0 \/ FollowCall(i, u) \in ToSet(todo')
    BY <2>2, FollowDueStays
  <2>5. messages'[i] = u
    BY <1>0, <2>1
  <2> QED
    BY <2>3, <2>4, <2>5 DEF UserDue, FollowDue, TweetDue
<1> QED
  BY <1>0, <1>1, <1>2 DEF BodyDue, TweetDue


\* What a rescan leads to, at a message.
LEMMA ScanMakes ==
  ASSUME TypeOK, ScanMessage, Head(todo).id <= Len(messages)
  PROVE  /\ Head(todo).id \in DOMAIN messages /\ messages' = messages
         /\ BodyCall(Head(todo).id, messages[Head(todo).id]) \in ToSet(todo')
         /\ ScanCall(Head(todo).id + 1) \in ToSet(todo')
<1> DEFINE id == Head(todo).id
           first == BodyCall(id, messages[id])
           last == ScanCall(id + 1)
<1>1. todo # <<>> /\ Head(todo).do = "scan" /\ messages' = messages
  BY DEF ScanMessage, Next1
<1>2. messages \in Seq(Bodies) /\ AllRight(todo, messages) /\ Right(Head(todo), messages)
  BY <1>1, TypeIsRight, NextCall DEF TypeOK
<1>3. id \in DOMAIN messages /\ id + 1 \in 1 .. Len(messages) + 1
  BY <1>1, <1>2 DEF Right
<1>4. todo' = <<first, last>> \o Tail(todo)
  <2>1. ~(id > Len(messages))
    BY <1>2, <1>3
  <2> QED
    BY <2>1 DEF ScanMessage, Calls
<1>5. Right(first, messages)
  BY <1>2, <1>3, CallsOfMessage
<1>6. Right(last, messages)
  <2>1. ScanCall(id + 1) \in Tasks
    BY <1>3 DEF ScanCall, Task, Tasks, Calling
  <2> QED
    BY <1>3, <2>1 DEF ScanCall, Task, Right
<1> HIDE DEF first, last
<1>7. AllRight(<<first, last>>, messages) /\ ToSet(<<first, last>>) = {first, last}
  BY <1>5, <1>6, TwoCalls
<1> DEFINE tasks == <<first, last>>
<1>8. AllRight(tasks, messages) /\ todo' = tasks \o Tail(todo) /\ ToSet(tasks) = {first, last}
  BY <1>4, <1>7
<1> HIDE DEF tasks
<1>9. ToSet(tasks) \subseteq ToSet(todo')
  BY <1>1, <1>2, <1>8, CallsAdded
<1>10. first \in ToSet(todo') /\ last \in ToSet(todo')
  BY <1>8, <1>9
<1> QED
  BY <1>1, <1>3, <1>10 DEF first, last

\* What a stored message leads to.
LEMMA HandleMakes ==
  ASSUME TypeOK, Handle
  PROVE  LET n == Len(messages) + 1
             body == Head(todo).body
         IN  /\ n \in DOMAIN messages' /\ messages'[n] = body
             /\ DOMAIN messages' = DOMAIN messages \cup {n}
             /\ BodyCall(n, body) \in ToSet(todo')
             /\ body \in Fans => FollowCall(n, body) \in ToSet(todo')
<1> DEFINE n == Len(messages) + 1
           body == Head(todo).body
           stored == Append(messages, body)
           tasks == <<BodyCall(n, body)>> \o FollowCalls(n, body)
<1>1. todo # <<>> /\ messages' = stored /\ todo' = tasks \o Tail(todo)
  BY DEF Handle, Next1, Calls
<1>2. messages \in Seq(Bodies) /\ AllRight(todo, messages)
  BY TypeIsRight DEF TypeOK
<1>3. body \in Bodies
  BY <1>1, NextCall DEF Right, Handle, Next1
<1>4. /\ stored \in Seq(Bodies) /\ n \in DOMAIN stored /\ stored[n] = body
      /\ DOMAIN stored = DOMAIN messages \cup {n}
  BY <1>2, <1>3, AppendProperties
<1>5. AllRight(todo, stored)
  BY <1>2, <1>3, StaysRight
<1> HIDE DEF n, body, stored
<1>6. /\ AllRight(<<BodyCall(n, stored[n])>> \o FollowCalls(n, stored[n]), stored)
      /\ BodyCall(n, stored[n]) \in ToSet(<<BodyCall(n, stored[n])>> \o FollowCalls(n, stored[n]))
      /\ stored[n] \in Fans => FollowCall(n, stored[n]) \in
           ToSet(<<BodyCall(n, stored[n])>> \o FollowCalls(n, stored[n]))
  BY <1>4, CallsOfMessage
<1>7. /\ AllRight(tasks, stored) /\ BodyCall(n, body) \in ToSet(tasks)
      /\ body \in Fans => FollowCall(n, body) \in ToSet(tasks)
  BY <1>4, <1>6
<1> HIDE DEF tasks
<1>8. ToSet(tasks) \subseteq ToSet(todo')
  BY <1>1, <1>5, <1>7, CallsAdded
<1>9. BodyCall(n, body) \in ToSet(todo') /\ (body \in Fans => FollowCall(n, body) \in ToSet(todo'))
  BY <1>7, <1>8
<1> QED
  BY <1>1, <1>4, <1>9 DEF n, body

\* Only a rescan has messages to look at.
LEMMA ScanStep ==
  ASSUME TypeOK, ScanInv, [Next]_vars, ~Rescan
  PROVE  ScanInv'
<1> SUFFICES ASSUME NEW task \in ToSet(todo'), task.do = "scan"
             PROVE  counts["rescans"] # 0
  BY KnownStays DEF ScanInv
<1>1. CASE Consume
  <2>1. todo # <<>>
    BY <1>1, ConsumeMakes
  <2>2. PICK tasks : /\ todo' = tasks \o Tail(todo) /\ AllRight(tasks, messages')
                     /\ \A x \in ToSet(tasks) : x.do = "scan" => ScanMessage
    BY <1>1, ConsumeMakes
  <2> DEFINE stored == messages'
  <2>3. AllRight(todo, stored) /\ AllRight(tasks, stored)
    BY <2>2, MessagesStay
  <2> HIDE DEF stored
  <2>4. task \in ToSet(tasks) \/ task \in ToSet(todo)
    BY <2>1, <2>2, <2>3, CallsMade
  <2>5. CASE ScanMessage
    <3>1. Head(todo).do = "scan" /\ Head(todo) \in ToSet(todo)
      BY <2>1, <2>5, NextCall DEF ScanMessage, Next1
    <3> QED
      BY <3>1 DEF ScanInv
  <2> QED
    BY <2>2, <2>4, <2>5 DEF ScanInv
<1>2. ASSUME NEW p \in Producers, Send(p)
      PROVE  counts["rescans"] # 0
  <2>1. todo' = <<HandleCall(Head(batch[p]))>> /\ HandleCall(Head(batch[p])).do = "handle"
    BY <1>2 DEF Send, HandleCall, Task
  <2> DEFINE one == HandleCall(Head(batch[p]))
  <2>2. todo' = <<one>> /\ one.do = "handle"
    BY <2>1
  <2> HIDE DEF one
  <2>3. \A x \in ToSet(todo') : x = one
    BY <2>2 DEF ToSet
  <2> QED
    BY <2>2, <2>3
<1>3. CASE Crash
  <2>1. todo' = <<>>
    BY <1>3 DEF Crash
  <2> QED
    BY <2>1 DEF ToSet
<1>4. CASE todo' = todo
  BY <1>4 DEF ScanInv
<1> QED
  BY <1>1, <1>2, <1>3, <1>4, TodoKept

\* A message whose call is still to be made.
LEMMA BodyIsDue ==
  ASSUME NEW i, NEW body \in Bodies, messages'[i] = body, BodyCall(i, body) \in ToSet(todo'),
         body \in Fans => FollowDue(i, body)'
  PROVE  BodyDue(i)'
<1>1. ASSUME body \in Posts
      PROVE  TweetDue(i, body, Author[body])'
  BY <1>1 DEF TweetDue, BodyCall
<1>2. ASSUME body \in Fans
      PROVE  UserDue(i, body)'
  <2>1. body \notin Posts
    BY <1>2
  <2> QED
    BY <2>1 DEF UserDue, BodyCall
<1> QED
  BY <1>1, <1>2 DEF BodyDue

\* A message waits for a rescan, or has led to its calls.
LEMMA MsgStep ==
  ASSUME TypeOK, ScanInv, MsgInv, [Next]_vars, ~Rescan
  PROVE  MsgInv'
<1> SUFFICES ASSUME NEW i \in DOMAIN messages' \ cut'
             PROVE  ScanDue(i)' \/ BodyDue(i)'
  BY DEF MsgInv
<1>0. messages \in Seq(Bodies) /\ i \notin cut
  BY KnownStays DEF TypeOK
<1>1. CASE i \in DOMAIN messages /\ BodyDue(i)
  BY <1>1, BodyDueStays
<1>2. CASE i \in DOMAIN messages /\ ScanDue(i)
  <2>1. PICK task \in ToSet(todo) : task.do = "scan" /\ task.id <= i
    BY <1>2 DEF ScanDue
  <2>2. CASE task \in ToSet(todo')
    BY <2>1, <2>2 DEF ScanDue
  <2>3. CASE task \notin ToSet(todo')
    <3>1. \A p \in Producers : ~Send(p)
      BY DEF Send, ToSet
    <3>2. ~Crash
      BY <2>1 DEF Crash, Runs, Scanning, ToSet
    <3>3. Consume
      BY <2>3, <3>1, <3>2, TodoKept
    <3>4. task = Head(todo)
      BY <2>3, <3>3, CallsLeft
    <3>5. ScanMessage
      BY <2>1, <3>3, <3>4 DEF Consume, StatementFails, HandleDrops, Handle, ProcessTweet,
         ProcessUser, InsertFollow, NoParent, FetchParent, Next1
    <3>6. i \in Nat /\ i <= Len(messages) /\ Len(messages) \in Nat /\ task.id \in Nat
      <4>1. Right(Head(todo), messages)
        BY <3>5, NextCall DEF ScanMessage, Next1
      <4> QED
        BY <1>0, <1>2, <3>4, <4>1 DEF Right, Tasks
    <3>7. /\ messages' = messages
          /\ BodyCall(task.id, messages[task.id]) \in ToSet(todo')
          /\ ScanCall(task.id + 1) \in ToSet(todo')
      BY <2>1, <3>4, <3>5, <3>6, ScanMakes
    <3>8. CASE task.id = i
      <4>1. PICK body \in Bodies : body = messages[i]
        BY <1>0, <1>2
      <4>2. FollowDue(i, body)'
        BY <2>1, KnownStays DEF ScanInv, FollowDue
      <4> QED
        BY <3>7, <3>8, <4>1, <4>2, BodyIsDue
    <3>9. CASE task.id # i
      <4>1. ScanCall(task.id + 1).do = "scan" /\ ScanCall(task.id + 1).id <= i
        BY <2>1, <3>6, <3>9 DEF ScanCall, Task
      <4> QED
        BY <3>7, <4>1 DEF ScanDue
    <3> QED
      BY <3>8, <3>9
  <2> QED
    BY <2>2, <2>3
<1>3. CASE i \notin DOMAIN messages
  <2>1. Handle
    BY <1>3, MessagesGrow
  <2> DEFINE body == Head(todo).body
  <2>2. body \in Bodies
    BY <2>1, NextCall DEF Handle, Next1, Right
  <2>3. /\ i = Len(messages) + 1 /\ messages'[i] = body /\ BodyCall(i, body) \in ToSet(todo')
        /\ body \in Fans => FollowCall(i, body) \in ToSet(todo')
    BY <1>3, <2>1, HandleMakes
  <2> QED
    <3>1. PICK b \in Bodies : b = body
      BY <2>2
    <3>2. /\ messages'[i] = b /\ BodyCall(i, b) \in ToSet(todo')
          /\ b \in Fans => FollowCall(i, b) \in ToSet(todo')
      BY <2>3, <3>1
    <3>3. b \in Fans => FollowDue(i, b)'
      BY <3>2 DEF FollowDue
    <3> QED
      BY <3>2, <3>3, BodyIsDue
<1> QED
  BY <1>0, <1>1, <1>2, <1>3 DEF MsgInv

\* What a tweet that has a row leads to is called, or made.
LEMMA RowStep ==
  ASSUME TypeOK, RowsFromMessages, RowInv, [Next]_vars, ~Rescan
  PROVE  RowInv'
<1> SUFFICES ASSUME NEW t \in Tweets, tweets'[t] # 0, tweets'[t] \notin cut'
             PROVE  RowDue(t)'
  BY DEF RowInv
<1>1. CASE tweets[t] # 0
  <2>1. tweets'[t] = tweets[t] /\ origin'[t] = origin[t] /\ tweets[t] \notin cut
    BY <1>1, KnownStays
  <2>2. PICK o \in Posts, u \in Profiles : origin[t] = <<o, u>>
    BY <1>1 DEF RowsFromMessages
  <2>3. RowDue(t) /\ origin[t][1] = o /\ origin[t][2] = u
    <3>1. RowDue(t)
      BY <1>1, <2>1, Zenon DEF RowInv
    <3> QED
      BY <2>2, <3>1
  <2> DEFINE id == tweets[t]
  <2>4. /\ UserDue(id, u) /\ id \notin cut'
        /\ \A k \in DOMAIN Nested[o] : TweetDue(id, Nested[o][k], Author[Nested[o][k]])
    BY <2>1, <2>3 DEF RowDue
  <2>5. tweets'[t] = id /\ origin'[t][1] = o /\ origin'[t][2] = u
    BY <2>1, <2>3
  <2> HIDE DEF id
  <2>6. \/ UserCall(id, u) \in ToSet(todo')
        \/ /\ users'[Key[u]] # 0
           /\ Status[u] # None => \/ tweets'[Id[Status[u]]] # 0
                                  \/ Task("tweet", id, Status[u], u) \in ToSet(todo')
    BY <2>4, UserDueStays
  <2>7. ASSUME NEW k \in DOMAIN Nested[o]
        PROVE  \/ Author[Nested[o][k]] = None \/ tweets'[Id[Nested[o][k]]] # 0
               \/ Task("tweet", id, Nested[o][k], Author[Nested[o][k]]) \in ToSet(todo')
    <3>1. PICK x \in Posts : x = Nested[o][k]
      OBVIOUS
    <3>2. TweetDue(id, x, Author[x])
      BY <2>4, <3>1
    <3> QED
      BY <2>4, <3>1, <3>2, TweetDueStays
  <2> QED
    BY <2>5, <2>6, <2>7 DEF RowDue, UserDue, TweetDue
<1>2. CASE tweets[t] = 0
  <2>1. ProcessTweet
    BY <1>2, RowsKept DEF ProcessUser, InsertFollow
  <2>2. Head(todo).by # None /\ tweets[Id[Head(todo).body]] = 0
    BY <1>2, <2>1, TweetOrNone
  <2> DEFINE o == Head(todo).body
             id == Head(todo).id
             by == Head(todo).by
  <2>3. /\ tweets' = [tweets EXCEPT ![Id[o]] = id] /\ origin' = [origin EXCEPT ![Id[o]] = <<o, by>>]
        /\ UserCall(id, by) \in ToSet(todo')
        /\ \A k \in DOMAIN Nested[o] :
             Task("tweet", id, Nested[o][k], Author[Nested[o][k]]) \in ToSet(todo')
    BY <2>1, <2>2, TweetMade, InsideCalled
  <2>4. tweets \in [Tweets -> Nat] /\ t \in DOMAIN origin
    BY DEF TypeOK
  <2> HIDE DEF o, id, by
  <2>5. t = Id[o]
    BY <1>2, <2>3, <2>4
  <2>6. tweets'[t] = id /\ origin'[t] = <<o, by>>
    BY <2>3, <2>4, <2>5
  <2> QED
    BY <2>3, <2>6 DEF RowDue, UserDue, TweetDue
<1> QED
  BY <1>1, <1>2

\* After the start of a rescan, every message waits for it.
LEMMA RescanStep ==
  ASSUME TypeOK, Rescan
  PROVE  HInv'
<1>1. ToSet(todo') = {ScanCall(1)} \cup ToSet(todo)
  BY RescanPushes
<1>2. ScanCall(1).do = "scan" /\ ScanCall(1).id = 1
  BY DEF ScanCall, Task
<1>3. counts'["rescans"] # 0
  <2>1. counts \in [Counted -> Nat] /\ "rescans" \in Counted
    BY DEF TypeOK, Counted
  <2> QED
    BY <2>1 DEF Rescan, Spend
<1>4. messages' = messages /\ messages \in Seq(Bodies) /\ \A t \in Tweets : tweets'[t] = 0
  BY DEF Rescan, TypeOK
<1>5. \A i \in DOMAIN messages' : ScanDue(i)'
  <2>1. \A i \in DOMAIN messages : 1 <= i
    BY <1>4
  <2> QED
    BY <1>1, <1>2, <1>4, <2>1 DEF ScanDue
<1> QED
  BY <1>3, <1>4, <1>5 DEF HInv, ScanInv, MsgInv, RowInv

LEMMA HInvariance == Spec => []HInv
<1>1. IInv /\ HInv /\ [Next]_vars => HInv'
  <2> SUFFICES ASSUME IInv, HInv, [Next]_vars PROVE HInv'
    OBVIOUS
  <2>1. TypeOK /\ RowsFromMessages /\ ScanInv /\ MsgInv /\ RowInv
    BY DEF IInv, HInv
  <2>2. CASE Rescan
    BY <2>1, <2>2, RescanStep
  <2>3. CASE ~Rescan
    BY <2>1, <2>3, ScanStep, MsgStep, RowStep DEF HInv
  <2> QED
    BY <2>2, <2>3
<1> QED
  BY <1>1, InitHInv, Invariance, PTL DEF Spec

\* Whatever is nested in tweets and in users, whatever statements fail, in a rescan too,
\* and wherever the process ends: when no call is left, a message that was not cut short
\* since the last rescan has led to its row, and the row of a tweet to those of its user
\* and of the tweets in it. The invariant follows each of them from the call that is due
\* to the row it leaves (process.go:28-65, process.go:165-174).
THEOREM OnlyCutsLeaveHoles == Spec => []HolesAreCut
<1>1. IInv /\ HInv => HolesAreCut
  <2> SUFFICES ASSUME IInv, HInv, todo = <<>>
               PROVE  HolesAreCut
    BY DEF HolesAreCut
  <2>1. ToSet(todo) = {} /\ messages \in Seq(Bodies)
    BY DEF ToSet, IInv, TypeOK
  <2>2. \A id, o, by : TweetDue(id, o, by) => by = None \/ tweets[Id[o]] # 0
    BY <2>1 DEF TweetDue
  <2>3. ASSUME NEW id, NEW u \in Profiles, UserDue(id, u)
        PROVE  UserKnown(u)
    <3>1. users[Key[u]] # 0 /\ (Status[u] # None => TweetDue(id, Status[u], u)) /\ u # None
      BY <2>1, <2>3 DEF UserDue
    <3> QED
      BY <2>2, <3>1 DEF UserKnown
  <2>4. ASSUME NEW i \in DOMAIN messages \ cut
        PROVE  /\ messages[i] \in Posts => tweets[Id[messages[i]]] # 0
               /\ messages[i] \in Fans =>
                    /\ UserKnown(messages[i])
                    /\ counts["rescans"] = 0 => follows[Account[Key[messages[i]]]] # 0
    <3>1. BodyDue(i)
      BY <2>1 DEF HInv, MsgInv, ScanDue
    <3>2. PICK body \in Bodies : body = messages[i]
      BY <2>1
    <3>3. body \in Posts => tweets[Id[body]] # 0
      <4>1. body \in Posts => Author[body] # None
        BY DEF Bodies, Sent
      <4> QED
        BY <2>2, <3>1, <3>2, <4>1 DEF BodyDue
    <3>4. body \in Fans => UserDue(i, body) /\ FollowDue(i, body)
      BY <3>1, <3>2 DEF BodyDue
    <3>5. body \in Fans /\ counts["rescans"] = 0 => follows[Account[Key[body]]] # 0
      BY <2>1, <3>4 DEF FollowDue
    <3> QED
      BY <2>3, <3>2, <3>3, <3>4, <3>5
  <2>5. ASSUME NEW t \in Tweets, tweets[t] # 0, tweets[t] \notin cut
        PROVE  /\ UserKnown(origin[t][2])
               /\ \A k \in DOMAIN Nested[origin[t][1]] :
                    Author[Nested[origin[t][1]][k]] # None =>
                      tweets[Id[Nested[origin[t][1]][k]]] # 0
    <3>1. RowDue(t) /\ origin[t] \in Posts \X Profiles
      BY <2>5 DEF HInv, RowInv, IInv, RowsFromMessages
    <3>2. UserKnown(origin[t][2])
      BY <2>3, <3>1 DEF RowDue
    <3> QED
      BY <2>2, <3>1, <3>2 DEF RowDue
  <2> QED
    BY <2>4, <2>5 DEF HolesAreCut
<1> QED
  BY <1>1, Invariance, HInvariance, PTL

-----------------------------------------------------------------------------
(* How the calls end                                                       *)

LEMMA BehindConcat ==
  ASSUME NEW S, NEW s \in Seq(S), NEW t \in Seq(S)
  PROVE  /\ Len(s \o t) - Len(t) = Len(s) /\ Len(s) \in Nat
         /\ SubSeq(s \o t, Len(s) + 1, Len(s \o t)) = t
         /\ \A k \in 1 .. Len(s) : (s \o t)[k] = s[k]
<1>1. /\ s \o t \in Seq(S) /\ Len(s \o t) = Len(s) + Len(t)
      /\ \A i \in 1 .. Len(s) + Len(t) : (s \o t)[i] = IF i <= Len(s) THEN s[i] ELSE t[i - Len(s)]
  BY ConcatProperties
<1>2. PICK m \in Nat, n \in Nat : m = Len(s) /\ n = Len(t)
  OBVIOUS
<1> DEFINE all == s \o t
           rest == SubSeq(all, m + 1, m + n)
<1>3. \A i \in m + 1 .. m + n : all[i] \in S
  BY <1>1, <1>2
<1>4. /\ rest \in Seq(S)
      /\ Len(rest) = IF m + 1 <= m + n THEN (m + n) - (m + 1) + 1 ELSE 0
      /\ \A i \in 1 .. (m + n) - (m + 1) + 1 : rest[i] = all[m + 1 + i - 1]
  BY <1>2, <1>3, SubSeqProperties
<1>5. Len(rest) = n
  BY ONLY m \in Nat, n \in Nat, <1>4
<1>6. ASSUME NEW i \in 1 .. n PROVE rest[i] = t[i]
  <2>1. /\ i \in 1 .. (m + n) - (m + 1) + 1 /\ m + 1 + i - 1 = m + i
        /\ m + i \in 1 .. m + n /\ ~(m + i <= m) /\ (m + i) - m = i
    OBVIOUS
  <2>2. rest[i] = all[m + i]
    BY <1>4, <2>1
  <2>3. all[m + i] = t[(m + i) - m]
    BY <1>1, <1>2, <2>1
  <2> QED
    BY <2>1, <2>2, <2>3
<1>7. rest = t
  BY <1>2, <1>4, <1>5, <1>6, SeqEqual
<1>8. \A k \in 1 .. m : all[k] = s[k]
  BY <1>1, <1>2
<1>9. Len(all) = m + n /\ (m + n) - n = m
  BY ONLY m \in Nat, n \in Nat, <1>1, <1>2
<1> HIDE DEF all
<1>10. SubSeq(all, m + 1, Len(all)) = t
  BY <1>7, <1>9
<1> QED
  BY <1>2, <1>8, <1>9, <1>10 DEF all

\* A step that puts calls of a lower rank in the place of the innermost one.
LEMMA LowerCalls ==
  ASSUME TypeOK, todo # <<>>, NEW tasks \in Seq(Tasks), todo' = tasks \o Tail(todo),
         \/ Unknown' # Unknown
         \/ \A task \in ToSet(tasks) : Rank(task) < Rank(Head(todo))
  PROVE  Descends
<1>1. Tail(todo) \in Seq(Tasks)
  BY HeadTailProperties DEF TypeOK
<1>2. /\ Made = Len(tasks) /\ Len(tasks) \in Nat
      /\ SubSeq(todo', Len(tasks) + 1, Len(todo')) = Tail(todo)
      /\ \A k \in 1 .. Len(tasks) : todo'[k] = tasks[k]
  BY <1>1, BehindConcat DEF Made
<1>3. \A k \in 1 .. Len(tasks) : tasks[k] \in ToSet(tasks)
  <2>1. DOMAIN tasks = 1 .. Len(tasks)
    BY LenProperties
  <2> QED
    BY <2>1, Zenon DEF ToSet
<1>4. CASE Unknown' # Unknown
  BY <1>2, <1>4 DEF Descends
<1>5. CASE \A task \in ToSet(tasks) : Rank(task) < Rank(Head(todo))
  <2>1. \A k \in 1 .. Len(tasks) : Rank(tasks[k]) < Rank(Head(todo))
    BY <1>3, <1>5, Zenon
  <2>2. \A k \in 1 .. Made : Rank(todo'[k]) < Rank(Head(todo))
    BY <1>2, <2>1
  <2> QED
    BY <1>2, <2>2 DEF Descends
<1> QED
  BY <1>4, <1>5

\* Only the start of a rescan takes the row of a tweet away.
LEMMA UnknownShrinks ==
  ASSUME TypeOK, [Next]_vars, counts'["rescans"] = counts["rescans"]
  PROVE  ~Rescan /\ Unknown' \subseteq Unknown
<1>1. ~Rescan
  <2>1. counts \in [Counted -> Nat] /\ "rescans" \in Counted
    BY DEF TypeOK, Counted
  <2> QED
    BY <2>1 DEF Rescan, Spend
<1> QED
  BY <1>1, KnownStays DEF Unknown

\* The calls of a step of the consumer are lower than the one they are made by.
LEMMA ConsumeDescends ==
  ASSUME TypeOK, Consume
  PROVE  Descends
<1>0. todo # <<>> /\ messages \in Seq(Bodies) /\ Len(messages) \in Nat
  BY ConsumeMakes DEF TypeOK
<1>1. Right(Head(todo), messages)
  BY <1>0, NextCall
<1> DEFINE body == Head(todo).body
           id == Head(todo).id
<1>r. \A task : /\ task.do = "follow" => Rank(task) = 0
                /\ task.do = "tweet" => Rank(task) = 1
                /\ task.do = "user" => Rank(task) = 2
                /\ task.do = "handle" => Rank(task) = 3
                /\ task.do = "parent" => Rank(task) = 4
                /\ task.do = "scan" => Rank(task) = 5 + Len(messages) - task.id
  BY DEF Rank
<1>2. ASSUME Calls(<<>>) PROVE Descends
  <2>0. <<>> \in Seq(Tasks)
    OBVIOUS
  <2>1. PICK none \in Seq(Tasks) : none = <<>>
    BY <2>0, Zenon
  <2>2. ToSet(none) = {} /\ todo' = none \o Tail(todo)
    BY <1>2, <2>1 DEF ToSet, Calls
  <2> QED
    BY <1>0, <2>2, LowerCalls
<1>3. ASSUME Next1("user"), Calls(StatusCalls(id, body)) PROVE Descends
  <2> DEFINE tasks == StatusCalls(id, body)
  <2>1. id \in DOMAIN messages /\ body \in Profiles \cap Inside[messages[id]]
    BY <1>1, <1>3 DEF Next1, Right
  <2>2. AllRight(tasks, messages) /\ \A task \in ToSet(tasks) : task.do = "tweet"
    BY <1>0, <2>1, CallsOfUser
  <2>3. todo' = tasks \o Tail(todo) /\ Rank(Head(todo)) = 2
    BY <1>3, <1>r DEF Calls, Next1
  <2> HIDE DEF tasks
  <2>4. tasks \in Seq(Tasks) /\ \A task \in ToSet(tasks) : Rank(task) < Rank(Head(todo))
    BY <1>r, <2>2, <2>3 DEF AllRight
  <2> QED
    BY <1>0, <2>3, <2>4, LowerCalls
<1>4. CASE StatementFails
  BY <1>2, <1>3, <1>4 DEF StatementFails
<1>5. CASE HandleDrops \/ InsertFollow \/ NoParent
  BY <1>2, <1>5 DEF HandleDrops, InsertFollow, NoParent
<1>6. CASE ProcessUser
  BY <1>3, <1>6 DEF ProcessUser
<1>7. CASE Handle
  <2> DEFINE stored == Append(messages, body)
             n == Len(messages) + 1
             tasks == <<BodyCall(n, body)>> \o FollowCalls(n, body)
  <2>1. body \in Bodies /\ Head(todo).do = "handle"
    BY <1>1, <1>7 DEF Handle, Next1, Right
  <2>2. todo' = tasks \o Tail(todo) /\ Rank(Head(todo)) = 3
    BY <1>7, <1>r, <2>1 DEF Handle, Calls
  <2>3. stored \in Seq(Bodies) /\ n \in DOMAIN stored /\ stored[n] = body
    BY <1>0, <2>1, AppendProperties
  <2> HIDE DEF stored, n
  <2>4. /\ AllRight(<<BodyCall(n, stored[n])>> \o FollowCalls(n, stored[n]), stored)
        /\ \A task \in ToSet(<<BodyCall(n, stored[n])>> \o FollowCalls(n, stored[n])) :
             task.do \in {"tweet", "user", "follow"}
    BY <2>3, CallsOfMessage
  <2>5. AllRight(tasks, stored) /\ \A task \in ToSet(tasks) : task.do \in {"tweet", "user", "follow"}
    BY <2>3, <2>4
  <2> HIDE DEF tasks
  <2>6. tasks \in Seq(Tasks)
    BY <2>5 DEF AllRight
  <2>7. ASSUME NEW task \in ToSet(tasks)
        PROVE  Rank(task) < Rank(Head(todo))
    <3>1. task.do \in {"tweet", "user", "follow"}
      BY <2>5
    <3>2. Rank(task) \in {0, 1, 2}
      BY <1>r, <3>1
    <3> QED
      BY <2>2, <3>2
  <2> QED
    BY <1>0, <2>2, <2>6, <2>7, LowerCalls
<1>8. CASE ProcessTweet
  <2>1. CASE Head(todo).by # None /\ tweets[Id[body]] = 0
    <3> DEFINE by == Head(todo).by
               tasks == TweetCalls(id, body, by)
    <3>1. /\ id \in DOMAIN messages /\ id \in Nat \ {0} /\ Id[body] \in Tweets
          /\ body \in Posts \cap Inside[messages[id]] /\ by \in Profiles \cap Inside[messages[id]]
          /\ tweets' = [tweets EXCEPT ![Id[body]] = id] /\ todo' = tasks \o Tail(todo)
      BY <1>8, <2>1, TweetMade
    <3>2. tweets \in [Tweets -> Nat]
      BY DEF TypeOK
    <3>3. Id[body] \in Unknown /\ Id[body] \notin Unknown'
      BY <2>1, <3>1, <3>2 DEF Unknown
    <3>4. AllRight(tasks, messages)
      BY <1>0, <3>1, CallsOfTweet
    <3> HIDE DEF tasks
    <3>5. tasks \in Seq(Tasks) /\ todo' = tasks \o Tail(todo) /\ Unknown' # Unknown
      BY <3>1, <3>3, <3>4 DEF AllRight
    <3> QED
      BY <1>0, <3>5, LowerCalls
  <2> QED
    BY <1>2, <1>8, <2>1, TweetOrNone
<1>9. CASE FetchParent
  <2>1. PICK o \in Posts : Hydrates(o) /\ Calls(<<HandleCall(o)>>)
    BY <1>9 DEF FetchParent
  <2> DEFINE task == HandleCall(o)
             tasks == <<task>>
  <2>2. /\ task \in Tasks /\ todo' = tasks \o Tail(todo) /\ task.do = "handle"
        /\ Head(todo).do = "parent"
    BY <1>9, <2>1 DEF HandleCall, Task, Tasks, Calling, Calls, FetchParent, Next1
  <2> HIDE DEF task
  <2>3. tasks \in Seq(Tasks) /\ ToSet(tasks) = {task}
    BY <2>2 DEF ToSet
  <2> HIDE DEF tasks
  <2>4. \A x \in ToSet(tasks) : Rank(x) < Rank(Head(todo))
    BY <1>r, <2>2, <2>3
  <2> QED
    BY <1>0, <2>2, <2>3, <2>4, LowerCalls
<1>10. CASE ScanMessage
  <2>1. CASE id > Len(messages)
    BY <1>2, <1>10, <2>1 DEF ScanMessage
  <2>2. CASE ~(id > Len(messages))
    <3>1. id \in 1 .. Len(messages) + 1 /\ DOMAIN messages = 1 .. Len(messages)
      BY <1>0, <1>1, <1>10 DEF ScanMessage, Next1, Right
    <3>2. id \in DOMAIN messages /\ id \in Nat /\ id <= Len(messages)
      BY <1>0, <2>2, <3>1
    <3> DEFINE first == BodyCall(id, messages[id])
               last == ScanCall(id + 1)
               tasks == <<first, last>>
    <3>3. Right(first, messages) /\ first.do \in {"tweet", "user"}
      BY <1>0, <3>2, CallsOfMessage
    <3>4. last \in Tasks /\ last.do = "scan" /\ last.id = id + 1
      BY <3>2 DEF ScanCall, Task, Tasks, Calling
    <3>5. todo' = tasks \o Tail(todo)
      BY <1>10, <2>2 DEF ScanMessage, Calls
    <3>6. Rank(Head(todo)) = 5 + Len(messages) - id
      BY <1>10, <1>r DEF ScanMessage, Next1
    <3> HIDE DEF first, last, id
    <3>7. first \in Tasks
      BY <3>3 DEF Right
    <3>8. tasks \in Seq(Tasks) /\ ToSet(tasks) = {first, last}
      BY <3>4, <3>7 DEF ToSet
    <3>9. Rank(first) \in {1, 2} /\ Rank(last) = 5 + Len(messages) - (id + 1)
      BY <1>r, <3>3, <3>4
    <3>10. Rank(first) < Rank(Head(todo)) /\ Rank(last) < Rank(Head(todo))
      BY <1>0, <3>2, <3>6, <3>9
    <3> HIDE DEF tasks
    <3>11. \A task \in ToSet(tasks) : Rank(task) < Rank(Head(todo))
      BY <3>8, <3>10
    <3> QED
      BY <1>0, <3>5, <3>8, <3>11, LowerCalls
  <2> QED
    BY <2>1, <2>2
<1> QED
  BY <1>4, <1>5, <1>6, <1>7, <1>8, <1>9, <1>10 DEF Consume

\* Whatever is nested in tweets and in users and however long the chain of parents, the
\* calls that a message leads to get lower or give a tweet its row, which only the start
\* of a rescan takes away: the part of Stops that needs no fairness (process.go:54,
\* process.go:135, process.go:171).
THEOREM HandlingDescends == Spec => CallsDescend
<1>1. ASSUME IInv, [Next]_vars, counts'["rescans"] = counts["rescans"],
             up' = up, todo # <<>>, todo' # todo
      PROVE  Descends
  <2>0. TypeOK
    BY <1>1 DEF IInv
  <2>1. ~Rescan
    BY <1>1, <2>0, UnknownShrinks
  <2>2. ~Crash
    BY <1>1, <2>0 DEF Crash, Runs, TypeOK
  <2>3. \A p \in Producers : ~Send(p)
    BY <1>1 DEF Send
  <2>4. Consume
    BY <1>1, <2>1, <2>2, <2>3, TodoKept
  <2> QED
    BY <2>0, <2>4, ConsumeDescends
<1>2. IInv /\ [Next]_vars =>
        [counts'["rescans"] = counts["rescans"] =>
           /\ Unknown' \subseteq Unknown
           /\ up' = up /\ todo # <<>> /\ todo' # todo => Descends]_vars
  BY <1>1, UnknownShrinks DEF IInv
<1> QED
  BY <1>2, Invariance, PTL DEF Spec, CallsDescend

=============================================================================
