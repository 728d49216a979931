------------------------------- MODULE Covfefe -------------------------------
(***************************************************************************)
(* covfefe archives timelines. A goroutine per timeline, and one for the   *)
(* followers, send what Twitter answers into a channel (twitter.go); one   *)
(* goroutine takes it out, stores each message and derives rows from it    *)
(* (process.go); rescan derives them again (rescan.go).                    *)
(***************************************************************************)

EXTENDS Integers, Sequences

CONSTANTS
  Tweets,         \* identifiers of tweets, numbers in the order of their creation
  Posts,          \* the JSON objects of tweets; a tweet may have several
  Id, Author,     \* of such an object; Author is None for one that has no user
  Parent,         \* the tweet that it replies to, or None
  Nested,         \* the retweeted and the quoted tweet in it
  Profiles,       \* the JSON objects of users
  Key, Keys,      \* the identifier, the handle, the name and the bio in them
  Account,        \* the identifier alone
  Status,         \* the tweet in the object of a user, or None
  Protected,      \* the objects of protected users
  Fans, FanList,  \* those that a list of followers has, and such a list
  Inside,         \* all objects in an object, itself included
  Timelines,      \* the timelines that are followed
  Followers,      \* the list of followers
  Entries,        \* the tweets of a timeline in the order in which they enter it
  PerPage,        \* tweets in one answer
  None,
  MaxStarts, MaxFaults, MaxRescans, MaxRounds    \* bounds

Producers == Timelines \cup {Followers}
Accounts  == {Account[k] : k \in Keys}
Sent      == {o \in Posts : Author[o] # None}    \* Twitter sends a tweet with its user
Bodies    == Sent \cup Fans

IdAssumption ==
  /\ Tweets \subseteq Nat \ {0} /\ Posts \cap Profiles = {}
  /\ None \notin Tweets \cup Posts \cup Profiles
ASSUME IdAssumption
PostAssumption ==
  /\ Id \in [Posts -> Tweets] /\ Author \in [Posts -> Profiles \cup {None}]
  /\ Parent \in [Posts -> Tweets \cup {None}] /\ Nested \in [Posts -> Seq(Posts)]
ASSUME PostAssumption
ProfileAssumption ==
  /\ Key \in [Profiles -> Keys] /\ Status \in [Profiles -> Posts \cup {None}]
  /\ Protected \subseteq Profiles /\ Fans \subseteq Profiles /\ FanList \in Seq(Fans)
ASSUME ProfileAssumption
TimelineAssumption ==
  Entries \in [Timelines -> Seq(Sent)] /\ PerPage \in Nat \ {0} /\ Followers \notin Timelines
ASSUME TimelineAssumption
InsideAssumption ==
  /\ Inside \in [Posts \cup Profiles -> SUBSET (Posts \cup Profiles)]
  /\ \A o \in Posts : /\ Author[o] # None => Author[o] \in Inside[o]
                      /\ \A k \in DOMAIN Nested[o] : Nested[o][k] \in Inside[o]
  /\ \A u \in Profiles : Status[u] # None => Status[u] \in Inside[u]
  /\ \A x \in Posts \cup Profiles :
       x \in Inside[x] /\ \A y \in Inside[x] : Inside[y] \subseteq Inside[x]
ASSUME InsideAssumption

VARIABLES
  shown,                   \* how many entries stand in each timeline
  messages,                \* table Messages: the tweet or the follower in the JSON
  tweets, users, follows,  \* the message a row was derived from, 0 if there is no row
  origin,                  \* the tweet and the user that a row of Tweets was made of
  up, ctxDone,             \* the process, and its context
  pc, batch, newest, since,   \* locals of the producers
  todo,                    \* what is left of the calls of Handle, innermost first,
                           \* with those of a rescan in front
  counts,                  \* history: starts, faults, rescans, rounds
  answered, lost, cut      \* history: tweets answered, messages not stored, messages
                           \* whose processing did not get to its end

derived   == <<tweets, users, follows, origin>>
producers == <<pc, batch, newest, since>>
history   == <<answered, lost, cut>>
vars      == <<shown, messages, derived, up, ctxDone, producers, todo, counts, history>>

\* The elements of a sequence.
ToSet(s) == {s[i] : i \in DOMAIN s}

\* A call about a message; by is the user of the tweet that processTweet is given.
Task(do, id, body, by) == [do |-> do, id |-> id, body |-> body, by |-> by]

HandleCall(body)  == Task("handle", 0, body, None)
UserCall(id, u)   == Task("user", id, u, None)
FollowCall(id, u) == Task("follow", id, u, None)
ScanCall(id)      == Task("scan", id, None, None)

\* What processTweet calls for a tweet that is new, and processUser for any user:
\* the tweet in the object of a user is by that user.
TweetCalls(id, o, by) ==
  <<UserCall(id, by)>>
    \o [k \in DOMAIN Nested[o] |-> Task("tweet", id, Nested[o][k], Author[Nested[o][k]])]
    \o <<Task("parent", id, o, None)>>
StatusCalls(id, u) ==
  IF Status[u] = None THEN <<>> ELSE <<Task("tweet", id, Status[u], u)>>

\* What Handle calls for a message.
BodyCall(id, body) ==
  IF body \in Posts THEN Task("tweet", id, body, Author[body]) ELSE UserCall(id, body)
FollowCalls(id, body) == IF body \in Fans THEN <<FollowCall(id, body)>> ELSE <<>>

\* A rescan is a program of its own. All that it writes is one transaction, which
\* the statements of the process wait for.
Scanning == \E k \in DOMAIN todo : todo[k].do = "scan"
Runs     == up /\ ~Scanning

Counted == {"starts", "faults", "rescans", "rounds"}
Spend(what) == counts' = [counts EXCEPT ![what] = @ + 1]

Init ==
  /\ shown = [p \in Timelines |-> 0]
  /\ messages = <<>>
  /\ tweets = [t \in Tweets |-> 0] /\ origin = [t \in Tweets |-> None]
  /\ users = [k \in Keys |-> 0] /\ follows = [a \in Accounts |-> 0]
  /\ up = TRUE /\ ctxDone = FALSE
  /\ pc = [p \in Producers |-> "tick"] /\ batch = [p \in Producers |-> <<>>]
  /\ newest = [p \in Producers |-> 0] /\ since = [p \in Producers |-> 0]
  /\ todo = <<>>
  /\ counts = [c \in Counted |-> IF c = "starts" THEN 1 ELSE 0]
  /\ answered = [p \in Timelines |-> {}] /\ lost = {} /\ cut = {}

-----------------------------------------------------------------------------
(* Twitter.                                                                *)

Appear(p) ==
  /\ ~Scanning /\ shown[p] < Len(Entries[p])
  /\ shown' = [shown EXCEPT ![p] = @ + 1]
  /\ UNCHANGED <<messages, derived, up, ctxDone, producers, todo, counts, history>>

\* Where the tweets above since_id stand.
Above(p) == {k \in 1 .. shown[p] : Id[Entries[p][k]] > since[p]}

\* The answer has the last of them, the very last first.
IsPage(p, at, n) ==
  /\ \A i \in 1 .. n - 1 : at[i] > at[i + 1]
  /\ \A k \in Above(p) \ {at[i] : i \in 1 .. n} : n = PerPage /\ k < at[n]

Page(p, at, n) == [i \in 1 .. n |-> Entries[p][at[i]]]

(* The producers.                                                          *)

\* Mutant: since_id is known as soon as the answer is.
MutFetchAdvances(p) ==
  /\ Runs /\ ~ctxDone /\ pc[p] = "tick"
  /\ \E n \in 1 .. PerPage : \E at \in [1 .. n -> Above(p)] :
        /\ IsPage(p, at, n)
        /\ batch' = [batch EXCEPT ![p] = Page(p, at, n)]
        /\ newest' = [newest EXCEPT ![p] = Id[Page(p, at, n)[1]]] /\ since' = newest'
        /\ answered' = [answered EXCEPT ![p] = @ \cup ToSet(Page(p, at, n))]
  /\ pc' = [pc EXCEPT ![p] = "send"]
  /\ UNCHANGED <<shown, messages, derived, up, ctxDone, todo, counts, lost, cut>>

Fetch(p) ==
  /\ Runs /\ ~ctxDone /\ pc[p] = "tick"
  /\ \E n \in 1 .. PerPage : \E at \in [1 .. n -> Above(p)] :
        /\ IsPage(p, at, n)
        /\ batch' = [batch EXCEPT ![p] = Page(p, at, n)]
        /\ newest' = [newest EXCEPT ![p] = Id[Page(p, at, n)[1]]]
        /\ answered' = [answered EXCEPT ![p] = @ \cup ToSet(Page(p, at, n))]
  /\ pc' = [pc EXCEPT ![p] = "send"]
  /\ UNCHANGED <<shown, messages, derived, up, ctxDone, since, todo, counts, lost, cut>>

FetchFollowers ==
  /\ Runs /\ ~ctxDone /\ pc[Followers] = "tick"
  /\ FanList # <<>> /\ counts["rounds"] < MaxRounds
  /\ batch' = [batch EXCEPT ![Followers] = FanList]
  /\ pc' = [pc EXCEPT ![Followers] = "send"]
  /\ Spend("rounds")
  /\ UNCHANGED <<shown, messages, derived, up, ctxDone, newest, since, todo, history>>

\* After five tries. The group cancels the context of the others.
FetchFails(p) ==
  /\ Runs /\ pc[p] = "tick"
  /\ pc' = [pc EXCEPT ![p] = "done"]
  /\ ctxDone' = TRUE
  /\ UNCHANGED <<shown, messages, derived, up, batch, newest, since, todo, counts, history>>

\* The newest identifier of the answer is kept after its last message, when it can
\* be decoded; the list of followers has none.
KeepsNewest(p) ==
  \/ /\ pc' = [pc EXCEPT ![p] = "tick"] /\ since' = [since EXCEPT ![p] = newest[p]]
     /\ UNCHANGED ctxDone
  \/ /\ p # Followers /\ pc' = [pc EXCEPT ![p] = "done"] /\ ctxDone' = TRUE
     /\ UNCHANGED since

\* Mutant: the producer looks for a next message first.
MutSendLate(p) ==
  /\ up /\ pc[p] = "send" /\ todo = <<>>
  /\ todo' = <<HandleCall(Head(batch[p]))>>
  /\ batch' = [batch EXCEPT ![p] = Tail(@)]
  /\ IF batch[p] = <<>> THEN KeepsNewest(p) ELSE UNCHANGED <<pc, since, ctxDone>>
  /\ UNCHANGED <<shown, messages, derived, up, newest, counts, history>>

\* The channel has no buffer: Handle takes the message, when it is idle.
Send(p) ==
  /\ up /\ pc[p] = "send" /\ todo = <<>>
  /\ todo' = <<HandleCall(Head(batch[p]))>>
  /\ batch' = [batch EXCEPT ![p] = Tail(@)]
  /\ IF Len(batch[p]) = 1 THEN KeepsNewest(p) ELSE UNCHANGED <<pc, since, ctxDone>>
  /\ UNCHANGED <<shown, messages, derived, up, newest, counts, history>>

\* Mutant: the context is looked at while messages are sent, too.
MutStopAnywhere(p) ==
  /\ Runs /\ ctxDone /\ pc[p] # "done"
  /\ pc' = [pc EXCEPT ![p] = "done"] /\ batch' = [batch EXCEPT ![p] = <<>>]
  /\ UNCHANGED <<shown, messages, derived, up, ctxDone, newest, since, todo, counts, history>>

Stop(p) ==
  /\ Runs /\ ctxDone /\ pc[p] = "tick"
  /\ pc' = [pc EXCEPT ![p] = "done"]
  /\ UNCHANGED <<shown, messages, derived, up, ctxDone, batch, newest, since, todo, counts, history>>

-----------------------------------------------------------------------------
(* The consumer: one step is a statement of SQL, or the tweet that was     *)
(* asked for. A statement that fails is logged, in a rescan too.           *)

Next1(do) == (up \/ Scanning) /\ todo # <<>> /\ Head(todo).do = do
Calls(tasks) == todo' = tasks \o Tail(todo)
Unchanged == UNCHANGED <<shown, up, ctxDone, producers, answered>>

Dropped(body) == body \in Posts /\ Author[body] \in Protected

\* What is cut short when a statement fails: all that follows it in the function,
\* but for the tweet of a user.
StatementFails ==
  /\ counts["faults"] < MaxFaults /\ Spend("faults")
  /\ \/ /\ Next1("handle") /\ ~Dropped(Head(todo).body)
        /\ lost' = lost \cup {Head(todo).body} /\ UNCHANGED cut
        /\ Calls(<<>>)
     \/ /\ \/ Next1("tweet") /\ Head(todo).by # None
           \/ Next1("follow")
        /\ cut' = cut \cup {Head(todo).id} /\ UNCHANGED lost
        /\ Calls(<<>>)
     \/ /\ Next1("user")
        /\ cut' = cut \cup {Head(todo).id} /\ UNCHANGED lost
        /\ Calls(StatusCalls(Head(todo).id, Head(todo).body))
  /\ Unchanged /\ UNCHANGED <<messages, derived>>

HandleDrops ==
  /\ Next1("handle") /\ Dropped(Head(todo).body)
  /\ Calls(<<>>)
  /\ Unchanged /\ UNCHANGED <<messages, derived, counts, lost, cut>>

\* The key of the cache of hashes is a new pointer for each message, which is
\* never found: every message is inserted.
Handle ==
  /\ Next1("handle")
  /\ LET body == Head(todo).body
         id == Len(messages) + 1
     IN /\ ~Dropped(body)
        /\ messages' = Append(messages, body)
        /\ Calls(<<BodyCall(id, body)>> \o FollowCalls(id, body))
  /\ Unchanged /\ UNCHANGED <<derived, counts, lost, cut>>

\* Mutant: the row names the newest message.
MutProcessTweetNewest ==
  /\ Next1("tweet")
  /\ LET o == Head(todo).body
         id == Head(todo).id
         by == Head(todo).by
     IN IF by = None \/ tweets[Id[o]] # 0 THEN Calls(<<>>) /\ UNCHANGED <<tweets, origin>>
        ELSE /\ tweets' = [tweets EXCEPT ![Id[o]] = Len(messages)]
             /\ origin' = [origin EXCEPT ![Id[o]] = <<o, by>>]
             /\ Calls(TweetCalls(id, o, by))
  /\ Unchanged /\ UNCHANGED <<messages, users, follows, counts, lost, cut>>

\* Mutant: the row of a tweet is replaced, and its calls are made once more.
MutProcessTweetAgain ==
  /\ Next1("tweet")
  /\ LET o == Head(todo).body
         id == Head(todo).id
         by == Head(todo).by
     IN IF by = None THEN Calls(<<>>) /\ UNCHANGED <<tweets, origin>>
        ELSE /\ tweets' = [tweets EXCEPT ![Id[o]] = id]
             /\ origin' = [origin EXCEPT ![Id[o]] = <<o, by>>]
             /\ Calls(TweetCalls(id, o, by))
  /\ Unchanged /\ UNCHANGED <<messages, users, follows, counts, lost, cut>>

\* A tweet without a user, or one that is known, is left alone with all in it.
ProcessTweet ==
  /\ Next1("tweet")
  /\ LET o == Head(todo).body
         id == Head(todo).id
         by == Head(todo).by
     IN IF by = None \/ tweets[Id[o]] # 0 THEN Calls(<<>>) /\ UNCHANGED <<tweets, origin>>
        ELSE /\ tweets' = [tweets EXCEPT ![Id[o]] = id]
             /\ origin' = [origin EXCEPT ![Id[o]] = <<o, by>>]
             /\ Calls(TweetCalls(id, o, by))
  /\ Unchanged /\ UNCHANGED <<messages, users, follows, counts, lost, cut>>

\* The row of each handle, name and bio of a user is that of the first message.
ProcessUser ==
  /\ Next1("user")
  /\ LET u == Head(todo).body
         id == Head(todo).id
     IN /\ users' = [users EXCEPT ![Key[u]] = IF @ = 0 THEN id ELSE @]
        /\ Calls(StatusCalls(id, u))
  /\ Unchanged /\ UNCHANGED <<messages, tweets, origin, follows, counts, lost, cut>>

InsertFollow ==
  /\ Next1("follow")
  /\ LET a == Account[Key[Head(todo).body]]
     IN follows' = [follows EXCEPT ![a] = IF @ = 0 THEN Head(todo).id ELSE @]
  /\ Calls(<<>>)
  /\ Unchanged /\ UNCHANGED <<messages, tweets, origin, users, counts, lost, cut>>

\* Mutant: the error of one parent ends the message.
MutNoParentEnds ==
  /\ Next1("parent")
  /\ todo' = <<>>
  /\ Unchanged /\ UNCHANGED <<messages, derived, counts, lost, cut>>

\* A rescan, no parent, or it is known, or it cannot be had, now or later.
NoParent ==
  /\ Next1("parent")
  /\ Calls(<<>>)
  /\ Unchanged /\ UNCHANGED <<messages, derived, counts, lost, cut>>

\* The tweet that is answered has the parent's identifier.
Hydrates(o) ==
  LET parent == Parent[Head(todo).body]
  IN parent # None /\ tweets[parent] = 0 /\ o \in Sent /\ Id[o] = parent

\* Mutant: the parent goes through the channel, which nobody else reads.
MutFetchParentSends ==
  /\ Next1("parent") /\ ~Scanning
  /\ \E o \in Posts : Hydrates(o) /\ Calls(<<Task("send", 0, o, None)>>)
  /\ Unchanged /\ UNCHANGED <<messages, derived, counts, lost, cut>>

FetchParent ==
  /\ Next1("parent") /\ ~Scanning
  /\ \E o \in Posts : Hydrates(o) /\ Calls(<<HandleCall(o)>>)
  /\ Unchanged /\ UNCHANGED <<messages, derived, counts, lost, cut>>

-----------------------------------------------------------------------------
(* Rescan derives the rows again, in the order of the messages.            *)

Rescan ==
  /\ ~Scanning /\ counts["rescans"] < MaxRescans /\ Spend("rescans")
  /\ tweets' = [t \in Tweets |-> 0] /\ origin' = [t \in Tweets |-> None]
  /\ users' = [k \in Keys |-> 0] /\ follows' = [a \in Accounts |-> 0]
  /\ todo' = <<ScanCall(1)>> \o todo
  /\ cut' = {}
  /\ UNCHANGED <<shown, messages, up, ctxDone, producers, answered, lost>>

\* The source of a message is not selected, and without it no row of Follows is made.
ScanMessage ==
  /\ Next1("scan")
  /\ LET id == Head(todo).id
     IN Calls(IF id > Len(messages) THEN <<>> ELSE <<BodyCall(id, messages[id]), ScanCall(id + 1)>>)
  /\ Unchanged /\ UNCHANGED <<messages, derived, counts, lost, cut>>

-----------------------------------------------------------------------------
(* The process and its user.                                               *)

Signal ==
  /\ Runs /\ ~ctxDone
  /\ ctxDone' = TRUE
  /\ UNCHANGED <<shown, messages, derived, up, producers, todo, counts, history>>

\* The group has ended, the channel is closed, and the consumer has ended.
End ==
  /\ up /\ \A p \in Producers : pc[p] = "done"
  /\ todo = <<>>
  /\ up' = FALSE
  /\ UNCHANGED <<shown, messages, derived, ctxDone, producers, todo, counts, history>>

Crash ==
  /\ Runs /\ counts["faults"] < MaxFaults /\ Spend("faults")
  /\ up' = FALSE /\ todo' = <<>>
  /\ lost' = lost \cup {k.body : k \in {x \in ToSet(todo) : x.do = "handle"}}
                  \cup UNION {ToSet(batch[p]) : p \in Producers}
  /\ cut' = cut \cup {k.id : k \in {x \in ToSet(todo) : x.do \in {"tweet", "user", "follow"}}}
  /\ UNCHANGED <<shown, messages, derived, ctxDone, producers, answered>>

Restart ==
  /\ ~up /\ ~Scanning /\ counts["starts"] < MaxStarts /\ Spend("starts")
  /\ up' = TRUE /\ ctxDone' = FALSE
  /\ pc' = [p \in Producers |-> "tick"] /\ batch' = [p \in Producers |-> <<>>]
  /\ newest' = [p \in Producers |-> 0] /\ since' = [p \in Producers |-> 0]
  /\ answered' = [p \in Timelines |-> {}]
  /\ UNCHANGED <<shown, messages, derived, todo, lost, cut>>

Consume == StatementFails \/ HandleDrops \/ Handle \/ ProcessTweet \/ ProcessUser
             \/ InsertFollow \/ NoParent \/ FetchParent \/ ScanMessage
Poll(p) == FetchFails(p) \/ Send(p) \/ Stop(p)

Next ==
  \/ \E p \in Timelines : Appear(p) \/ Fetch(p)
  \/ FetchFollowers \/ \E p \in Producers : Poll(p)
  \/ Consume
  \/ Signal \/ End \/ Crash \/ Restart \/ Rescan

Spec == Init /\ [][Next]_vars

\* Goroutines run, and requests and statements end one way or the other.
Fairness ==
  /\ \A p \in Producers : WF_vars(Send(p)) /\ WF_vars(Stop(p))
  /\ WF_vars(Consume) /\ WF_vars(End)

FairSpec == Spec /\ Fairness

-----------------------------------------------------------------------------
(* Properties.                                                             *)

Calling == {"handle", "tweet", "user", "follow", "parent", "scan"}

Tasks   == [do : Calling, id : Nat, body : Posts \cup Profiles \cup {None}, by : Profiles \cup {None}]

\* A call that is still to be made is about something in the message it names.
TaskOK(task) ==
  /\ task.do = "handle" => task = HandleCall(task.body) /\ task.body \in Bodies
  /\ task.do \in {"tweet", "parent", "user", "follow"} =>
       task.id \in DOMAIN messages /\ task.body \in Inside[messages[task.id]]
  /\ task.do \in {"tweet", "parent"} => task.body \in Posts
  /\ task.do = "tweet" => task.by \in Inside[messages[task.id]] \cup {None}
  /\ task.do = "user" => task.body \in Profiles
  /\ task.do = "follow" => task.body \in Fans /\ task.body = messages[task.id]
  /\ task.do = "scan" => task.id \in 1 .. Len(messages) + 1

\* The types of the tables and of the locals.
TypeOK ==
  /\ shown \in [Timelines -> Nat] /\ \A p \in Timelines : shown[p] <= Len(Entries[p])
  /\ messages \in Seq(Bodies)
  /\ tweets \in [Tweets -> Nat] /\ users \in [Keys -> Nat] /\ follows \in [Accounts -> Nat]
  /\ origin \in [Tweets -> (Posts \X Profiles) \cup {None}]
  /\ up \in BOOLEAN /\ ctxDone \in BOOLEAN
  /\ pc \in [Producers -> {"tick", "send", "done"}]
  /\ batch \in [Producers -> Seq(Bodies)]
  /\ \A p \in Producers : pc[p] = "send" <=> batch[p] # <<>>
  /\ newest \in [Producers -> Nat] /\ since \in [Producers -> Nat]
  /\ todo \in Seq(Tasks) /\ \A k \in DOMAIN todo : TaskOK(todo[k])
  /\ counts \in [Counted -> Nat]

\* Every row of the derived tables comes from a message that is stored and that
\* holds what the row says (of a tweet, its user too), through parents that are fetched
\* in the middle of a message, tweets of users, crashes and rescans (process.go:28).
RowsFromMessages ==
  /\ \A t \in Tweets : tweets[t] # 0 =>
       /\ tweets[t] \in DOMAIN messages /\ origin[t] \in Posts \X Profiles /\ Id[origin[t][1]] = t
       /\ {origin[t][1], origin[t][2]} \subseteq Inside[messages[tweets[t]]]
  /\ \A k \in Keys : users[k] # 0 =>
       users[k] \in DOMAIN messages /\ \E u \in Inside[messages[users[k]]] \cap Profiles : Key[u] = k
  /\ \A a \in Accounts : follows[a] # 0 =>
       follows[a] \in DOMAIN messages /\ \E u \in Fans : messages[follows[a]] = u /\ Account[Key[u]] = a

\* A user has a row for what the object says, and the tweet in it has one.
UserKnown(u) == users[Key[u]] # 0 /\ (Status[u] # None => tweets[Id[Status[u]]] # 0)

\* Between two messages, what is missing is missing for a message whose processing was
\* cut short since the last rescan: any other one has the row of its tweet or its user,
\* and without a rescan its follow; and where a tweet got its row from any other one,
\* so have its user, that user's tweet, and the nested tweets that have a user
\* (process.go:28-65, process.go:165-174). It says nothing of what is inside a second
\* object of a known tweet, nor inside a tweet without a user, which the code skips.
HolesAreCut ==
  todo = <<>> =>
    /\ \A i \in DOMAIN messages \ cut :
         /\ messages[i] \in Posts => tweets[Id[messages[i]]] # 0
         /\ messages[i] \in Fans =>
              /\ UserKnown(messages[i])
              /\ counts["rescans"] = 0 => follows[Account[Key[messages[i]]]] # 0
    /\ \A t \in Tweets : tweets[t] # 0 /\ tweets[t] \notin cut =>
         LET o == origin[t][1]
         IN /\ UserKnown(origin[t][2])
            /\ \A k \in DOMAIN Nested[o] :
                 Author[Nested[o][k]] # None => tweets[Id[Nested[o][k]]] # 0

Handled(o) == o \in ToSet(messages) \/ Dropped(o) \/ o \in lost
Pending(o) == \E k \in DOMAIN todo : todo[k] = HandleCall(o)

\* A tweet of an answer that since_id leaves behind was stored or dropped, its
\* INSERT failed, or it is the one being handled (twitter.go:187).
SinceIsHandled ==
  up => \A p \in Timelines : \A o \in answered[p] :
    Id[o] <= since[p] => Handled(o) \/ Pending(o)

\* A signal, or the failure of one producer, ends the process, although producers
\* may be blocked in a send and the consumer in a chain of parents (covfefe.go:131).
Stops == ctxDone ~> ~up

\* A process that ends by itself has handled all that its producers were
\* answered (covfefe.go:131-134, twitter.go:175).
EndsComplete ==
  [][up /\ ~up' /\ counts' = counts =>
       \A p \in Timelines : \A o \in answered[p] : Handled(o)]_vars

Unknown == {t \in Tweets : tweets[t] = 0}

\* How far a call is from the statements that make no other. The tweet of a user is
\* below the user, although a new tweet calls for its user.
Rank(task) ==
  CASE task.do = "follow" -> 0
    [] task.do = "tweet"  -> 1
    [] task.do = "user"   -> 2
    [] task.do = "handle" -> 3
    [] task.do = "parent" -> 4
    [] OTHER              -> 5 + Len(messages) - task.id

\* How many calls a step put in the place of the innermost one.
Made == Len(todo') - Len(Tail(todo))

Descends ==
  /\ Made >= 0 /\ SubSeq(todo', Made + 1, Len(todo')) = Tail(todo)
  /\ Unknown' # Unknown \/ \A k \in 1 .. Made : Rank(todo'[k]) < Rank(Head(todo))

\* The calls that processTweet, processUser, fetchParent and Handle make of one another
\* come to an end, although tweets are nested in tweets and in users, users are those of
\* tweets, and parents have parents (process.go:54, process.go:135, process.go:171): a
\* call is replaced by lower ones, or a tweet has got its row, and only the start of a
\* rescan takes the row of a tweet away.
CallsDescend ==
  [][counts'["rescans"] = counts["rescans"] =>
       /\ Unknown' \subseteq Unknown
       /\ up' = up /\ todo # <<>> /\ todo' # todo => Descends]_vars

=============================================================================
