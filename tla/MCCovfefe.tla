------------------------------ MODULE MCCovfefe ------------------------------
(***************************************************************************)
(* Covfefe with the likes and the followers of one account. Tweet 3        *)
(* retweets 2, a reply to 4, and quotes 1, which a follower wrote.         *)
(***************************************************************************)

EXTENDS Covfefe, TLC

CONSTANTS
  likes,
  reply, quoting, quoted, root,     \* the objects of 2, 3, 1 and 4
  status, bare,                     \* in the object of the follower, 1, and 2 in it
  writer, fan, locked,              \* users; locked is the follower as a protected one
  kw, kf, kl                        \* their rows

Tweet    == (reply :> 2) @@ (quoting :> 3) @@ (quoted :> 1) @@ (root :> 4) @@ (status :> 1) @@ (bare :> 2)
Writers  == [o \in Posts |-> CASE o \in {status, bare} -> None [] o = quoted -> locked [] OTHER -> writer]
Replies  == [o \in Posts |-> IF Tweet[o] = 2 THEN 4 ELSE None]
Quotes   == [o \in Posts |-> CASE o = quoting -> <<reply, quoted>> [] o = status -> <<bare>> [] OTHER -> <<>>]
Rows     == (writer :> kw) @@ (fan :> kf) @@ (locked :> kl)
Ids      == (kw :> 1) @@ (kf :> 2) @@ (kl :> 2)
Statuses == (writer :> None) @@ (fan :> status) @@ (locked :> None)
Holds    == (reply :> {reply, writer}) @@ (quoted :> {quoted, locked}) @@ (root :> {root, writer})
              @@ (quoting :> {quoting, writer, reply, quoted, locked})
              @@ (status :> {status, bare}) @@ (bare :> {bare})
              @@ (writer :> {writer}) @@ (locked :> {locked}) @@ (fan :> {fan, status, bare})

\* In the order in which somebody liked them; 1 is dropped, and 2 comes inside 3.
Liked == likes :> <<quoted, quoting>>

OneFan == <<fan>>

=============================================================================
