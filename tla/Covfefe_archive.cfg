\* A timeline of two tweets that hold others, one follower with a tweet, one restart
\* after a signal or a crash, one failure and one rescan.
SPECIFICATION FairSpec
CONSTANTS
  likes = likes
  reply = reply
  quoting = quoting
  quoted = quoted
  root = root
  status = status
  bare = bare
  writer = writer
  fan = fan
  locked = locked
  kw = kw
  kf = kf
  kl = kl
  None = None
  Followers = Followers
  Tweets = {1, 2, 3, 4}
  Posts = {reply, quoting, quoted, root, status, bare}
  Profiles = {writer, fan, locked}
  Keys = {kw, kf, kl}
  Fans = {fan}
  Protected = {locked}
  Timelines = {likes}
  PerPage = 2
  Id <- Tweet
  Author <- Writers
  Parent <- Replies
  Nested <- Quotes
  Key <- Rows
  Account <- Ids
  Status <- Statuses
  Inside <- Holds
  FanList <- OneFan
  Entries <- Liked
  MaxStarts = 2
  MaxFaults = 1
  MaxRescans = 1
  MaxRounds = 1
CHECK_DEADLOCK FALSE
INVARIANTS TypeOK RowsFromMessages HolesAreCut SinceIsHandled
PROPERTIES Stops EndsComplete CallsDescend
