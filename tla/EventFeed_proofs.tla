--------------------------- MODULE EventFeed_proofs ---------------------------
(***************************************************************************)
(* What holds of the event feed for every capacity, any entries and any    *)
(* number of connections and daemons: FeedInv, and from it that the feed   *)
(* implements FaithfulFeed.                                                 *)
(***************************************************************************)
EXTENDS EventFeed, TLAPS

(* The first daemon, not yet followed, satisfies the invariant.             *)
LEMMA FeedInitially == FeedInit => FeedInv
<1> SUFFICES ASSUME FeedInit PROVE FeedInv
  OBVIOUS
<1>0. /\ log \in Seq(Entry \cup {Origin}) /\ Len(log) = 1
      /\ daemon = 1 /\ daemonId = 0 /\ origin = 1 /\ first = 2
      /\ open = FALSE /\ hello = NoHello /\ wire = {} /\ cursor = 0
  BY DEF FeedInit
<1>1. JournalInv
  BY <1>0 DEF JournalInv
<1>2. ConnectionInv
  <2>1. NoHello \in HelloFrame
    BY DEF NoHello, HelloFrame
  <2>2. cursor \in 0..Len(log)
    BY <1>0
  <2>3. open \in BOOLEAN /\ ~open
    BY <1>0
  <2> QED BY <1>0, <2>1, <2>2, <2>3 DEF ConnectionInv
<1> QED BY <1>1, <1>2 DEF FeedInv

(* What an entry adds to what is visible after a position: itself, if it is *)
(* visible (append in ApiEventJournal.ts).                                   *)
LEMMA VisibleGrows ==
    ASSUME NEW C \in Nat, FeedInv, NEW entry, log' = Append(log, entry), C <= Len(log)
    PROVE  VisibleAfter(C)' = IF entry \in Visible THEN VisibleAfter(C) \cup {Len(log) + 1}
                              ELSE VisibleAfter(C)
<1>1. /\ Len(log) \in Nat /\ Len(log') = Len(log) + 1
      /\ \A p \in 1..Len(log) : log'[p] = log[p]
      /\ log'[Len(log) + 1] = entry
  BY DEF FeedInv, JournalInv
<1> QED BY <1>1 DEF VisibleAfter

(* The journal stays the end of the log, whatever is appended.              *)
LEMMA JournalKept ==
    ASSUME FeedInv, [FeedNext]_feedVars PROVE JournalInv'
<1> USE EventFeedAssumption
<1>0. JournalInv /\ Len(log) \in Nat /\ hello \in HelloFrame
  BY DEF FeedInv, JournalInv, ConnectionInv
<1>1. ASSUME NEW entry \in Entry, Journal(entry), daemonId' = daemonId
      PROVE  JournalInv'
  <2>1. /\ log' = Append(log, entry) /\ log' \in Seq(Entry \cup {Origin})
        /\ Len(log') = Len(log) + 1
        /\ \A p \in 1..Len(log) : log'[p] = log[p]
        /\ log'[Len(log) + 1] = entry
    BY <1>0, <1>1 DEF Journal, JournalInv
  <2>2. /\ first' \in {first, first + 1} /\ origin' = first' - 1 /\ daemon' = daemon
        /\ first' = first + 1 => Len(log) + 1 - first = Capacity
    BY <1>0, <1>1 DEF Journal, JournalInv
  <2>3. first' \in 2..(Len(log') + 1)
    BY <1>0, <2>1, <2>2 DEF JournalInv
  <2>4. \A p \in first'..Len(log') : log'[p] # Origin
    BY <1>0, <2>1, <2>2 DEF JournalInv
  <2> QED BY <1>0, <1>1, <2>1, <2>2, <2>3, <2>4 DEF JournalInv
<1>2. ASSUME NewDaemon, daemonId' = daemonId PROVE JournalInv'
  <2>1. /\ log' = Append(log, Origin) /\ log' \in Seq(Entry \cup {Origin})
        /\ Len(log') = Len(log) + 1
    BY <1>0, <1>2 DEF NewDaemon, JournalInv
  <2> QED BY <1>0, <1>2, <2>1 DEF NewDaemon, JournalInv
<1>3. ASSUME UNCHANGED <<log, daemonVars>>, daemonId' \in Nat PROVE JournalInv'
  BY <1>0, <1>3 DEF JournalInv, daemonVars
<1>4. CASE \E entry \in Entry : Journal(entry) /\ UNCHANGED followerVars
  BY <1>1, <1>4 DEF followerVars
<1>5. CASE NewDaemon /\ UNCHANGED followerVars
  BY <1>2, <1>5 DEF followerVars
<1>6. CASE Connect /\ UNCHANGED <<log, daemonVars, followerVars>>
  BY <1>0, <1>3, <1>6 DEF followerVars, JournalInv
<1>7. CASE Break /\ UNCHANGED <<log, daemonVars, followerVars>>
  BY <1>0, <1>3, <1>7 DEF followerVars, JournalInv
<1>8. CASE StartAgain /\ UNCHANGED <<log, daemonVars, cursor, news>>
  BY <1>3, <1>8 DEF StartAgain
<1>9. CASE ReadHello /\ UNCHANGED <<log, daemonVars, open, wire>>
  BY <1>0, <1>3, <1>9 DEF ReadHello, HelloFrame
<1>10. CASE \E p \in wire : ReadEvent(p) /\ UNCHANGED <<log, daemonVars, open, hello, daemonId>>
  BY <1>0, <1>3, <1>10 DEF JournalInv
<1>11. CASE UNCHANGED feedVars
  BY <1>0, <1>3, <1>11 DEF feedVars, followerVars, JournalInv
<1> QED BY <1>4, <1>5, <1>6, <1>7, <1>8, <1>9, <1>10, <1>11 DEF FeedNext

(* An open connection owes what is visible after the cursor it goes on from.*)
LEMMA ConnectionKept ==
    ASSUME FeedInv, [FeedNext]_feedVars PROVE ConnectionInv'
<1> USE EventFeedAssumption
<1>0. JournalInv /\ ConnectionInv /\ Len(log) \in Nat /\ Len(log) >= 1
  BY DEF FeedInv, JournalInv
<1>1. ASSUME NEW entry \in Entry, Journal(entry), UNCHANGED followerVars
      PROVE  ConnectionInv'
  <2>1. /\ log' = Append(log, entry) /\ Len(log') = Len(log) + 1
        /\ UNCHANGED <<open, hello, cursor>>
        /\ wire' = IF open /\ entry \in Visible THEN wire \cup {Len(log) + 1} ELSE wire
    BY <1>0, <1>1 DEF Journal, JournalInv, followerVars
  <2>2. \A c \in Nat : c <= Len(log) =>
            VisibleAfter(c)' = IF entry \in Visible THEN VisibleAfter(c) \cup {Len(log) + 1}
                               ELSE VisibleAfter(c)
    BY <2>1, VisibleGrows
  <2>3. cursor \in Nat /\ cursor <= Len(log)
    BY <1>0 DEF ConnectionInv
  <2>4. hello # NoHello => hello.cursor \in Nat /\ hello.cursor <= Len(log) /\ open
    BY <1>0 DEF ConnectionInv
  <2>5. VisibleAfter(cursor)' = IF entry \in Visible THEN VisibleAfter(cursor) \cup {Len(log) + 1}
                                ELSE VisibleAfter(cursor)
    BY <2>1, <2>2, <2>3 DEF VisibleAfter
  <2>6. hello # NoHello =>
            VisibleAfter(hello.cursor)' =
                IF entry \in Visible THEN VisibleAfter(hello.cursor) \cup {Len(log) + 1}
                ELSE VisibleAfter(hello.cursor)
    BY <2>1, <2>2, <2>4 DEF VisibleAfter
  <2>7. cursor' \in 0..Len(log')
    BY <2>1, <2>3
  <2>8. open \in BOOLEAN /\ hello \in HelloFrame
    BY <1>0 DEF ConnectionInv
  <2>9. ~open => hello = NoHello /\ wire' = {}
    BY <1>0, <2>1 DEF ConnectionInv
  <2>10. open /\ hello = NoHello => cursor # 0 /\ wire' = VisibleAfter(cursor)'
    BY <1>0, <2>1, <2>5 DEF ConnectionInv
  <2>11. hello # NoHello =>
            /\ hello.cursor \in 1..Len(log') /\ cursor <= hello.cursor
            /\ hello.resumed => cursor # 0 /\ ~hello.gap /\ wire' = VisibleAfter(cursor)'
            /\ ~hello.resumed =>
                  /\ hello.gap <=> cursor # 0
                  /\ cursor # hello.cursor
                  /\ wire' = VisibleAfter(hello.cursor)'
    <3> SUFFICES ASSUME hello # NoHello PROVE
            /\ hello.cursor \in 1..Len(log') /\ cursor <= hello.cursor
            /\ hello.resumed => cursor # 0 /\ ~hello.gap /\ wire' = VisibleAfter(cursor)'
            /\ ~hello.resumed =>
                  /\ hello.gap <=> cursor # 0
                  /\ cursor # hello.cursor
                  /\ wire' = VisibleAfter(hello.cursor)'
      OBVIOUS
    <3>1. open /\ hello.cursor \in 1..Len(log) /\ cursor <= hello.cursor
      BY <1>0, <2>4 DEF ConnectionInv
    <3>2. hello.resumed => cursor # 0 /\ ~hello.gap /\ wire = VisibleAfter(cursor)
      BY <1>0 DEF ConnectionInv
    <3>3. ~hello.resumed =>
             (hello.gap <=> cursor # 0) /\ cursor # hello.cursor /\ wire = VisibleAfter(hello.cursor)
      BY <1>0 DEF ConnectionInv
    <3>4. hello.cursor \in 1..Len(log')
      BY <1>0, <2>1, <3>1
    <3>5. wire' = IF entry \in Visible THEN wire \cup {Len(log) + 1} ELSE wire
      BY <2>1, <3>1
    <3>6. hello.resumed => wire' = VisibleAfter(cursor)'
      BY <2>5, <3>2, <3>5
    <3>7. ~hello.resumed => wire' = VisibleAfter(hello.cursor)'
      BY <2>6, <3>3, <3>5
    <3> QED BY <3>1, <3>2, <3>3, <3>4, <3>6, <3>7
  <2> QED BY <2>1, <2>7, <2>8, <2>9, <2>10, <2>11 DEF ConnectionInv
<1>2. ASSUME Disconnected, cursor' = cursor, Len(log') \in Nat, Len(log') >= Len(log)
      PROVE  ConnectionInv'
  <2>1. NoHello \in HelloFrame
    BY DEF NoHello, HelloFrame
  <2>2. hello' = NoHello /\ wire' = {} /\ open' = FALSE
    BY <1>2 DEF Disconnected
  <2>3. open' \in BOOLEAN /\ ~open'
    BY <2>2
  <2>4. cursor' \in 0..Len(log')
    BY <1>0, <1>2 DEF ConnectionInv
  <2> QED BY <2>1, <2>2, <2>3, <2>4 DEF ConnectionInv
<1>3. CASE \E entry \in Entry : Journal(entry) /\ UNCHANGED followerVars
  BY <1>1, <1>3
<1>4. CASE NewDaemon /\ UNCHANGED followerVars
  <2>1. Len(log') = Len(log) + 1
    BY <1>0, <1>4 DEF NewDaemon, JournalInv
  <2> QED BY <1>0, <1>2, <1>4, <2>1 DEF NewDaemon, followerVars
<1>5. CASE Connect /\ UNCHANGED <<log, daemonVars, followerVars>>
  <2> DEFINE gap == cursor # 0 /\ ~HasCursor(cursor)
             resumed == cursor # 0 /\ ~gap
  <2>1. /\ open' = TRUE /\ UNCHANGED <<log, cursor>>
        /\ hello' = [cursor |-> Len(log), gap |-> gap, resumed |-> resumed, daemon |-> daemon]
        /\ wire' = IF resumed THEN Replay(cursor) ELSE {}
    BY <1>5 DEF Connect, followerVars
  <2>2. hello' \in HelloFrame /\ hello' # NoHello
    BY <1>0, <2>1 DEF HelloFrame, NoHello, JournalInv
  <2>3. ASSUME resumed PROVE Replay(cursor) = VisibleAfter(cursor)
    BY <1>0, <2>3 DEF Replay, VisibleAfter, HasCursor, JournalInv, ConnectionInv
  <2>4. VisibleAfter(Len(log)) = {}
    BY <1>0 DEF VisibleAfter
  <2>5. ~resumed => (gap <=> cursor # 0) /\ cursor # Len(log)
    BY <1>0 DEF HasCursor, JournalInv, ConnectionInv
  <2>6. VisibleAfter(cursor)' = VisibleAfter(cursor) /\ VisibleAfter(Len(log))' = VisibleAfter(Len(log))
    BY <2>1 DEF VisibleAfter
  <2>7. /\ hello'.cursor = Len(log) /\ hello'.gap = gap /\ hello'.resumed = resumed
        /\ gap \in BOOLEAN /\ resumed \in BOOLEAN
    BY <2>1
  <2>8. VisibleAfter(hello.cursor)' = {}
    BY <2>1, <2>4, <2>7 DEF VisibleAfter
  <2>9. cursor \in 0..Len(log) /\ cursor <= Len(log) /\ Len(log) \in 1..Len(log)
    BY <1>0 DEF ConnectionInv
  <2>10. resumed => cursor # 0 /\ ~gap /\ wire' = VisibleAfter(cursor)'
    BY <2>1, <2>3, <2>6
  <2>11. ~resumed => wire' = {}
    BY <2>1
  <2> HIDE DEF gap, resumed
  <2> QED BY <2>1, <2>2, <2>5, <2>7, <2>8, <2>9, <2>10, <2>11 DEF ConnectionInv
<1>6. CASE Break /\ UNCHANGED <<log, daemonVars, followerVars>>
  BY <1>0, <1>2, <1>6 DEF Break, followerVars
<1>7. CASE StartAgain /\ UNCHANGED <<log, daemonVars, cursor, news>>
  BY <1>0, <1>2, <1>7 DEF StartAgain
<1>8. CASE ReadHello /\ UNCHANGED <<log, daemonVars, open, wire>>
  <2>1. NoHello \in HelloFrame
    BY DEF NoHello, HelloFrame
  <2>2. /\ hello # NoHello /\ hello' = NoHello /\ open /\ UNCHANGED <<log, open, wire>>
        /\ cursor' = IF cursor = 0 \/ StateLost THEN hello.cursor ELSE cursor
    BY <1>0, <1>8 DEF ReadHello, ConnectionInv
  <2>3. cursor' \in 1..Len(log) /\ wire = VisibleAfter(cursor')
    BY <1>0, <2>2 DEF ConnectionInv, StateLost, HelloFrame
  <2>4. VisibleAfter(cursor)' = VisibleAfter(cursor')
    BY <2>2 DEF VisibleAfter
  <2> QED BY <1>0, <2>1, <2>2, <2>3, <2>4 DEF ConnectionInv
<1>9. CASE \E p \in wire : ReadEvent(p) /\ UNCHANGED <<log, daemonVars, open, hello, daemonId>>
  <2>1. PICK p \in wire : ReadEvent(p) /\ UNCHANGED <<log, open, hello>>
    BY <1>9
  <2>2. /\ hello = NoHello /\ NextFrame(p) /\ open /\ cursor # 0 /\ wire = VisibleAfter(cursor)
        /\ wire' = wire \ {p}
        /\ cursor' = IF p > cursor THEN p ELSE cursor
    BY <1>0, <2>1 DEF ReadEvent, ConnectionInv
  <2>3. p \in (cursor + 1)..Len(log) /\ cursor' = p
    BY <1>0, <2>2 DEF VisibleAfter, ConnectionInv
  <2>4. wire' = VisibleAfter(p)
    BY <1>0, <2>2, <2>3 DEF VisibleAfter, NextFrame, ConnectionInv
  <2>5. VisibleAfter(cursor)' = VisibleAfter(p)
    BY <2>1, <2>3 DEF VisibleAfter
  <2> QED BY <1>0, <2>1, <2>2, <2>3, <2>4, <2>5 DEF ConnectionInv
<1>10. CASE UNCHANGED feedVars
  <2>1. UNCHANGED <<log, open, hello, wire, cursor>>
    BY <1>10 DEF feedVars, connectionVars, followerVars
  <2> QED BY <1>0, <2>1 DEF ConnectionInv, VisibleAfter
<1> QED BY <1>3, <1>4, <1>5, <1>6, <1>7, <1>8, <1>9, <1>10 DEF FeedNext

(* FeedInv holds of the feed, for any capacity and any number of            *)
(* connections and daemons.                                                 *)
THEOREM FeedInductive == FeedSpec => []FeedInv
<1>1. FeedInit => FeedInv
  BY FeedInitially
<1>2. FeedInv /\ [FeedNext]_feedVars => FeedInv'
  BY JournalKept, ConnectionKept DEF FeedInv
<1> QED BY <1>1, <1>2, PTL DEF FeedSpec

(* Every step of the feed is a step of FaithfulFeed, or none.               *)
LEMMA FeedSteps ==
    ASSUME FeedInv, [FeedNext]_feedVars PROVE [Promise!Next]_Promise!vars
<1> USE DEF Promise!vars
<1>0. JournalInv /\ ConnectionInv /\ Len(log) \in Nat /\ Len(log) >= 1
  BY DEF FeedInv, JournalInv
<1>1. ASSUME NEW entry, log' = Append(log, entry), UNCHANGED followerVars
      PROVE  Promise!Happen
  BY <1>0, <1>1 DEF JournalInv, followerVars, Promise!Happen
<1>2. CASE \E entry \in Entry : Journal(entry) /\ UNCHANGED followerVars
  BY <1>1, <1>2 DEF Journal, Promise!Next
<1>3. CASE NewDaemon /\ UNCHANGED followerVars
  BY <1>1, <1>3 DEF NewDaemon, Promise!Next
<1>4. CASE Connect /\ UNCHANGED <<log, daemonVars, followerVars>>
  BY <1>4 DEF followerVars
<1>5. CASE Break /\ UNCHANGED <<log, daemonVars, followerVars>>
  BY <1>5 DEF followerVars
<1>6. CASE StartAgain /\ UNCHANGED <<log, daemonVars, cursor, news>>
  BY <1>6
<1>7. CASE ReadHello /\ UNCHANGED <<log, daemonVars, open, wire>>
  <2>1. /\ hello # NoHello /\ log' = log
        /\ cursor' = IF cursor = 0 \/ StateLost THEN hello.cursor ELSE cursor
        /\ news' = IF StateLost THEN "lost" ELSE IF cursor = 0 THEN "joined" ELSE news
    BY <1>7 DEF ReadHello
  <2>2. hello.cursor \in 1..Len(log) /\ cursor \in 0..Len(log) /\ cursor <= hello.cursor
    BY <1>0, <2>1 DEF ConnectionInv
  <2>3. CASE cursor = 0
    <3>1. ~StateLost
      BY <1>0, <2>1, <2>3 DEF ConnectionInv, StateLost, HelloFrame
    <3> QED BY <2>1, <2>2, <2>3, <3>1 DEF Promise!Join, Promise!Next
  <2>4. CASE cursor # 0 /\ hello.resumed
    BY <1>0, <2>1, <2>4 DEF ConnectionInv, StateLost
  <2>5. CASE cursor # 0 /\ ~hello.resumed
    <3>1. StateLost /\ cursor # hello.cursor
      BY <1>0, <2>1, <2>5 DEF ConnectionInv, StateLost
    <3>2. cursor' \in (cursor + 1)..Len(log) /\ news' = "lost"
      BY <1>0, <2>1, <2>2, <3>1
    <3> QED BY <2>1, <2>5, <3>2 DEF Promise!Lose, Promise!Next
  <2> QED BY <2>3, <2>4, <2>5
<1>8. CASE \E p \in wire : ReadEvent(p) /\ UNCHANGED <<log, daemonVars, open, hello, daemonId>>
  <2>1. PICK p \in wire : ReadEvent(p) /\ UNCHANGED log
    BY <1>8
  <2>2. /\ NextFrame(p) /\ cursor # 0 /\ wire = VisibleAfter(cursor)
        /\ cursor' = IF p > cursor THEN p ELSE cursor
        /\ news' = IF p > cursor THEN "event" ELSE news
    BY <1>0, <2>1 DEF ReadEvent, ConnectionInv
  <2>3. p \in (cursor + 1)..Len(log) /\ log[p] \in Visible
    BY <1>0, <2>2 DEF VisibleAfter
  <2>4. cursor' = p /\ news' = "event"
    BY <1>0, <2>2, <2>3 DEF ConnectionInv
  <2>5. \A q \in (cursor + 1)..(p - 1) : log[q] \notin Visible
    BY <1>0, <2>2, <2>3 DEF VisibleAfter, NextFrame, ConnectionInv
  <2> QED BY <2>1, <2>2, <2>3, <2>4, <2>5 DEF Promise!Show, Promise!Next
<1>9. CASE UNCHANGED feedVars
  BY <1>9 DEF feedVars, followerVars
<1> QED BY <1>2, <1>3, <1>4, <1>5, <1>6, <1>7, <1>8, <1>9 DEF FeedNext

(* The feed implements FaithfulFeed: no event of the log is skipped or      *)
(* shown twice, unless the client is told of a loss.                        *)
THEOREM FeedKeepsItsPromise == FeedSpec => FeedIsFaithful
<1>1. FeedInit => Promise!Init
  BY DEF FeedInit, Promise!Init
<1>2. FeedInv /\ [FeedNext]_feedVars => [Promise!Next]_Promise!vars
  BY FeedSteps
<1> QED BY <1>1, <1>2, FeedInductive, PTL DEF FeedSpec, FeedIsFaithful, Promise!Spec
=============================================================================
